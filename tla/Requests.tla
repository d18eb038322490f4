------------------------------ MODULE Requests ------------------------------
(***************************************************************************)
(* The requests of the clients: respons_stb_info of g_net_update.c, run by *)
(* the workers, over the table of epoll_connect.c that the accept thread   *)
(* and the main thread change at the same time.                            *)
(*                                                                         *)
(* A job names its connection by the descriptor alone.  While it waits or  *)
(* runs, the main thread may close that descriptor and the accept thread   *)
(* may give it to another client.  The table is read without its mutexes,  *)
(* and a registration with epoll that fails leaves its slot occupied, with *)
(* the number of a descriptor that another client gets next.               *)
(*                                                                         *)
(* The queue is the promise of module JobQueue; the ways in which a        *)
(* connection ends, and the counter, are those of module Connections; here *)
(* an event or the timeout scan ends it.  A client is its own address:     *)
(* client_ip_addr and client_port hold the client they were taken from.    *)
(***************************************************************************)
EXTENDS Integers, Sequences, FiniteSets

CONSTANTS
    Workers,    \* the threads of the pool
    MaxEvents,  \* MAX_EVENTS
    Fds,        \* descriptors accept may return
    Clients,    \* the peers, at most one connection each
    Users,      \* user names; they differ in their first nine characters
    NoFd, NoClient, NoUser,
    MaxQueue    \* bound: jobs waiting in the queue

ASSUME MaxEventsAssumption == MaxEvents \in Nat \ {0}
ASSUME NamesAssumption == NoFd \notin Fds /\ NoClient \notin Clients /\ NoUser \notin Users
ASSUME MaxQueueAssumption == MaxQueue \in Nat

VARIABLES
    connect_fd, client_ip_addr, client_port, UsrhashId,  \* the table
    peer,              \* the client at the other end of a descriptor
    epolled,           \* the descriptors registered with epoll_fd
    queue,             \* the jobs waiting, oldest first
    apc, afd, aslot, clientaddr,   \* accept thread
    mfd,               \* the descriptor the main thread is about to close
    wpc, job, idx,     \* workers: control, parameter, the slot at hand
    ip, prt,           \* workers: the address read so far
    pos, cnt, filled,  \* workers: iIndex, cnt and the nodes written by get_all_users
    crashed,           \* get_connect_prv_by_index's NULL was dereferenced
    met,               \* history: a client was added to the table while a worker scanned it
    online             \* history: the slot the last search found was occupied

table   == <<connect_fd, client_ip_addr, client_port, UsrhashId>>
conns == <<peer, epolled>>
accepting == <<apc, afd, aslot, clientaddr>>
reading == <<ip, prt>>
listing == <<pos, cnt, filled>>
vars == <<connect_fd, client_ip_addr, client_port, UsrhashId, peer, epolled, queue,
          apc, afd, aslot, clientaddr, mfd, wpc, job, idx, ip, prt, pos, cnt, filled, crashed, met, online>>

Slots == 1..MaxEvents
Commands == [cmd : {"HANDSHAKE", "HEARTBEAT", "GETALLUSER"}, user : {NoUser}]
              \cup [cmd : {"SENDUI", "GETREMOTE"}, user : Users]

\* thpool_job_funcion_parameter.  from is history: the client that sent the request, until
\* the server begins to close the connection it came in on.
Job == [fd : Fds, from : Clients \cup {NoClient}, request : Commands]
NoJob == [fd |-> NoFd]

WorkerPC == {"idle", "lookup", "login", "search", "ip", "port", "count", "fill", "send"}

Init ==
    /\ connect_fd = [i \in Slots |-> NoFd]
    /\ client_ip_addr = [i \in Slots |-> NoClient]
    /\ client_port = [i \in Slots |-> NoClient]
    /\ UsrhashId = [i \in Slots |-> NoUser]
    /\ peer = [f \in Fds |-> NoClient] /\ epolled = {}
    /\ queue = <<>>
    /\ apc = "accept" /\ afd = NoFd /\ aslot = -1 /\ clientaddr = NoClient
    /\ mfd = NoFd
    /\ wpc = [w \in Workers |-> "idle"] /\ job = [w \in Workers |-> NoJob]
    /\ idx = [w \in Workers |-> -1]
    /\ ip = [w \in Workers |-> NoClient] /\ prt = [w \in Workers |-> NoClient]
    /\ pos = [w \in Workers |-> 0] /\ cnt = [w \in Workers |-> 0]
    /\ filled = [w \in Workers |-> 0]
    /\ crashed = FALSE
    /\ met = [w \in Workers |-> FALSE] /\ online = [w \in Workers |-> TRUE]

-----------------------------------------------------------------------------
(* The searches of epoll_connect.c: the first slot that fits, or -1. *)

FirstOf(S) == IF S = {} THEN -1 ELSE CHOOSE i \in S : \A j \in S : i <= j

\* Faulty variant: the search compares with the wrong value and takes the first slot.
FirstSlotAlways == 1

get_epoll_connect_free_event_index == FirstOf({i \in Slots : connect_fd[i] = NoFd})

\* Faulty variant: any slot in use matches.
FirstInUse(f) == FirstOf({i \in Slots : connect_fd[i] # NoFd})

get_matched_event_index_by_fd(f) == FirstOf({i \in Slots : connect_fd[i] = f})

\* Slots are compared by the user name alone, whether or not they are in use.
get_matched_event_index_by_UsrHashId(u) == FirstOf({i \in Slots : UsrhashId[i] = u})

-----------------------------------------------------------------------------
(* The accept thread: a client gets a descriptor, a slot and a registration. *)

Accept(c, f) ==
    /\ apc = "accept"
    /\ peer[f] = NoClient /\ \A g \in Fds : peer[g] # c
    /\ get_epoll_connect_free_event_index # -1
    /\ peer' = [peer EXCEPT ![f] = c]
    /\ afd' = f /\ aslot' = get_epoll_connect_free_event_index /\ clientaddr' = c
    /\ apc' = "ip"
    /\ UNCHANGED <<table, epolled, queue, mfd, wpc, job, idx, reading, listing, crashed, met, online>>

\* init_epoll_connect_by_index holds the slot's mutex, which no reader takes: the address,
\* the port and the descriptor appear one after the other.  UsrhashId is left as it was.
InitIp ==
    /\ apc = "ip"
    /\ client_ip_addr' = [client_ip_addr EXCEPT ![aslot] = clientaddr]
    /\ apc' = "port"
    /\ UNCHANGED <<connect_fd, client_port, UsrhashId, conns, queue, afd, aslot, clientaddr, mfd,
                   wpc, job, idx, reading, listing, crashed, met, online>>

\* Faulty variant: the port of the slot's last client stays.
InitPortKept ==
    /\ apc = "port"
    /\ apc' = "fd"
    /\ UNCHANGED <<table, conns, queue, afd, aslot, clientaddr, mfd, wpc, job, idx, reading,
                   listing, crashed, met, online>>

InitPort ==
    /\ apc = "port"
    /\ client_port' = [client_port EXCEPT ![aslot] = clientaddr]
    /\ apc' = "fd"
    /\ UNCHANGED <<connect_fd, client_ip_addr, UsrhashId, conns, queue, afd, aslot, clientaddr,
                   mfd, wpc, job, idx, reading, listing, crashed, met, online>>

InitFd ==
    /\ apc = "fd"
    /\ connect_fd' = [connect_fd EXCEPT ![aslot] = afd]
    /\ met' = [w \in Workers |-> met[w] \/ wpc[w] \in {"count", "fill"}]
    /\ apc' = "register"
    /\ UNCHANGED <<client_ip_addr, client_port, UsrhashId, conns, queue, afd, aslot, clientaddr,
                   mfd, wpc, job, idx, reading, listing, crashed, online>>

AcceptNext == apc' = "accept" /\ afd' = NoFd /\ aslot' = -1 /\ clientaddr' = NoClient

\* EPOLL_CTL_ADD, of a descriptor that is still open ...
Register ==
    /\ apc = "register" /\ peer[afd] # NoClient
    /\ epolled' = epolled \cup {afd}
    /\ AcceptNext
    /\ UNCHANGED <<table, peer, queue, mfd, wpc, job, idx, reading, listing, crashed, met, online>>

\* ... or an error, which is certain if it is not: it is closed (again), and the slot is kept.
RegisterFails ==
    /\ apc = "register"
    /\ peer' = [peer EXCEPT ![afd] = NoClient]
    /\ AcceptNext
    /\ UNCHANGED <<table, epolled, queue, mfd, wpc, job, idx, reading, listing, crashed, met,
                   online>>

-----------------------------------------------------------------------------
(* The main thread: it reads the requests and closes the connections. *)

InTable(f) == \E i \in Slots : connect_fd[i] = f

\* An event that brings a request.
Receive(f, m) ==
    /\ mfd = NoFd /\ f \in epolled /\ InTable(f)
    /\ Len(queue) < MaxQueue
    /\ queue' = Append(queue, [fd |-> f, from |-> peer[f], request |-> m])
    /\ UNCHANGED <<table, conns, accepting, mfd, wpc, job, idx, reading, listing, crashed, met,
                   online>>

MarkClosed(j, f) == IF j.fd = f THEN [j EXCEPT !.from = NoClient] ELSE j

\* free_event_by_index clears connect_fd, if there is a slot i, and nothing else ...
FreeSlot(i, f) ==
    /\ mfd = NoFd
    /\ connect_fd' = [k \in Slots |-> IF k = i THEN NoFd ELSE connect_fd[k]]
    /\ mfd' = f
    /\ queue' = [k \in 1..Len(queue) |-> MarkClosed(queue[k], f)]
    /\ job' = [w \in Workers |-> MarkClosed(job[w], f)]
    /\ UNCHANGED <<client_ip_addr, client_port, UsrhashId, conns, accepting, wpc, idx, reading,
                   listing, crashed, met, online>>

\* ... on an event, for the slot found by the descriptor, or -1, ...
FreeByEvent(f) == f \in epolled /\ FreeSlot(get_matched_event_index_by_fd(f), f)

\* ... and in the timeout scan for a slot that is too old, whoever has its number by now.
FreeByTimeout(i) == connect_fd[i] # NoFd /\ FreeSlot(i, connect_fd[i])

\* Then the descriptor is closed, which epoll forgets.
CloseFd ==
    /\ mfd # NoFd
    /\ peer' = [peer EXCEPT ![mfd] = NoClient] /\ epolled' = epolled \ {mfd}
    /\ mfd' = NoFd
    /\ UNCHANGED <<table, queue, accepting, wpc, job, idx, reading, listing, crashed, met, online>>

-----------------------------------------------------------------------------
(* A worker: respons_stb_info. *)

Take(w) ==
    /\ wpc[w] = "idle" /\ queue # <<>>
    /\ job' = [job EXCEPT ![w] = Head(queue)]
    /\ queue' = Tail(queue)
    /\ wpc' = [wpc EXCEPT ![w] = "lookup"]
    /\ UNCHANGED <<table, conns, accepting, mfd, idx, reading, listing, crashed, met, online>>

\* The job is over; what the worker remembers of it no longer matters.
Done(w) ==
    /\ wpc' = [wpc EXCEPT ![w] = "idle"]
    /\ job' = [job EXCEPT ![w] = NoJob]
    /\ idx' = [idx EXCEPT ![w] = -1]
    /\ ip' = [ip EXCEPT ![w] = NoClient] /\ prt' = [prt EXCEPT ![w] = NoClient]
    /\ pos' = [pos EXCEPT ![w] = 0] /\ cnt' = [cnt EXCEPT ![w] = 0]
    /\ filled' = [filled EXCEPT ![w] = 0]
    /\ met' = [met EXCEPT ![w] = FALSE] /\ online' = [online EXCEPT ![w] = TRUE]

\* matched_event_index, then the switch on iMessageType.
FirstStep(c) == CASE c = "HANDSHAKE" -> "port"
                  [] c = "SENDUI" -> "login"
                  [] c = "GETREMOTE" -> "search"
                  [] c = "GETALLUSER" -> "count"

Lookup(w) ==
    /\ wpc[w] = "lookup" /\ job[w].request.cmd # "HEARTBEAT"
    /\ idx' = [idx EXCEPT ![w] = get_matched_event_index_by_fd(job[w].fd)]
    /\ wpc' = [wpc EXCEPT ![w] = FirstStep(job[w].request.cmd)]
    /\ pos' = [pos EXCEPT ![w] = IF job[w].request.cmd = "GETALLUSER" THEN 1 ELSE 0]
    /\ UNCHANGED <<table, conns, queue, accepting, mfd, job, reading, cnt, filled, crashed, met,
                   online>>

\* The default branch.
Ignore(w) ==
    /\ wpc[w] = "lookup" /\ job[w].request.cmd = "HEARTBEAT"
    /\ Done(w)
    /\ UNCHANGED <<table, conns, queue, accepting, mfd, crashed>>

\* CMD_SENDUI: the user name goes into the slot found before, if there was one.
Login(w) ==
    /\ wpc[w] = "login" /\ idx[w] # -1
    /\ UsrhashId' = [UsrhashId EXCEPT ![idx[w]] = job[w].request.user]
    /\ Done(w)
    /\ UNCHANGED <<connect_fd, client_ip_addr, client_port, conns, queue, accepting, mfd, crashed>>

LoginCrash(w) ==
    /\ wpc[w] = "login" /\ idx[w] = -1
    /\ crashed' = TRUE
    /\ UNCHANGED <<table, conns, queue, accepting, mfd, wpc, job, idx, reading, listing, met,
                   online>>

\* CMD_GETREMOTE: ev_idx; without one the answer is "Not Found".
Search(w) ==
    LET ev_idx == get_matched_event_index_by_UsrHashId(job[w].request.user)
    IN  /\ wpc[w] = "search"
        /\ idx' = [idx EXCEPT ![w] = ev_idx]
        /\ online' = [online EXCEPT ![w] = ev_idx = -1 \/ connect_fd[ev_idx] # NoFd]
        /\ wpc' = [wpc EXCEPT ![w] = IF ev_idx = -1 THEN "send" ELSE "ip"]
        /\ UNCHANGED <<table, conns, queue, accepting, mfd, job, reading, listing, crashed, met>>

\* The address of slot idx; CMD_HANDSHAKE reads the port first, CMD_GETREMOTE the address.
\* Without a slot the getters return constants that are no client's.
ReadIp(w) ==
    /\ wpc[w] = "ip"
    /\ ip' = [ip EXCEPT ![w] = IF idx[w] = -1 THEN NoClient ELSE client_ip_addr[idx[w]]]
    /\ wpc' = [wpc EXCEPT ![w] = IF job[w].request.cmd = "HANDSHAKE" THEN "send" ELSE "port"]
    /\ UNCHANGED <<table, conns, queue, accepting, mfd, job, idx, prt, listing, crashed, met,
                   online>>

ReadPort(w) ==
    /\ wpc[w] = "port"
    /\ prt' = [prt EXCEPT ![w] = IF idx[w] = -1 THEN NoClient ELSE client_port[idx[w]]]
    /\ wpc' = [wpc EXCEPT ![w] = IF job[w].request.cmd = "HANDSHAKE" THEN "ip" ELSE "send"]
    /\ UNCHANGED <<table, conns, queue, accepting, mfd, job, idx, ip, listing, crashed, met,
                   online>>

InUse(i) == IF connect_fd[i] # NoFd THEN 1 ELSE 0

\* Faulty variant: the counting loop misses the last slot.
CountSlotShort(w) ==
    /\ wpc[w] = "count"
    /\ cnt' = [cnt EXCEPT ![w] = @ + IF pos[w] = MaxEvents THEN 0 ELSE InUse(pos[w])]
    /\ IF pos[w] = MaxEvents
         THEN pos' = [pos EXCEPT ![w] = 1] /\ wpc' = [wpc EXCEPT ![w] = "fill"]
         ELSE pos' = [pos EXCEPT ![w] = @ + 1] /\ UNCHANGED wpc
    /\ UNCHANGED <<table, conns, queue, accepting, mfd, job, idx, reading, filled, crashed, met,
                   online>>

\* CMD_GETALLUSER: get_all_users(NULL, &cnt) sizes the answer, one slot after the other ...
CountSlot(w) ==
    /\ wpc[w] = "count"
    /\ cnt' = [cnt EXCEPT ![w] = @ + InUse(pos[w])]
    /\ IF pos[w] = MaxEvents
         THEN pos' = [pos EXCEPT ![w] = 1] /\ wpc' = [wpc EXCEPT ![w] = "fill"]
         ELSE pos' = [pos EXCEPT ![w] = @ + 1] /\ UNCHANGED wpc
    /\ UNCHANGED <<table, conns, queue, accepting, mfd, job, idx, reading, filled, crashed, met,
                   online>>

\* ... and a second pass fills it, whatever its size.
FillSlot(w) ==
    /\ wpc[w] = "fill"
    /\ filled' = [filled EXCEPT ![w] = @ + InUse(pos[w])]
    /\ IF pos[w] = MaxEvents
         THEN wpc' = [wpc EXCEPT ![w] = "send"] /\ UNCHANGED pos
         ELSE pos' = [pos EXCEPT ![w] = @ + 1] /\ UNCHANGED wpc
    /\ UNCHANGED <<table, conns, queue, accepting, mfd, job, idx, reading, cnt, crashed, met,
                   online>>

\* send_buffer_to_fd: the answer goes to whoever is behind the descriptor now.
Send(w) ==
    /\ wpc[w] = "send"
    /\ Done(w)
    /\ UNCHANGED <<table, conns, queue, accepting, mfd, crashed>>

-----------------------------------------------------------------------------

AcceptThread == \/ \E c \in Clients, f \in Fds : Accept(c, f)
                \/ InitIp \/ InitPort \/ InitFd
                \/ Register \/ RegisterFails

MainThread == \/ \E f \in Fds : FreeByEvent(f) \/ \E m \in Commands : Receive(f, m)
              \/ \E i \in Slots : FreeByTimeout(i)
              \/ CloseFd

Worker(w) == \/ Take(w) \/ Lookup(w) \/ Ignore(w)
             \/ Login(w) \/ LoginCrash(w)
             \/ Search(w) \/ ReadIp(w) \/ ReadPort(w)
             \/ CountSlot(w) \/ FillSlot(w)
             \/ Send(w)

Next == /\ ~crashed
        /\ AcceptThread \/ MainThread \/ \E w \in Workers : Worker(w)

Spec == Init /\ [][Next]_vars

-----------------------------------------------------------------------------
(* Properties. *)

TypeOK ==
    /\ connect_fd \in [Slots -> Fds \cup {NoFd}]
    /\ client_ip_addr \in [Slots -> Clients \cup {NoClient}]
    /\ client_port \in [Slots -> Clients \cup {NoClient}]
    /\ UsrhashId \in [Slots -> Users \cup {NoUser}]
    /\ peer \in [Fds -> Clients \cup {NoClient}] /\ epolled \subseteq Fds
    /\ queue \in Seq(Job)
    /\ apc \in {"accept", "ip", "port", "fd", "register"} /\ afd \in Fds \cup {NoFd}
    /\ aslot \in Slots \cup {-1} /\ clientaddr \in Clients \cup {NoClient}
    /\ mfd \in Fds \cup {NoFd}
    /\ wpc \in [Workers -> WorkerPC] /\ job \in [Workers -> Job \cup {NoJob}]
    /\ idx \in [Workers -> Slots \cup {-1}]
    /\ ip \in [Workers -> Clients \cup {NoClient}] /\ prt \in [Workers -> Clients \cup {NoClient}]
    /\ pos \in [Workers -> 0..MaxEvents] /\ cnt \in [Workers -> 0..MaxEvents]
    /\ filled \in [Workers -> 0..MaxEvents]
    /\ crashed \in BOOLEAN /\ met \in [Workers -> BOOLEAN] /\ online \in [Workers -> BOOLEAN]

\* The connection a worker's request came in on has not been touched by the main thread.
Served(w) == wpc[w] # "idle" /\ job[w].from # NoClient

\* A login crashes the server (the NULL of get_connect_prv_by_index(-1), line 412) only if
\* the client's connection was closed while the login was waiting.
CrashOnlyAfterClose ==
    \A w \in Workers : wpc[w] = "login" /\ idx[w] = -1 => ~Served(w)

\* One slot at most has the number of descriptor f.  A second one keeps it from a connection
\* whose registration failed (g_net_update.c:234), or that was closed for another's slot.
Alone(f) == \A i, j \in Slots : connect_fd[i] = f /\ connect_fd[j] = f => i = j

\* As long as a request's connection is not closed, its descriptor is the sender's own, so
\* that an answer reaches the client that asked, whatever other clients come and go; and a
\* login names the slot that has the sender's address, unless another slot has kept the number.
ServesItsSender ==
    \A w \in Workers : Served(w) =>
      /\ peer[job[w].fd] = job[w].from
      /\ wpc[w] = "login" /\ Alone(job[w].fd) =>
           /\ connect_fd[idx[w]] = job[w].fd
           /\ client_ip_addr[idx[w]] = job[w].from /\ client_port[idx[w]] = job[w].from

\* The handshake tells a client its own address and port (lines 398-400), although they are
\* read one by one without the slot's mutex, unless its connection is being closed or another
\* slot has kept the number of its descriptor.
HandshakeTellsOwnAddress ==
    \A w \in Workers :
      /\ Served(w) /\ wpc[w] = "send" /\ job[w].request.cmd = "HANDSHAKE" /\ Alone(job[w].fd)
      => ip[w] = job[w].from /\ prt[w] = job[w].from

\* The answer of CMD_GETALLUSER overruns its buffer (lines 463-473) only if a client was
\* added to the table between the two passes or during one; clients that leave are safe.
AllUsersFit ==
    \A w \in Workers : filled[w] > cnt[w] => met[w]

\* g_net_update.c:434 says of a failed search that it is "caused by the client being
\* offline": the client of a successful one is online.
FoundIsOnline == \A w \in Workers : online[w]
=============================================================================
