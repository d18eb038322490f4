--------------------------- MODULE RequestsProofs ---------------------------
(***************************************************************************)
(* Proofs about Requests, for any set of workers, a table of any size, any *)
(* sets of descriptors, clients and users and a queue of any length.       *)
(***************************************************************************)
EXTENDS Requests, FiniteSetTheorems, WellFoundedInduction, TLAPS

(***************************************************************************)
(* The inductive invariant.                                                *)
(***************************************************************************)

\* What a worker has in hand at each place of respons_stb_info: a job of the kind its
\* branch is for, and in the passes of get_all_users a slot and no more clients than slots.
HandInv(w) ==
    /\ wpc[w] = "idle" => job[w] = NoJob
    /\ wpc[w] # "idle" => job[w] \in Job
    /\ wpc[w] = "login" => job[w].request.cmd = "SENDUI"
    /\ wpc[w] = "search" => job[w].request.cmd = "GETREMOTE"
    /\ wpc[w] \in {"ip", "port"} => job[w].request.cmd \in {"HANDSHAKE", "GETREMOTE"}
    /\ wpc[w] \in {"count", "fill"} => job[w].request.cmd = "GETALLUSER" /\ pos[w] \in Slots
    /\ wpc[w] = "count" => cnt[w] < pos[w]
    /\ wpc[w] = "fill" => filled[w] < pos[w]
    /\ wpc[w] \notin {"count", "fill", "send"} => cnt[w] = 0
    /\ wpc[w] \notin {"fill", "send"} => filled[w] = 0

TypeInv ==
    /\ TypeOK
    /\ apc # "accept" => afd \in Fds /\ aslot \in Slots /\ clientaddr \in Clients
    /\ \A w \in Workers : HandInv(w)

\* Slot i belongs to the client behind descriptor f.
Own(i, f) == connect_fd[i] = f /\ client_ip_addr[i] = peer[f] /\ client_port[i] = peer[f]

\* A descriptor in epoll is connected, and has a slot with its client's address unless it is
\* being closed.  Other slots may have its number too; no descriptor in epoll is without one.
EpollInv ==
    \A f \in epolled : /\ peer[f] # NoClient
                       /\ f # mfd => \E i \in Slots : Own(i, f)

\* The descriptor being accepted is not in epoll and is its client's, or closed already by a
\* scan that met its number; the slot being set up is free and has what was written so far.
HandoverInv ==
    /\ apc # "accept" => afd \notin epolled /\ peer[afd] \in {clientaddr, NoClient}
    /\ apc \in {"ip", "port", "fd"} => connect_fd[aslot] = NoFd
    /\ apc \in {"port", "fd"} => client_ip_addr[aslot] = clientaddr
    /\ apc = "fd" => client_port[aslot] = clientaddr
    /\ apc = "register" /\ peer[afd] # NoClient /\ mfd # afd => Own(aslot, afd)

\* A job whose connection is still there names that connection.
Linked(j) ==
    j.from # NoClient => j.fd \in epolled /\ j.fd # mfd /\ peer[j.fd] = j.from

JobsInv ==
    /\ \A k \in 1..Len(queue) : Linked(queue[k])
    /\ \A w \in Workers : wpc[w] # "idle" => Linked(job[w])

\* A worker that serves a connection has a slot with its descriptor, and what a handshake has
\* read so far is the sender's if there is no other such slot.
ServingInv(w) ==
    Served(w) =>
      /\ \/ wpc[w] = "login"
         \/ job[w].request.cmd = "HANDSHAKE" /\ wpc[w] \in {"ip", "port", "send"}
         => idx[w] \in Slots /\ connect_fd[idx[w]] = job[w].fd
      /\ job[w].request.cmd = "HANDSHAKE" /\ Alone(job[w].fd) =>
           /\ wpc[w] \in {"ip", "send"} => prt[w] = job[w].from
           /\ wpc[w] = "send" => ip[w] = job[w].from

Below(n) == {i \in Slots : connect_fd[i] # NoFd /\ i < n}
From(n)  == {i \in Slots : connect_fd[i] # NoFd /\ i >= n}

\* While nobody joins, the first pass of get_all_users counts at least the clients that are
\* left of the slots it has passed, and the second pass has room for those it has yet to meet.
CountInv(w) ==
    ~met[w] => /\ wpc[w] = "count" => Cardinality(Below(pos[w])) <= cnt[w]
               /\ wpc[w] = "fill" => filled[w] + Cardinality(From(pos[w])) <= cnt[w]
               /\ wpc[w] = "send" => filled[w] <= cnt[w]

ConnInv == EpollInv /\ HandoverInv /\ JobsInv

(***************************************************************************)
(* The searches, the jobs and what the main thread does to them.           *)
(***************************************************************************)

\* A search that has something to find finds it, and none returns anything but a slot or -1
\* (epoll_connect.c:61-102).
LEMMA FirstOfFinds ==
  ASSUME NEW S, S \subseteq Slots
  PROVE  /\ FirstOf(S) \in Slots \cup {-1}
         /\ S # {} => FirstOf(S) \in S
<1>1. CASE S = {}
  BY <1>1 DEF FirstOf
<1>2. CASE S # {}
  <2>1. S \subseteq Nat
    BY MaxEventsAssumption DEF Slots
  <2>2. PICK i \in S : \A j \in S : ~(<<j, i>> \in OpToRel(<, Nat))
    BY <1>2, <2>1, NatLessThanWellFounded, WFMin
  <2>3. ASSUME NEW j \in S PROVE i <= j
    <3>1. <<j, i>> \in Nat \X Nat /\ <<j, i>>[1] = j /\ <<j, i>>[2] = i
      BY <2>1
    <3>2. ~(j < i)
      BY <2>2, <3>1 DEF OpToRel
    <3> QED BY <2>1, <3>2
  <2>4. FirstOf(S) \in S
    BY <1>2, <2>3 DEF FirstOf
  <2> QED BY <2>4
<1> QED BY <1>1, <1>2

\* The slot of a descriptor, of a free place and of a user.
LEMMA SearchesFind ==
  /\ get_epoll_connect_free_event_index \in Slots \cup {-1}
  /\ get_epoll_connect_free_event_index # -1 => connect_fd[get_epoll_connect_free_event_index] = NoFd
  /\ \A f : /\ get_matched_event_index_by_fd(f) \in Slots \cup {-1}
            /\ InTable(f) => get_matched_event_index_by_fd(f) \in Slots
            /\ get_matched_event_index_by_fd(f) \in Slots
                 => connect_fd[get_matched_event_index_by_fd(f)] = f
  /\ \A u : get_matched_event_index_by_UsrHashId(u) \in Slots \cup {-1}
<1>0. -1 \notin Slots
  BY DEF Slots
<1>1. /\ get_epoll_connect_free_event_index \in Slots \cup {-1}
      /\ get_epoll_connect_free_event_index # -1 => connect_fd[get_epoll_connect_free_event_index] = NoFd
  <2> DEFINE S == {i \in Slots : connect_fd[i] = NoFd}
  <2>1. FirstOf(S) \in Slots \cup {-1} /\ (S # {} => FirstOf(S) \in S)
    BY FirstOfFinds
  <2>2. S = {} => FirstOf(S) = -1
    BY DEF FirstOf
  <2> QED BY <2>1, <2>2 DEF get_epoll_connect_free_event_index
<1>2. ASSUME NEW f
      PROVE  /\ get_matched_event_index_by_fd(f) \in Slots \cup {-1}
             /\ InTable(f) => get_matched_event_index_by_fd(f) \in Slots
             /\ get_matched_event_index_by_fd(f) \in Slots
                  => connect_fd[get_matched_event_index_by_fd(f)] = f
  <2> DEFINE S == {i \in Slots : connect_fd[i] = f}
  <2>1. FirstOf(S) \in Slots \cup {-1} /\ (S # {} => FirstOf(S) \in S)
    BY FirstOfFinds
  <2>2. S = {} => FirstOf(S) = -1
    BY DEF FirstOf
  <2> QED BY <1>0, <2>1, <2>2 DEF get_matched_event_index_by_fd, InTable
<1>3. ASSUME NEW u
      PROVE  get_matched_event_index_by_UsrHashId(u) \in Slots \cup {-1}
  BY FirstOfFinds DEF get_matched_event_index_by_UsrHashId
<1> QED BY <1>1, <1>2, <1>3

\* A request is one of five kinds; a login and a search name a user.
LEMMA CommandKinds ==
  ASSUME NEW c \in Commands
  PROVE  /\ c.cmd \in {"HANDSHAKE", "HEARTBEAT", "GETALLUSER", "SENDUI", "GETREMOTE"}
         /\ c.cmd \in {"SENDUI", "GETREMOTE"} => c.user \in Users
BY DEF Commands

\* Closing a connection leaves the job as it was but for its sender.
LEMMA MarkClosedKeeps ==
  ASSUME NEW f \in Fds
  PROVE  /\ MarkClosed(NoJob, f) = NoJob
         /\ \A j \in Job : /\ MarkClosed(j, f) \in Job
                           /\ MarkClosed(j, f).fd = j.fd /\ MarkClosed(j, f).request = j.request
                           /\ MarkClosed(j, f).from = IF j.fd = f THEN NoClient ELSE j.from
BY NamesAssumption DEF MarkClosed, Job, NoJob

(***************************************************************************)
(* Type correctness.                                                       *)
(***************************************************************************)

\* A step of the accept thread keeps the types (accept_thread, init_epoll_connect_by_index).
LEMMA AcceptThreadType ==
  ASSUME TypeInv, AcceptThread
  PROVE  TypeInv'
<1> USE DEF TypeInv, TypeOK, HandInv, table, conns, accepting, reading, listing
<1>1. ASSUME NEW c \in Clients, NEW f \in Fds, Accept(c, f)
      PROVE  TypeInv'
  BY <1>1, SearchesFind DEF Accept
<1>2. CASE InitIp
  BY <1>2 DEF InitIp
<1>3. CASE InitPort
  BY <1>3 DEF InitPort
<1>4. CASE InitFd
  BY <1>4 DEF InitFd
<1>5. CASE Register \/ RegisterFails
  BY <1>5 DEF Register, RegisterFails, AcceptNext
<1> QED BY <1>1, <1>2, <1>3, <1>4, <1>5 DEF AcceptThread

\* A step of the main thread keeps the types (handle_event, free_event_by_index).
LEMMA MainThreadType ==
  ASSUME TypeInv, MainThread
  PROVE  TypeInv'
<1> USE DEF TypeInv, TypeOK, HandInv, table, conns, accepting, reading, listing
<1>1. ASSUME NEW f \in Fds, NEW m \in Commands, Receive(f, m)
      PROVE  TypeInv'
  <2>1. [fd |-> f, from |-> peer[f], request |-> m] \in Job
    BY DEF Job
  <2> QED BY <1>1, <2>1 DEF Receive
<1>2. ASSUME NEW i, NEW f \in Fds, FreeSlot(i, f)
      PROVE  TypeInv'
  <2>1. queue' \in Seq(Job)
    <3>1. queue' = [k \in 1..Len(queue) |-> MarkClosed(queue[k], f)]
      BY <1>2 DEF FreeSlot
    <3>2. \A k \in 1..Len(queue) : MarkClosed(queue[k], f) \in Job
      BY MarkClosedKeeps
    <3> QED BY <3>1, <3>2
  <2>2. connect_fd' \in [Slots -> Fds \cup {NoFd}] /\ mfd' \in Fds
    BY <1>2 DEF FreeSlot
  <2>3. /\ job' \in [Workers -> Job \cup {NoJob}]
        /\ \A w \in Workers : /\ job[w] = NoJob => job'[w] = NoJob
                              /\ job[w] \in Job => job'[w] \in Job /\ job'[w].request = job[w].request
    BY <1>2, MarkClosedKeeps DEF FreeSlot
  <2> QED BY <1>2, <2>1, <2>2, <2>3 DEF FreeSlot
<1>3. CASE CloseFd
  BY <1>3 DEF CloseFd
<1>4. \A i \in Slots : FreeByTimeout(i) => connect_fd[i] \in Fds
  BY DEF FreeByTimeout
<1> QED BY <1>1, <1>2, <1>3, <1>4 DEF MainThread, FreeByEvent, FreeByTimeout

\* A step of a worker keeps the types (respons_stb_info).
LEMMA WorkerType ==
  ASSUME TypeInv, NEW w \in Workers, Worker(w)
  PROVE  TypeInv'
<1> USE DEF TypeInv, TypeOK, WorkerPC, table, conns, accepting, reading, listing
<1>0. /\ MaxEvents \in Nat /\ MaxEvents > 0 /\ 1 \in Slots
      /\ \A n : n \in Slots <=> n \in 1..MaxEvents
      /\ \A n \in Slots : InUse(n) \in {0, 1}
  BY MaxEventsAssumption DEF Slots, InUse
<1>1. CASE Take(w)
  <2>1. Head(queue) \in Job /\ Tail(queue) \in Seq(Job)
    BY <1>1 DEF Take
  <2> QED BY <1>1, <2>1 DEF Take, HandInv
<1>2. CASE Done(w) /\ UNCHANGED <<connect_fd, client_ip_addr, client_port, conns, queue,
                                  accepting, mfd, crashed>>
           /\ UsrhashId' \in [Slots -> Users \cup {NoUser}]
  <2>1. TypeOK' /\ (apc # "accept" => afd \in Fds /\ aslot \in Slots /\ clientaddr \in Clients)'
    BY <1>0, <1>2 DEF Done
  <2>2. \A v \in Workers : HandInv(v)'
    BY <1>2 DEF Done, HandInv
  <2> QED BY <2>1, <2>2
<1>3. CASE Ignore(w) \/ Send(w)
  BY <1>2, <1>3 DEF Ignore, Send
<1>4. CASE Login(w)
  <2>1. job[w].request.user \in Users
    BY <1>4, CommandKinds DEF Login, HandInv, Job
  <2> QED BY <1>2, <1>4, <2>1 DEF Login
<1>5. CASE LoginCrash(w)
  BY <1>5 DEF LoginCrash, HandInv
<1>6. CASE Lookup(w)
  <2>1. /\ job[w] \in Job /\ job[w].request \in Commands /\ cnt[w] = 0 /\ filled[w] = 0
        /\ job[w].request.cmd \in {"HANDSHAKE", "GETALLUSER", "SENDUI", "GETREMOTE"}
    BY <1>6, CommandKinds DEF Lookup, HandInv, Job
  <2>2. TypeOK' /\ (apc # "accept" => afd \in Fds /\ aslot \in Slots /\ clientaddr \in Clients)'
    BY <1>0, <1>6, <2>1, SearchesFind DEF Lookup, FirstStep
  <2>3. \A v \in Workers : HandInv(v)'
    BY <1>0, <1>6, <2>1 DEF Lookup, FirstStep, HandInv
  <2> QED BY <2>2, <2>3
<1>7. CASE Search(w)
  BY <1>7, SearchesFind DEF Search, HandInv
<1>8. CASE ReadIp(w)
  BY <1>8 DEF ReadIp, HandInv
<1>9. CASE ReadPort(w)
  BY <1>9 DEF ReadPort, HandInv
<1>10. CASE CountSlot(w)
  <2>1. /\ pos[w] \in 1..MaxEvents /\ cnt[w] + InUse(pos[w]) \in 0..pos[w] /\ filled[w] = 0
        /\ 0..pos[w] \subseteq 0..MaxEvents
    <3>1. pos[w] \in Slots /\ cnt[w] \in Nat /\ cnt[w] < pos[w] /\ filled[w] = 0
      BY <1>0, <1>10 DEF CountSlot, HandInv
    <3>2. InUse(pos[w]) \in {0, 1} /\ pos[w] \in 1..MaxEvents
      BY <1>0, <3>1
    <3> QED BY <1>0, <3>1, <3>2
  <2>2. cnt' = [cnt EXCEPT ![w] = cnt[w] + InUse(pos[w])] /\ cnt' \in [Workers -> 0..MaxEvents]
    BY <1>10, <2>1 DEF CountSlot
  <2>3. CASE pos[w] = MaxEvents
    <3>1. /\ pos' = [pos EXCEPT ![w] = 1] /\ pos' \in [Workers -> 0..MaxEvents]
          /\ wpc' = [wpc EXCEPT ![w] = "fill"]
      <4>1. 1 \in 0..MaxEvents
        BY <1>0
      <4> QED BY <1>10, <2>3, <4>1 DEF CountSlot
    <3> QED BY <1>0, <1>10, <2>1, <2>2, <3>1 DEF CountSlot, HandInv
  <2>4. CASE pos[w] # MaxEvents
    <3>1. /\ pos' = [pos EXCEPT ![w] = pos[w] + 1] /\ pos' \in [Workers -> 0..MaxEvents]
          /\ wpc' = wpc /\ pos[w] + 1 \in 1..MaxEvents
      <4>1. pos[w] + 1 \in 1..MaxEvents /\ pos[w] + 1 \in 0..MaxEvents
        BY <1>0, <2>1, <2>4
      <4> QED BY <1>10, <2>4, <4>1 DEF CountSlot
    <3> QED BY <1>0, <1>10, <2>1, <2>2, <3>1 DEF CountSlot, HandInv
  <2> QED BY <2>3, <2>4
<1>11. CASE FillSlot(w)
  <2>1. /\ pos[w] \in 1..MaxEvents /\ filled[w] + InUse(pos[w]) \in 0..pos[w]
        /\ 0..pos[w] \subseteq 0..MaxEvents
    <3>1. pos[w] \in Slots /\ filled[w] \in Nat /\ filled[w] < pos[w]
      BY <1>0, <1>11 DEF FillSlot, HandInv
    <3>2. InUse(pos[w]) \in {0, 1} /\ pos[w] \in 1..MaxEvents
      BY <1>0, <3>1
    <3> QED BY <1>0, <3>1, <3>2
  <2>2. filled' = [filled EXCEPT ![w] = filled[w] + InUse(pos[w])] /\ filled' \in [Workers -> 0..MaxEvents]
    BY <1>11, <2>1 DEF FillSlot
  <2>3. CASE pos[w] = MaxEvents
    <3>1. wpc' = [wpc EXCEPT ![w] = "send"] /\ pos' = pos
      BY <1>11, <2>3 DEF FillSlot
    <3> QED BY <1>0, <1>11, <2>2, <3>1 DEF FillSlot, HandInv
  <2>4. CASE pos[w] # MaxEvents
    <3>1. /\ pos' = [pos EXCEPT ![w] = pos[w] + 1] /\ pos' \in [Workers -> 0..MaxEvents]
          /\ wpc' = wpc /\ pos[w] + 1 \in 1..MaxEvents
      <4>1. pos[w] + 1 \in 1..MaxEvents /\ pos[w] + 1 \in 0..MaxEvents
        BY <1>0, <2>1, <2>4
      <4> QED BY <1>11, <2>4, <4>1 DEF FillSlot
    <3> QED BY <1>0, <1>11, <2>1, <2>2, <3>1 DEF FillSlot, HandInv
  <2> QED BY <2>3, <2>4
<1> QED BY <1>1, <1>3, <1>4, <1>5, <1>6, <1>7, <1>8, <1>9, <1>10, <1>11 DEF Worker

\* The types of the requests and of what the workers do with them.
LEMMA TypeInvariant == Spec => []TypeInv
<1>1. Init => TypeInv
  <2> SUFFICES ASSUME Init PROVE TypeInv
    OBVIOUS
  <2>1. 0 \in 0..MaxEvents /\ queue = <<>> /\ queue \in Seq(Job)
    BY MaxEventsAssumption DEF Init
  <2>2. \A w \in Workers : HandInv(w)
    BY DEF Init, HandInv
  <2>3. TypeOK
    BY <2>1 DEF Init, TypeOK, WorkerPC
  <2> QED BY <2>2, <2>3 DEF Init, TypeInv
<1>2. TypeInv /\ [Next]_vars => TypeInv'
  <2> SUFFICES ASSUME TypeInv, [Next]_vars PROVE TypeInv'
    OBVIOUS
  <2>1. CASE Next
    BY <2>1, AcceptThreadType, MainThreadType, WorkerType DEF Next
  <2>2. CASE UNCHANGED vars
    BY <2>2 DEF vars, TypeInv, TypeOK, HandInv
  <2> QED BY <2>1, <2>2
<1> QED BY <1>1, <1>2, PTL DEF Spec

\* Every variable keeps its type: above all the counters of get_all_users stay within the
\* table and a login always carries a user.
THEOREM TypeCorrect == Spec => []TypeOK
<1>1. TypeInv => TypeOK
  BY DEF TypeInv
<1> QED BY <1>1, TypeInvariant, PTL

(***************************************************************************)
(* Connections, slots and jobs.                                            *)
(***************************************************************************)

\* The accept thread never disturbs a connection that is there: the descriptor it is given
\* is nobody's, the slot it writes is free.
LEMMA AcceptThreadConn ==
  ASSUME TypeInv, ConnInv, AcceptThread
  PROVE  ConnInv'
<1> USE NamesAssumption DEF TypeInv, TypeOK, table, conns, accepting, reading, listing
<1>0. SUFFICES /\ EpollInv' /\ HandoverInv' /\ UNCHANGED <<mfd, queue, wpc, job>>
               /\ epolled \subseteq epolled'
               /\ \A g \in epolled : peer'[g] = peer[g]
  <2>1. ASSUME UNCHANGED mfd, epolled \subseteq epolled', \A g \in epolled : peer'[g] = peer[g]
        PROVE  \A j \in Job : Linked(j) => Linked(j)'
    BY <2>1 DEF Linked
  <2> QED BY <2>1 DEF ConnInv, JobsInv, HandInv
<1> USE DEF ConnInv, EpollInv, HandoverInv, Own
<1>1. ASSUME NEW c \in Clients, NEW f \in Fds, Accept(c, f)
      PROVE  /\ EpollInv' /\ HandoverInv' /\ UNCHANGED <<mfd, queue, wpc, job>>
             /\ epolled \subseteq epolled' /\ \A g \in epolled : peer'[g] = peer[g]
  <2>1. /\ UNCHANGED <<connect_fd, client_ip_addr, client_port, epolled, mfd, queue, wpc, job>>
        /\ apc' = "ip" /\ afd' = f /\ clientaddr' = c /\ c # NoClient
        /\ peer' = [peer EXCEPT ![f] = c] /\ peer[f] = NoClient
        /\ connect_fd[aslot'] = NoFd
    BY <1>1, SearchesFind DEF Accept
  <2>2. f \notin epolled /\ \A g \in epolled : g \in Fds /\ g # f /\ peer'[g] = peer[g]
    BY <2>1
  <2>3. EpollInv'
    BY <2>1, <2>2
  <2>4. HandoverInv'
    BY <2>1, <2>2
  <2> QED BY <2>1, <2>2, <2>3, <2>4
<1>2. ASSUME apc \in {"ip", "port"}, apc' \in {"port", "fd"},
             \A i \in Slots : i # aslot => /\ client_ip_addr'[i] = client_ip_addr[i]
                                          /\ client_port'[i] = client_port[i],
             UNCHANGED <<connect_fd, peer, epolled, mfd>>
      PROVE  EpollInv'
  <2>1. connect_fd[aslot] = NoFd
    BY <1>2
  <2>2. \A i \in Slots, f \in Fds : Own(i, f) => Own(i, f)'
    BY <1>2, <2>1
  <2> HIDE DEF Own
  <2> QED BY <1>2, <2>2
<1>3. CASE InitIp \/ InitPort
  <2>1. /\ UNCHANGED <<connect_fd, peer, epolled, mfd, queue, wpc, job, afd, aslot, clientaddr>>
        /\ apc \in {"ip", "port"} /\ apc' \in {"port", "fd"}
        /\ \A i \in Slots : i # aslot => /\ client_ip_addr'[i] = client_ip_addr[i]
                                         /\ client_port'[i] = client_port[i]
    BY <1>3 DEF InitIp, InitPort
  <2>2. EpollInv'
    BY <1>2, <2>1
  <2>3. HandoverInv'
    BY <1>3, <2>1 DEF InitIp, InitPort
  <2> QED BY <2>1, <2>2, <2>3
<1>4. CASE InitFd
  <2>1. /\ connect_fd' = [connect_fd EXCEPT ![aslot] = afd] /\ connect_fd[aslot] = NoFd
        /\ UNCHANGED <<client_ip_addr, client_port, peer, epolled, mfd, queue, wpc, job>>
        /\ UNCHANGED <<afd, aslot, clientaddr>> /\ apc' = "register" /\ apc = "fd"
    BY <1>4 DEF InitFd
  <2>2. \A i \in Slots, f \in Fds : Own(i, f) => i # aslot
    BY <2>1
  <2>3. \A i \in Slots, f \in Fds : Own(i, f) => Own(i, f)'
    BY <2>1, <2>2
  <2>5. EpollInv'
    <3> HIDE DEF Own
    <3> QED BY <2>1, <2>3
  <2>4. HandoverInv'
    BY <2>1
  <2> QED BY <2>1, <2>4, <2>5
<1>5. CASE Register
  BY <1>5 DEF Register, AcceptNext
<1>6. CASE RegisterFails
  <2>1. /\ UNCHANGED <<connect_fd, client_ip_addr, client_port, epolled, mfd, queue, wpc, job>>
        /\ peer' = [peer EXCEPT ![afd] = NoClient] /\ apc' = "accept"
        /\ \A g \in epolled : g \in Fds /\ peer'[g] = peer[g]
    BY <1>6 DEF RegisterFails, AcceptNext
  <2>2. EpollInv'
    BY <2>1
  <2> QED BY <2>1, <2>2
<1> QED BY <1>1, <1>3, <1>4, <1>5, <1>6 DEF AcceptThread

\* The main thread ends a connection for its jobs and the descriptor alike, whichever slot
\* has led to it.
LEMMA MainThreadConn ==
  ASSUME TypeInv, ConnInv, MainThread
  PROVE  ConnInv'
<1> USE NamesAssumption DEF TypeInv, TypeOK, ConnInv, table, conns, accepting, reading, listing
<1>1. ASSUME NEW f \in Fds, NEW m \in Commands, Receive(f, m)
      PROVE  ConnInv'
  <2> DEFINE j == [fd |-> f, from |-> peer[f], request |-> m]
  <2>1. Linked(j) /\ queue' = Append(queue, j)
    BY <1>1 DEF Receive, Linked
  <2>2. \A k \in 1..Len(queue') : queue'[k] = j \/ (k \in 1..Len(queue) /\ queue'[k] = queue[k])
    BY <2>1
  <2>3. /\ UNCHANGED <<connect_fd, client_ip_addr, client_port, peer, epolled, mfd, wpc, job>>
        /\ UNCHANGED <<apc, afd, aslot, clientaddr>>
    BY <1>1 DEF Receive
  <2>4. JobsInv'
    BY <2>1, <2>2, <2>3 DEF JobsInv, Linked
  <2> QED BY <2>3, <2>4 DEF EpollInv, HandoverInv, Own
<1>2. ASSUME NEW s, NEW f \in Fds, FreeSlot(s, f), s \in Slots => connect_fd[s] = f
      PROVE  ConnInv'
  <2>1. /\ \A i \in Slots : connect_fd'[i] = IF i = s THEN NoFd ELSE connect_fd[i]
        /\ mfd = NoFd /\ mfd' = f
        /\ UNCHANGED <<client_ip_addr, client_port, peer, epolled, wpc>>
        /\ UNCHANGED <<apc, afd, aslot, clientaddr>>
    BY <1>2 DEF FreeSlot
  <2>2. \A i \in Slots, g \in Fds : Own(i, g) /\ g # f => Own(i, g)'
    BY <1>2, <2>1 DEF Own
  <2>3. EpollInv'
    BY <2>1, <2>2 DEF EpollInv
  <2>4. HandoverInv'
    BY <2>1, <2>2 DEF HandoverInv
  <2>5. ASSUME NEW j \in Job, Linked(j), NEW m, m = MarkClosed(j, f)
        PROVE  Linked(m)'
    <3>1. m.fd = j.fd /\ m.from = IF j.fd = f THEN NoClient ELSE j.from
      BY <2>5, MarkClosedKeeps
    <3> QED BY <2>1, <2>5, <3>1 DEF Linked, Job
  <2>6. /\ \A k \in 1..Len(queue) : queue'[k] = MarkClosed(queue[k], f) /\ queue[k] \in Job
        /\ Len(queue') = Len(queue)
        /\ \A w \in Workers : job'[w] = MarkClosed(job[w], f)
    BY <1>2 DEF FreeSlot
  <2>7. JobsInv'
    <3>1. \A k \in 1..Len(queue') : Linked(queue[k]) /\ queue'[k] = MarkClosed(queue[k], f) /\ queue[k] \in Job
      BY <2>6 DEF JobsInv
    <3>2. \A w \in Workers : wpc'[w] # "idle" =>
            Linked(job[w]) /\ job'[w] = MarkClosed(job[w], f) /\ job[w] \in Job
      BY <2>1, <2>6 DEF JobsInv, HandInv
    <3>3. \A k \in 1..Len(queue') : Linked(queue[k])'
      BY <2>5, <3>1
    <3>4. \A w \in Workers : wpc'[w] # "idle" => Linked(job[w])'
      BY <2>5, <3>2
    <3> QED BY <3>3, <3>4 DEF JobsInv
  <2> QED BY <2>3, <2>4, <2>7
<1>3. CASE CloseFd
  <2>1. /\ peer' = [peer EXCEPT ![mfd] = NoClient] /\ epolled' = epolled \ {mfd}
        /\ mfd \in Fds /\ mfd' = NoFd
        /\ UNCHANGED <<connect_fd, client_ip_addr, client_port, wpc, job, queue>>
        /\ UNCHANGED <<apc, afd, aslot, clientaddr>>
    BY <1>3 DEF CloseFd
  <2>2. EpollInv'
    BY <2>1 DEF EpollInv, Own
  <2>3. HandoverInv'
    BY <2>1 DEF HandoverInv, Own
  <2>4. \A j \in Job : Linked(j) => Linked(j)'
    BY <2>1 DEF Linked, Job
  <2>5. JobsInv'
    BY <2>1, <2>4 DEF JobsInv, HandInv
  <2> QED BY <2>2, <2>3, <2>5
<1>4. ASSUME NEW f \in Fds
      PROVE  get_matched_event_index_by_fd(f) \in Slots
               => connect_fd[get_matched_event_index_by_fd(f)] = f
  BY SearchesFind
<1>5. ASSUME NEW i \in Slots, FreeByTimeout(i)
      PROVE  connect_fd[i] \in Fds /\ FreeSlot(i, connect_fd[i])
  BY <1>5 DEF FreeByTimeout
<1> QED BY <1>1, <1>2, <1>3, <1>4, <1>5 DEF MainThread, FreeByEvent

\* A worker changes names in the table and never a connection.
LEMMA WorkerConn ==
  ASSUME TypeInv, ConnInv, NEW w \in Workers, Worker(w)
  PROVE  ConnInv'
<1>1. /\ UNCHANGED <<connect_fd, client_ip_addr, client_port, peer, epolled, mfd>>
      /\ UNCHANGED <<apc, afd, aslot, clientaddr>>
  BY DEF Worker, Take, Lookup, Ignore, Login, LoginCrash, Search, ReadIp, ReadPort, CountSlot,
         FillSlot, Send, table, conns, accepting
<1>2. EpollInv' /\ HandoverInv' /\ \A j : Linked(j) => Linked(j)'
  BY <1>1 DEF ConnInv, EpollInv, HandoverInv, Own, Linked
<1>3. /\ \A k \in 1..Len(queue') : \E l \in 1..Len(queue) : queue'[k] = queue[l]
      /\ \A v \in Workers : wpc'[v] # "idle" =>
           \/ wpc[v] # "idle" /\ job'[v] = job[v]
           \/ \E l \in 1..Len(queue) : job'[v] = queue[l]
  <2> USE DEF TypeInv, TypeOK
  <2>1. CASE Take(w)
    <3>1. queue \in Seq(Job) /\ queue # <<>> /\ queue' = Tail(queue) /\ job' = [job EXCEPT ![w] = Head(queue)]
          /\ \A v \in Workers \ {w} : wpc'[v] = wpc[v]
      BY <2>1 DEF Take
    <3>2. /\ 1 \in 1..Len(queue) /\ Head(queue) = queue[1]
          /\ \A k \in 1..Len(queue') : k + 1 \in 1..Len(queue) /\ queue'[k] = queue[k + 1]
      BY <3>1
    <3> QED BY <3>1, <3>2
  <2>2. CASE Done(w) /\ queue' = queue
    BY <2>2 DEF Done
  <2>3. CASE ~Take(w) /\ ~Done(w)
    BY <2>3 DEF Worker, Lookup, Ignore, Login, LoginCrash, Search, ReadIp, ReadPort, CountSlot,
                FillSlot, Send, FirstStep
  <2> QED BY <2>1, <2>2, <2>3 DEF Worker, Lookup, Ignore, Login, LoginCrash, Search, ReadIp, ReadPort,
                CountSlot, FillSlot, Send
<1>4. JobsInv'
  BY <1>2, <1>3 DEF ConnInv, JobsInv
<1> QED BY <1>2, <1>4 DEF ConnInv

\* The invariant of epoll, of the descriptors on their way and of the jobs.
LEMMA ConnInvariant == Spec => []ConnInv
<1>1. Init => ConnInv
  <2> SUFFICES ASSUME Init PROVE ConnInv
    OBVIOUS
  <2>1. EpollInv /\ HandoverInv
    BY DEF Init, EpollInv, HandoverInv
  <2>2. JobsInv
    BY DEF Init, JobsInv
  <2> QED BY <2>1, <2>2 DEF ConnInv
<1>2. TypeInv /\ ConnInv /\ [Next]_vars => ConnInv'
  <2> SUFFICES ASSUME TypeInv, ConnInv, [Next]_vars PROVE ConnInv'
    OBVIOUS
  <2>1. CASE Next
    BY <2>1, AcceptThreadConn, MainThreadConn, WorkerConn DEF Next
  <2>2. CASE UNCHANGED vars
    BY <2>2 DEF vars, ConnInv, EpollInv, HandoverInv, Own, JobsInv, Linked
  <2> QED BY <2>1, <2>2
<1> QED BY <1>1, <1>2, TypeInvariant, PTL DEF Spec

(***************************************************************************)
(* A worker and the client it serves.                                      *)
(***************************************************************************)

\* A slot that another thread writes never has, before or after, the number of a descriptor
\* that is in epoll and not being closed.
LEMMA OthersKeepSlots ==
  ASSUME TypeInv, ConnInv, AcceptThread \/ MainThread,
         NEW f \in epolled, f # mfd, f # mfd', NEW i \in Slots
  PROVE  connect_fd'[i] = f <=> connect_fd[i] = f
<1> USE NamesAssumption DEF TypeInv, TypeOK, table, conns, accepting, reading, listing
<1>1. CASE InitFd
  BY <1>1 DEF InitFd, ConnInv, HandoverInv
<1>2. ASSUME NEW s, NEW g \in Fds, FreeSlot(s, g), s \in Slots => connect_fd[s] = g
      PROVE  connect_fd'[i] = f <=> connect_fd[i] = f
  BY <1>2 DEF FreeSlot
<1>3. ASSUME NEW g \in Fds
      PROVE  get_matched_event_index_by_fd(g) \in Slots
               => connect_fd[get_matched_event_index_by_fd(g)] = g
  BY SearchesFind
<1>4. ASSUME NEW s \in Slots, FreeByTimeout(s)
      PROVE  connect_fd[s] \in Fds /\ FreeSlot(s, connect_fd[s])
  BY <1>4 DEF FreeByTimeout
<1>5. CASE MainThread
  BY <1>2, <1>3, <1>4, <1>5 DEF MainThread, FreeByEvent, Receive, CloseFd
<1>6. CASE AcceptThread /\ ~InitFd
  BY <1>6 DEF AcceptThread, Accept, InitIp, InitPort, Register, RegisterFails
<1> QED BY <1>1, <1>5, <1>6

\* The other threads leave the slots of a connection alone that nobody closes.
LEMMA OthersKeepServing ==
  ASSUME TypeInv, ConnInv, ConnInv', AcceptThread \/ MainThread, NEW w \in Workers, ServingInv(w)
  PROVE  ServingInv(w)'
<1> USE NamesAssumption DEF TypeInv, TypeOK, table, conns, accepting, reading, listing
<1>1. UNCHANGED <<wpc, idx, ip, prt>>
  BY DEF AcceptThread, Accept, InitIp, InitPort, InitFd, Register, RegisterFails, MainThread,
         FreeByEvent, FreeByTimeout, FreeSlot, Receive, CloseFd
<1>2. Served(w)' => /\ Served(w) /\ job[w] \in Job
                    /\ job'[w].fd = job[w].fd /\ job'[w].from = job[w].from
                    /\ job'[w].request = job[w].request
  <2>1. ASSUME NEW s, NEW f \in Fds, FreeSlot(s, f), Served(w)'
        PROVE  /\ Served(w) /\ job[w] \in Job
               /\ job'[w].fd = job[w].fd /\ job'[w].from = job[w].from
               /\ job'[w].request = job[w].request
    <3>1. job[w] \in Job /\ job'[w] = MarkClosed(job[w], f)
      BY <1>1, <2>1 DEF FreeSlot, Served, HandInv
    <3> QED BY <1>1, <2>1, <3>1, MarkClosedKeeps DEF Served
  <2>2. CASE job' = job
    BY <1>1, <2>2 DEF Served, HandInv
  <2>3. ASSUME NEW i \in Slots, FreeByTimeout(i)
        PROVE  connect_fd[i] \in Fds /\ FreeSlot(i, connect_fd[i])
    BY <2>3 DEF FreeByTimeout
  <2>4. CASE AcceptThread
    BY <2>2, <2>4 DEF AcceptThread, Accept, InitIp, InitPort, InitFd, Register, RegisterFails
  <2>5. CASE MainThread
    BY <2>1, <2>2, <2>3, <2>5 DEF MainThread, FreeByEvent, Receive, CloseFd
  <2> QED BY <2>4, <2>5
<1>3. ASSUME Served(w)'
      PROVE  \A i \in Slots : connect_fd'[i] = job[w].fd <=> connect_fd[i] = job[w].fd
  <2>1. /\ job[w].fd \in epolled /\ job[w].fd # mfd
        /\ job[w].fd # mfd'
    BY <1>1, <1>2, <1>3 DEF ConnInv, JobsInv, Linked, Served
  <2> QED BY <2>1, OthersKeepSlots
<1>4. ASSUME Served(w)' PROVE Alone(job[w].fd)' => Alone(job[w].fd)
  <2>1. job'[w].fd = job[w].fd
    BY <1>2, <1>4
  <2> QED BY <1>3, <1>4, <2>1 DEF Alone
<1>5. ASSUME Served(w)'
      PROVE  idx[w] \in Slots /\ connect_fd[idx[w]] = job[w].fd
               => idx'[w] \in Slots /\ connect_fd'[idx'[w]] = job'[w].fd
  BY <1>1, <1>2, <1>3, <1>5
<1> QED BY <1>1, <1>2, <1>4, <1>5 DEF ServingInv

\* If one slot only has the descriptor of a connection that is served, it is its client's.
LEMMA OwnSlot ==
  ASSUME ConnInv, NEW w \in Workers, Served(w), Alone(job[w].fd),
         NEW i \in Slots, connect_fd[i] = job[w].fd
  PROVE  client_ip_addr[i] = job[w].from /\ client_port[i] = job[w].from
<1>1. /\ job[w].fd \in epolled /\ job[w].fd # mfd
      /\ peer[job[w].fd] = job[w].from
  BY DEF ConnInv, JobsInv, Linked, Served
<1>2. PICK k \in Slots : Own(k, job[w].fd)
  BY <1>1 DEF ConnInv, EpollInv
<1>3. k = i
  BY <1>2 DEF Own, Alone
<1> QED BY <1>1, <1>2, <1>3 DEF Own

\* A worker finds a slot of the connection it serves, and reads the address there.
LEMMA WorkerKeepsServing ==
  ASSUME TypeInv, ConnInv, NEW v \in Workers, Worker(v), NEW w \in Workers, ServingInv(w)
  PROVE  ServingInv(w)'
<1> USE DEF TypeInv, TypeOK, table, conns, accepting, reading, listing
<1>0. UNCHANGED <<connect_fd, client_ip_addr, client_port, peer, epolled>>
  BY DEF Worker, Take, Lookup, Ignore, Login, LoginCrash, Search, ReadIp, ReadPort, CountSlot,
         FillSlot, Send
<1>1. CASE v # w
  <2>1. /\ wpc'[w] = wpc[w] /\ job'[w] = job[w] /\ idx'[w] = idx[w]
        /\ ip'[w] = ip[w] /\ prt'[w] = prt[w]
    BY <1>1 DEF Worker, Take, Lookup, Ignore, Login, LoginCrash, Search, ReadIp, ReadPort, CountSlot,
                FillSlot, Send, Done
  <2> QED BY <1>0, <2>1 DEF ServingInv, Served, Alone
<1>2. CASE v = w
  <2>1. CASE Take(w)
    BY <2>1 DEF Take, ServingInv
  <2>2. CASE Done(w)
    BY <2>2 DEF Done, ServingInv, Served
  <2>3. CASE LoginCrash(w)
    BY <1>0, <2>3 DEF LoginCrash, ServingInv, Served, Alone
  <2>4. CASE Lookup(w)
    <3>1. Served(w) => /\ get_matched_event_index_by_fd(job[w].fd) \in Slots
                       /\ connect_fd[get_matched_event_index_by_fd(job[w].fd)] = job[w].fd
      <4>1. Served(w) => InTable(job[w].fd)
        BY DEF ConnInv, JobsInv, EpollInv, Own, Linked, Served, InTable
      <4> QED BY <4>1, SearchesFind
    <3>2. /\ idx'[w] = get_matched_event_index_by_fd(job[w].fd) /\ wpc'[w] \notin {"ip", "send"}
          /\ job' = job /\ wpc[w] # "idle"
      BY <2>4, CommandKinds DEF Lookup, FirstStep, HandInv, Job
    <3> QED BY <1>0, <3>1, <3>2 DEF ServingInv, Served, Alone
  <2>5. CASE Search(w)
    BY <1>0, <2>5 DEF Search, HandInv, ServingInv, Served, Alone
  <2>6. CASE CountSlot(w) \/ FillSlot(w)
    BY <1>0, <2>6 DEF CountSlot, FillSlot, HandInv, ServingInv, Served, Alone
  <2>7. CASE ReadIp(w) \/ ReadPort(w)
    <3>1. ASSUME Served(w), job[w].request.cmd = "HANDSHAKE", Alone(job[w].fd)
          PROVE  /\ idx[w] \in Slots /\ idx[w] # -1 /\ connect_fd[idx[w]] = job[w].fd
                 /\ client_ip_addr[idx[w]] = job[w].from /\ client_port[idx[w]] = job[w].from
      <4>1. idx[w] \in Slots /\ connect_fd[idx[w]] = job[w].fd
        BY <2>7, <3>1 DEF ReadIp, ReadPort, ServingInv
      <4> QED BY <3>1, <4>1, OwnSlot DEF Slots
    <3>2. job' = job /\ idx' = idx /\ wpc[w] # "idle"
      BY <2>7 DEF ReadIp, ReadPort
    <3>3. CASE ReadIp(w)
      BY <1>0, <3>1, <3>2, <3>3 DEF ReadIp, HandInv, ServingInv, Served, Alone
    <3>4. CASE ReadPort(w)
      BY <1>0, <3>1, <3>2, <3>4 DEF ReadPort, HandInv, ServingInv, Served, Alone
    <3> QED BY <2>7, <3>3, <3>4
  <2> QED BY <1>2, <2>1, <2>2, <2>3, <2>4, <2>5, <2>6, <2>7 DEF Worker, Ignore, Login, Send
<1> QED BY <1>1, <1>2

\* As long as the main thread has not closed it, a request's connection is the slot's.
LEMMA ServingInvariant == Spec => [](\A w \in Workers : ServingInv(w))
<1> DEFINE I == \A w \in Workers : ServingInv(w)
<1>1. Init => I
  BY DEF Init, ServingInv, Served
<1>2. TypeInv /\ ConnInv /\ ConnInv' /\ I /\ [Next]_vars => I'
  <2> SUFFICES ASSUME TypeInv, ConnInv, ConnInv', I, [Next]_vars PROVE I'
    OBVIOUS
  <2>1. CASE Next
    BY <2>1, OthersKeepServing, WorkerKeepsServing DEF Next
  <2>2. CASE UNCHANGED vars
    BY <2>2 DEF vars, ServingInv, Served, Alone
  <2> QED BY <2>1, <2>2
<1> QED BY <1>1, <1>2, TypeInvariant, ConnInvariant, PTL DEF Spec

\* A login only meets the NULL of get_connect_prv_by_index(-1) (g_net_update.c:412) when
\* the client's connection was closed while the login waited.
THEOREM NoCrashWhileConnected == Spec => []CrashOnlyAfterClose
<1>1. (\A w \in Workers : ServingInv(w)) => CrashOnlyAfterClose
  BY DEF ServingInv, CrashOnlyAfterClose, Slots
<1> QED BY <1>1, ServingInvariant, PTL

\* While its connection is not being closed, a request's descriptor belongs to the client
\* that sent it, whatever registrations have failed: answers go where they should.  And a
\* login names a slot with its sender's address if no other slot has kept the number.
THEOREM AnswersReachTheSender == Spec => []ServesItsSender
<1>1. ConnInv /\ (\A w \in Workers : ServingInv(w)) => ServesItsSender
  <2> SUFFICES ASSUME ConnInv, \A w \in Workers : ServingInv(w), NEW w \in Workers, Served(w)
               PROVE  /\ peer[job[w].fd] = job[w].from
                      /\ wpc[w] = "login" /\ Alone(job[w].fd) =>
                           /\ connect_fd[idx[w]] = job[w].fd
                           /\ client_ip_addr[idx[w]] = job[w].from
                           /\ client_port[idx[w]] = job[w].from
    BY DEF ServesItsSender
  <2>1. peer[job[w].fd] = job[w].from
    BY DEF ConnInv, JobsInv, Linked, Served
  <2>2. wpc[w] = "login" => idx[w] \in Slots /\ connect_fd[idx[w]] = job[w].fd
    BY DEF ServingInv
  <2> QED BY <2>1, <2>2, OwnSlot
<1> QED BY <1>1, ConnInvariant, ServingInvariant, PTL

\* The handshake's answer holds the sender's own address and port (g_net_update.c:398-400),
\* both from the same occupant of the slot, unless another slot has kept the number of the
\* sender's descriptor after a registration that failed.
THEOREM HandshakeIsOwn == Spec => []HandshakeTellsOwnAddress
<1>1. (\A w \in Workers : ServingInv(w)) => HandshakeTellsOwnAddress
  BY DEF ServingInv, HandshakeTellsOwnAddress
<1> QED BY <1>1, ServingInvariant, PTL

(***************************************************************************)
(* The two passes of get_all_users.                                        *)
(***************************************************************************)

\* The clients before and after a place of the table, one slot at a time.
LEMMA PassOverSlot ==
  /\ \A n \in Int : /\ IsFiniteSet(Below(n)) /\ Cardinality(Below(n)) \in Nat
                    /\ IsFiniteSet(From(n)) /\ Cardinality(From(n)) \in Nat
  /\ \A n \in Slots : /\ Cardinality(Below(n + 1)) = Cardinality(Below(n)) + InUse(n)
                      /\ Cardinality(From(n)) = Cardinality(From(n + 1)) + InUse(n)
  /\ Cardinality(Below(1)) = 0 /\ From(1) = Below(MaxEvents + 1)
<1> USE MaxEventsAssumption DEF Slots
<1>1. IsFiniteSet(Slots)
  BY FS_Interval
<1>2. ASSUME NEW n \in Int
      PROVE  /\ IsFiniteSet(Below(n)) /\ Cardinality(Below(n)) \in Nat
             /\ IsFiniteSet(From(n)) /\ Cardinality(From(n)) \in Nat
  <2>1. Below(n) \in SUBSET Slots /\ From(n) \in SUBSET Slots
    BY DEF Below, From
  <2> QED BY <1>1, <2>1, FS_Subset, FS_CardinalityType
<1>3. ASSUME NEW n \in Slots
      PROVE  /\ Cardinality(Below(n + 1)) = Cardinality(Below(n)) + InUse(n)
             /\ Cardinality(From(n)) = Cardinality(From(n + 1)) + InUse(n)
  <2>1. n \in Int /\ n + 1 \in Int
    OBVIOUS
  <2>2. /\ IsFiniteSet(Below(n)) /\ Cardinality(Below(n)) \in Nat
        /\ IsFiniteSet(From(n + 1)) /\ Cardinality(From(n + 1)) \in Nat
    BY <1>2, <2>1
  <2>3. CASE connect_fd[n] = NoFd
    <3>1. Below(n + 1) = Below(n) /\ From(n) = From(n + 1) /\ InUse(n) = 0
      BY <2>3 DEF Below, From, InUse
    <3> QED BY <2>2, <3>1
  <2>4. CASE connect_fd[n] # NoFd
    <3>1. /\ Below(n + 1) = Below(n) \cup {n} /\ n \notin Below(n)
          /\ From(n) = From(n + 1) \cup {n} /\ n \notin From(n + 1) /\ InUse(n) = 1
      BY <2>4 DEF Below, From, InUse
    <3>2. /\ Cardinality(Below(n) \cup {n}) = Cardinality(Below(n)) + 1
          /\ Cardinality(From(n + 1) \cup {n}) = Cardinality(From(n + 1)) + 1
      BY <2>2, <3>1, FS_AddElement
    <3> QED BY <3>1, <3>2
  <2> QED BY <2>3, <2>4
<1>4. Below(1) = {} /\ Cardinality(Below(1)) = 0
  BY FS_EmptySet DEF Below
<1>5. From(1) = Below(MaxEvents + 1)
  BY DEF Below, From
<1> QED BY <1>2, <1>3, <1>4, <1>5

\* A client that joins is noted, and one that leaves makes room.
LEMMA OthersKeepCount ==
  ASSUME TypeInv, AcceptThread \/ MainThread, NEW w \in Workers, CountInv(w)
  PROVE  CountInv(w)'
<1> USE DEF TypeInv, TypeOK, table, conns, accepting, reading, listing
<1>1. UNCHANGED <<wpc, pos, cnt, filled>>
  BY DEF AcceptThread, Accept, InitIp, InitPort, InitFd, Register, RegisterFails, MainThread,
         FreeByEvent, FreeByTimeout, FreeSlot, Receive, CloseFd
<1>2. CASE InitFd
  <2>1. met'[w] = (met[w] \/ wpc[w] \in {"count", "fill"})
    BY <1>2 DEF InitFd
  <2> QED BY <1>1, <2>1 DEF CountInv
<1>3. CASE ~InitFd
  <2>1. met' = met /\ \A i \in Slots : connect_fd'[i] # NoFd => connect_fd[i] # NoFd
    <3>1. ASSUME NEW s, NEW f, FreeSlot(s, f)
          PROVE  met' = met /\ \A i \in Slots : connect_fd'[i] # NoFd => connect_fd[i] # NoFd
      BY <3>1 DEF FreeSlot
    <3>2. CASE met' = met /\ connect_fd' = connect_fd
      BY <3>2
    <3>3. CASE MainThread
      BY <3>1, <3>2, <3>3 DEF MainThread, FreeByEvent, FreeByTimeout, Receive, CloseFd
    <3> QED BY <1>3, <3>2, <3>3 DEF AcceptThread, Accept, InitIp, InitPort, Register, RegisterFails
  <2>2. pos[w] \in Int /\ cnt[w] \in Int /\ filled[w] \in Int
    BY MaxEventsAssumption
  <2> DEFINE n == pos[w]
  <2>3. /\ IsFiniteSet(Below(n)) /\ Below(n)' \subseteq Below(n)
        /\ IsFiniteSet(From(n)) /\ From(n)' \subseteq From(n)
    BY <1>1, <2>1, <2>2, PassOverSlot DEF Below, From
  <2>4. /\ Cardinality(Below(n)') <= Cardinality(Below(n)) /\ Cardinality(Below(n)') \in Nat
        /\ Cardinality(From(n)') <= Cardinality(From(n)) /\ Cardinality(From(n)') \in Nat
    BY <2>3, FS_Subset, FS_CardinalityType
  <2>5. Cardinality(Below(n)) \in Nat /\ Cardinality(From(n)) \in Nat
    BY <2>2, PassOverSlot
  <2> QED BY <1>1, <2>1, <2>2, <2>4, <2>5 DEF CountInv
<1> QED BY <1>2, <1>3

\* The passes themselves (get_all_users).
LEMMA WorkerKeepsCount ==
  ASSUME TypeInv, NEW v \in Workers, Worker(v), NEW w \in Workers, CountInv(w)
  PROVE  CountInv(w)'
<1> USE DEF TypeInv, TypeOK, table, conns, accepting, reading, listing
<1>0. /\ connect_fd' = connect_fd /\ \A n : Below(n)' = Below(n) /\ From(n)' = From(n)
  BY DEF Worker, Take, Lookup, Ignore, Login, LoginCrash, Search, ReadIp, ReadPort, CountSlot,
         FillSlot, Send, Below, From
<1>1. CASE v # w
  <2>1. /\ wpc'[w] = wpc[w] /\ pos'[w] = pos[w] /\ cnt'[w] = cnt[w] /\ filled'[w] = filled[w]
        /\ met'[w] = met[w]
    BY <1>1 DEF Worker, Take, Lookup, Ignore, Login, LoginCrash, Search, ReadIp, ReadPort, CountSlot,
                FillSlot, Send, Done
  <2> QED BY <1>0, <2>1 DEF CountInv
<1>2. CASE v = w
  <2>1. CASE Take(w) \/ LoginCrash(w) \/ Done(w)
    BY <2>1 DEF Take, LoginCrash, Done, CountInv
  <2>2. CASE Lookup(w)
    <3>1. cnt'[w] = 0 /\ (wpc'[w] = "count" => pos'[w] = 1) /\ wpc'[w] \notin {"fill", "send"}
      BY <2>2, CommandKinds DEF Lookup, FirstStep, HandInv, Job
    <3>2. Cardinality(Below(1)) <= 0
      BY PassOverSlot
    <3> QED BY <1>0, <3>1, <3>2 DEF CountInv
  <2>3. CASE Search(w) \/ ReadIp(w) \/ ReadPort(w)
    BY <2>3 DEF Search, ReadIp, ReadPort, HandInv, CountInv
  <2>4. CASE CountSlot(w)
    <3>1. /\ pos[w] \in Slots /\ filled[w] = 0 /\ cnt[w] \in Int /\ MaxEvents \in Nat
          /\ cnt'[w] = cnt[w] + InUse(pos[w]) /\ filled'[w] = 0 /\ met'[w] = met[w]
          /\ wpc[w] = "count"
      BY <2>4, MaxEventsAssumption DEF CountSlot, HandInv
    <3>2. /\ Cardinality(Below(pos[w] + 1)) = Cardinality(Below(pos[w])) + InUse(pos[w])
          /\ Cardinality(Below(pos[w])) \in Nat /\ InUse(pos[w]) \in Nat
      <4>1. pos[w] \in Int /\ InUse(pos[w]) \in Nat
        BY <3>1 DEF Slots, InUse
      <4> QED BY <3>1, <4>1, PassOverSlot
    <3>3. ~met[w] => Cardinality(Below(pos[w] + 1)) <= cnt'[w]
      BY <3>1, <3>2 DEF CountInv
    <3>4. CASE pos[w] = MaxEvents
      <4>1. wpc'[w] = "fill" /\ pos'[w] = 1
        BY <2>4, <3>4 DEF CountSlot
      <4>2. From(1) = Below(pos[w] + 1)
        BY <3>4, PassOverSlot
      <4>3. ~met[w] => 0 + Cardinality(From(1)) <= cnt'[w]
        BY <3>1, <3>2, <3>3, <4>2
      <4> QED BY <1>0, <3>1, <4>1, <4>3 DEF CountInv
    <3>5. CASE pos[w] # MaxEvents
      <4>1. wpc'[w] = "count" /\ pos'[w] = pos[w] + 1
        BY <2>4, <3>1, <3>5 DEF CountSlot
      <4> QED BY <1>0, <3>1, <3>3, <4>1 DEF CountInv
    <3> QED BY <3>4, <3>5
  <2>5. CASE FillSlot(w)
    <3>1. /\ pos[w] \in Slots /\ pos[w] + 1 \in Int /\ filled[w] \in Int /\ cnt[w] \in Int
          /\ filled'[w] = filled[w] + InUse(pos[w]) /\ cnt'[w] = cnt[w] /\ met'[w] = met[w]
          /\ wpc[w] = "fill"
      BY <2>5, MaxEventsAssumption DEF FillSlot, HandInv, Slots
    <3>2. /\ Cardinality(From(pos[w])) = Cardinality(From(pos[w] + 1)) + InUse(pos[w])
          /\ Cardinality(From(pos[w] + 1)) \in Nat /\ InUse(pos[w]) \in Nat
      BY <3>1, PassOverSlot DEF InUse
    <3>3. ~met[w] => /\ filled'[w] + Cardinality(From(pos[w] + 1)) <= cnt'[w]
                     /\ filled'[w] <= cnt'[w]
      BY <3>1, <3>2 DEF CountInv
    <3>4. wpc'[w] = "send" \/ (wpc'[w] = "fill" /\ pos'[w] = pos[w] + 1)
      BY <2>5, <3>1 DEF FillSlot
    <3> QED BY <1>0, <3>1, <3>3, <3>4 DEF CountInv
  <2> QED BY <1>2, <2>1, <2>2, <2>3, <2>4, <2>5 DEF Worker, Ignore, Login, Send
<1> QED BY <1>1, <1>2

\* The list of all users fits the buffer that the first pass has sized, unless a client
\* joined between the passes or during one (g_net_update.c:463-473).
THEOREM ListFitsUnlessJoined == Spec => []AllUsersFit
<1> DEFINE I == \A w \in Workers : CountInv(w)
<1>1. Init => I
  BY DEF Init, CountInv
<1>2. TypeInv /\ I /\ [Next]_vars => I'
  <2> SUFFICES ASSUME TypeInv, I, [Next]_vars PROVE I'
    OBVIOUS
  <2>1. CASE Next
    BY <2>1, OthersKeepCount, WorkerKeepsCount DEF Next
  <2>2. CASE UNCHANGED vars
    BY <2>2 DEF vars, CountInv, Below, From
  <2> QED BY <2>1, <2>2
<1>3. TypeInv /\ I => AllUsersFit
  <2> SUFFICES ASSUME TypeInv, I, NEW w \in Workers, ~met[w] PROVE ~(filled[w] > cnt[w])
    BY DEF AllUsersFit, TypeInv, TypeOK
  <2>1. pos[w] \in Int /\ cnt[w] \in Int /\ filled[w] \in Int /\ wpc[w] \in WorkerPC
    BY MaxEventsAssumption DEF TypeInv, TypeOK
  <2>2. CASE wpc[w] = "fill"
    <3>1. Cardinality(From(pos[w])) \in Nat
      BY <2>1, PassOverSlot
    <3> QED BY <2>1, <2>2, <3>1 DEF CountInv
  <2>3. CASE wpc[w] # "fill"
    <3>1. cnt[w] >= 0
      BY MaxEventsAssumption DEF TypeInv, TypeOK
    <3>2. wpc[w] = "send" \/ filled[w] = 0
      BY <2>3 DEF HandInv, TypeInv
    <3> QED BY <2>1, <3>1, <3>2 DEF CountInv
  <2> QED BY <2>2, <2>3
<1> QED BY <1>1, <1>2, <1>3, TypeInvariant, PTL DEF Spec
=============================================================================
