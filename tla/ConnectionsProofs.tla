------------------------- MODULE ConnectionsProofs -------------------------
(***************************************************************************)
(* Proofs about Connections, for a table of any size, any set of           *)
(* descriptors and any number of failures and deleted jobs.                *)
(***************************************************************************)
EXTENDS Connections, FiniteSetTheorems, WellFoundedInduction, TLAPS

(***************************************************************************)
(* The searches of the table.                                              *)
(***************************************************************************)

\* A search that has something to find finds it (epoll_connect.c:61-102).
LEMMA FirstOfFinds ==
  ASSUME NEW S, S \subseteq Slots, S # {}
  PROVE  FirstOf(S) \in S
<1>1. S \subseteq Nat
  BY MaxEventsAssumption DEF Slots
<1>2. IsWellFoundedOn(OpToRel(<, Nat), Nat)
  BY NatLessThanWellFounded
<1>3. \E i \in S : \A j \in S : ~(<<j, i>> \in OpToRel(<, Nat))
  BY <1>1, <1>2, WFMin
<1>4. \E i \in S : \A j \in S : i <= j
  <2>1. PICK i \in S : \A j \in S : ~(<<j, i>> \in OpToRel(<, Nat))
    BY <1>3
  <2>2. ASSUME NEW j \in S
        PROVE  i <= j
    <3>1. <<j, i>> \in Nat \X Nat /\ <<j, i>>[1] = j /\ <<j, i>>[2] = i
      BY <1>1
    <3>2. ~(j < i)
      BY <2>1, <3>1 DEF OpToRel
    <3>3. QED
      BY <1>1, <3>2
  <2>3. QED
    BY <2>2
<1>5. QED
  BY <1>4 DEF FirstOf

\* A search returns a slot or -1.
LEMMA FirstOfType ==
  ASSUME NEW S, S \subseteq Slots
  PROVE  FirstOf(S) \in Slots \cup {-1}
<1>1. CASE S = {}
  BY <1>1 DEF FirstOf
<1>2. CASE S # {}
  BY <1>2, FirstOfFinds
<1>3. QED
  BY <1>1, <1>2

(***************************************************************************)
(* Type correctness.                                                       *)
(***************************************************************************)

\* TypeOK with what it needs to be inductive: the accept thread has a descriptor whenever
\* it is at work on one, and the scan is at a slot whenever it closes one.
TypeInv ==
    /\ TypeOK
    /\ apc # "accept" => afd \in Fds
    /\ mpc \in {"scan_sub", "scan_close"} => mslot \in Slots

\* A step of the accept thread keeps the types (accept_thread).
LEMMA AcceptThreadType ==
  ASSUME TypeInv, AcceptThread
  PROVE  TypeInv'
<1> USE MaxEventsAssumption, NoFdAssumption
    DEF TypeInv, TypeOK, SockState, Readable, AcceptPC, MainPC, ScanPC,
        table, kernel, accepting, main, past
<1>1. ASSUME NEW f \in Fds, Accept(f)
      PROVE  TypeInv'
  BY <1>1 DEF Accept
<1>2. CASE PickSlot
  <2>1. get_epoll_connect_free_event_index \in Slots \cup {-1}
    BY FirstOfType DEF get_epoll_connect_free_event_index
  <2>2. QED
    BY <1>2, <2>1 DEF PickSlot
<1>3. CASE RejectNoSlot
  BY <1>3 DEF RejectNoSlot, closesocket
<1>4. CASE SetupFails
  BY <1>4 DEF SetupFails, closesocket
<1>5. CASE InitSlot
  BY <1>5 DEF InitSlot
<1>6. CASE CtlAdd
  BY <1>6 DEF CtlAdd
<1>7. CASE CtlAddFails
  BY <1>7 DEF CtlAddFails, closesocket
<1>8. CASE CountAdd
  BY <1>8 DEF CountAdd
<1>9. QED
  BY <1>1, <1>2, <1>3, <1>4, <1>5, <1>6, <1>7, <1>8 DEF AcceptThread

\* A step of the main thread keeps the types (main, recycle_timeout_confd).
LEMMA MainThreadType ==
  ASSUME TypeInv, MainThread
  PROVE  TypeInv'
<1> USE MaxEventsAssumption, NoFdAssumption
    DEF TypeInv, TypeOK, SockState, Readable, AcceptPC, MainPC, ScanPC,
        table, kernel, accepting, main, past
<1>1. CASE ScanStart
  BY <1>1 DEF ScanStart
<1>2. CASE ScanNext
  BY <1>2 DEF ScanNext
<1>3. CASE ScanFree
  BY <1>3 DEF ScanFree, free_event_by_index, Occupied, Slots
<1>4. CASE ScanSub
  BY <1>4 DEF ScanSub, connect_total_count_sub
<1>5. CASE ScanClose
  <2>1. mslot' \in 0..(MaxEvents + 1)
    BY <1>5 DEF ScanClose, Slots
  <2>2. sock' \in [Fds -> SockState] /\ epolled' \in SUBSET Fds /\ edge' \in SUBSET epolled'
    BY <1>5 DEF ScanClose, closesocket
  <2>3. QED
    BY <1>5, <2>1, <2>2 DEF ScanClose
<1>6. CASE ScanEnd
  BY <1>6 DEF ScanEnd
<1>7. CASE DeleteJobs
  BY <1>7 DEF DeleteJobs
<1>8. CASE SubJobs
  BY <1>8 DEF SubJobs, connect_total_count_sub
<1>9. CASE SkipScan
  BY <1>9 DEF SkipScan
<1>10. CASE EpollWait
  BY <1>10 DEF EpollWait, EventOf
<1>11. CASE EventsEnd
  BY <1>11 DEF EventsEnd
<1>12. CASE EventFree
  BY <1>12 DEF EventFree, free_event_by_index
<1>13. CASE EventClose
  BY <1>13 DEF EventClose, closesocket
<1>14. ASSUME NEW f \in Fds, Read(f)
       PROVE  TypeInv'
  BY <1>14 DEF Read, AddWork
<1>15. ASSUME NEW f \in Fds, CloseCounted(f)
       PROVE  TypeInv'
  BY <1>15 DEF CloseCounted, connect_total_count_sub
<1>16. QED
  BY <1>1, <1>2, <1>3, <1>4, <1>5, <1>6, <1>7, <1>8, <1>9, <1>10, <1>11, <1>12, <1>13, <1>14, <1>15
     DEF MainThread, Scan, Events

\* A step of a peer, of the clock or of a worker keeps the types.
LEMMA OtherType ==
  ASSUME TypeInv, Peer \/ (\E i \in Slots : Age(i)) \/ WorkerTakes
  PROVE  TypeInv'
<1> USE DEF TypeInv, TypeOK, SockState, Readable, AcceptPC, MainPC, ScanPC,
            table, kernel, accepting, main, past
<1>1. ASSUME NEW f \in Fds, NEW s \in SockState, Arrives(f, s)
      PROVE  TypeInv'
  BY <1>1 DEF Arrives
<1>2. CASE Peer
  BY <1>1, <1>2 DEF Peer, PeerSends, PeerCloses, PeerResets, SocketError
<1>3. ASSUME NEW i \in Slots, Age(i)
      PROVE  TypeInv'
  BY <1>3 DEF Age
<1>4. CASE WorkerTakes
  BY <1>4 DEF WorkerTakes
<1>5. QED
  BY <1>2, <1>3, <1>4

\* The strengthened types hold in every state.
LEMMA TypeInvariant == Spec => []TypeInv
<1>1. Init => TypeInv
  BY MaxEventsAssumption, NoFdAssumption
     DEF Init, TypeInv, TypeOK, SockState, Readable, AcceptPC, MainPC, ScanPC
<1>2. TypeInv /\ [Next]_vars => TypeInv'
  <2>1. ASSUME TypeInv, UNCHANGED vars
        PROVE  TypeInv'
    BY <2>1 DEF vars, TypeInv, TypeOK
  <2>2. QED
    BY <2>1, AcceptThreadType, MainThreadType, OtherType DEF Next
<1>3. QED
  BY <1>1, <1>2, PTL DEF Spec

\* Every variable of the connection handling keeps its type (epoll_connect.h, g_net_update.c).
THEOREM TypeCorrect == Spec => []TypeOK
<1>1. TypeInv => TypeOK
  BY DEF TypeInv
<1>2. QED
  BY <1>1, TypeInvariant, PTL

(***************************************************************************)
(* Descriptors, slots and registrations.                                   *)
(***************************************************************************)

\* A step of the accept thread keeps ConnectionInv (accept_thread).
LEMMA AcceptThreadInv ==
  ASSUME TypeInv, ConnectionInv, AcceptThread
  PROVE  ConnectionInv'
<1> USE NoFdAssumption
    DEF ConnectionInv, AcceptOK, EventsOK, RegisteredOK, NoFdLeak, Closing, Matching, Occupied,
        TypeInv, TypeOK, table, kernel, accepting, main, past
<1>1. ASSUME NEW f \in Fds, Accept(f)
      PROVE  ConnectionInv'
  <2>1. f \notin epolled
    BY <1>1 DEF Accept
  <2>2. AcceptOK'
    BY <1>1, <2>1 DEF Accept
  <2>3. EventsOK' /\ RegisteredOK'
    BY <1>1, <2>1 DEF Accept
  <2>4. NoFdLeak'
    BY <1>1 DEF Accept
  <2>5. QED
    BY <2>2, <2>3, <2>4
<1>2. CASE PickSlot
  <2>1. FirstOf(Slots \ Occupied) \in Slots \ Occupied
    BY <1>2, FirstOfFinds DEF PickSlot
  <2>2. aslot' \in Slots \ Occupied
    BY <1>2, <2>1 DEF PickSlot, get_epoll_connect_free_event_index
  <2>3. QED
    BY <1>2, <2>2 DEF PickSlot
<1>3. CASE RejectNoSlot
  BY <1>3 DEF RejectNoSlot, closesocket
<1>4. CASE SetupFails
  BY <1>4 DEF SetupFails, closesocket
<1>5. CASE InitSlot
  BY <1>5 DEF InitSlot
<1>6. CASE CtlAdd
  BY <1>6 DEF CtlAdd
<1>7. CASE CtlAddFails
  BY <1>7 DEF CtlAddFails, closesocket
<1>8. CASE CountAdd
  BY <1>8 DEF CountAdd
<1>9. QED
  BY <1>1, <1>2, <1>3, <1>4, <1>5, <1>6, <1>7, <1>8 DEF AcceptThread

\* A step of the main thread keeps ConnectionInv (main, recycle_timeout_confd).
LEMMA MainThreadInv ==
  ASSUME TypeInv, ConnectionInv, MainThread
  PROVE  ConnectionInv'
<1> USE NoFdAssumption
    DEF ConnectionInv, AcceptOK, EventsOK, RegisteredOK, NoFdLeak, Closing, Matching, Occupied,
        TypeInv, TypeOK, table, kernel, accepting, main, past
<1>1. CASE ScanStart
  BY <1>1 DEF ScanStart
<1>2. CASE ScanNext
  BY <1>2 DEF ScanNext
<1>3. CASE ScanFree
  BY <1>3 DEF ScanFree, free_event_by_index
<1>4. CASE ScanSub
  BY <1>4 DEF ScanSub, connect_total_count_sub
<1>5. CASE ScanClose
  BY <1>5 DEF ScanClose, closesocket
<1>6. CASE ScanEnd
  BY <1>6 DEF ScanEnd
<1>7. CASE DeleteJobs
  BY <1>7 DEF DeleteJobs
<1>8. CASE SubJobs
  BY <1>8 DEF SubJobs, connect_total_count_sub
<1>9. CASE SkipScan
  BY <1>9 DEF SkipScan
<1>10. CASE EpollWait
  BY <1>10 DEF EpollWait, EventOf
<1>11. CASE EventsEnd
  BY <1>11 DEF EventsEnd
<1>12. CASE EventFree
  <2> DEFINE i == get_matched_event_index_by_fd(mfd)
  <2>1. i \in Slots /\ connect_fd[i] = mfd
    <3>1. Matching(mfd) \subseteq Slots /\ Matching(mfd) # {}
      BY <1>12 DEF EventFree
    <3>2. FirstOf(Matching(mfd)) \in Matching(mfd)
      BY ONLY <3>1, FirstOfFinds
    <3>3. QED
      BY <3>2 DEF get_matched_event_index_by_fd
  <2> HIDE DEF i
  <2>2. connect_fd' = [connect_fd EXCEPT ![i] = NoFd]
    BY <1>12, <2>1 DEF EventFree, free_event_by_index, i
  <2>3. /\ mpc = "ev_free" /\ mpc' = "ev_close"
        /\ UNCHANGED <<aged, current_connected_total, kernel, jobN, accepting, mfd, mslot, batch,
                        deleted, past>>
    BY <1>12 DEF EventFree
  <2>4. \A g \in Fds : g # mfd /\ Matching(g) # {} => Matching(g)' # {}
    BY <2>1, <2>2
  <2>5. AcceptOK'
    BY <2>1, <2>2, <2>3, <2>4
  <2>6. EventsOK' /\ RegisteredOK'
    BY <2>1, <2>2, <2>3, <2>4
  <2>7. NoFdLeak'
    BY <2>1, <2>2, <2>3, <2>4
  <2>8. QED
    BY <2>5, <2>6, <2>7
<1>13. CASE EventClose
  BY <1>13 DEF EventClose, closesocket
<1>14. ASSUME NEW f \in Fds, Read(f)
       PROVE  ConnectionInv'
  BY <1>14 DEF Read, AddWork
<1>15. ASSUME NEW f \in Fds, CloseCounted(f)
       PROVE  ConnectionInv'
  BY <1>15 DEF CloseCounted, connect_total_count_sub
<1>16. QED
  BY <1>1, <1>2, <1>3, <1>4, <1>5, <1>6, <1>7, <1>8, <1>9, <1>10, <1>11, <1>12, <1>13, <1>14, <1>15
     DEF MainThread, Scan, Events

\* A step of a peer, of the clock or of a worker keeps ConnectionInv.
LEMMA OtherInv ==
  ASSUME TypeInv, ConnectionInv, Peer \/ (\E i \in Slots : Age(i)) \/ WorkerTakes
  PROVE  ConnectionInv'
<1> USE NoFdAssumption
    DEF ConnectionInv, AcceptOK, EventsOK, RegisteredOK, NoFdLeak, Closing, Matching, Occupied,
        TypeInv, TypeOK, table, kernel, accepting, main, past
<1>1. ASSUME NEW f \in Fds, NEW s \in SockState \ {"closed"}, sock[f] # "closed", Arrives(f, s)
      PROVE  ConnectionInv'
  BY <1>1 DEF Arrives
<1>2. CASE Peer
  BY <1>1, <1>2 DEF Peer, PeerSends, PeerCloses, PeerResets, SocketError, SockState, Readable
<1>3. ASSUME NEW i \in Slots, Age(i)
      PROVE  ConnectionInv'
  BY <1>3 DEF Age
<1>4. CASE WorkerTakes
  BY <1>4 DEF WorkerTakes
<1>5. QED
  BY <1>2, <1>3, <1>4

\* Which descriptor each thread may name, and which slots and registrations go with it.
THEOREM ConnectionInvariant == Spec => []ConnectionInv
<1>1. Init => ConnectionInv
  BY NoFdAssumption
     DEF Init, ConnectionInv, AcceptOK, EventsOK, RegisteredOK, NoFdLeak, Closing, Matching
<1>2. TypeInv /\ ConnectionInv /\ [Next]_vars => ConnectionInv'
  <2>1. ASSUME ConnectionInv, UNCHANGED vars
        PROVE  ConnectionInv'
    BY <2>1 DEF vars, ConnectionInv, AcceptOK, EventsOK, RegisteredOK, NoFdLeak, Closing,
                Matching, Occupied
  <2>2. QED
    BY <2>1, AcceptThreadInv, MainThreadInv, OtherInv DEF Next
<1>3. QED
  BY <1>1, <1>2, TypeInvariant, PTL DEF Spec

\* Every event epoll_wait has returned finds its slot and its open descriptor, whatever the
\* accept thread does meanwhile (g_net_update.c:676-692).
THEOREM EventsHaveSlots == Spec => []EventHasSlot
<1>1. TypeInv /\ ConnectionInv => EventHasSlot
  BY DEF ConnectionInv, EventsOK, RegisteredOK, EventHasSlot, Closing, TypeInv, TypeOK
<1>2. QED
  BY <1>1, TypeInvariant, ConnectionInvariant, PTL

\* No event of an edge-triggered descriptor is lost, whatever arrives while the main thread
\* scans, reads and closes (g_net_update.c:233, 652-735).
THEOREM EdgesNotLost == Spec => []NoLostEdge
<1>1. Init => NoLostEdge
  BY DEF Init, NoLostEdge
<1>2. TypeInv /\ ConnectionInv /\ NoLostEdge /\ [Next]_vars => NoLostEdge'
  <2> SUFFICES ASSUME TypeInv, ConnectionInv, NoLostEdge, [Next]_vars
               PROVE  NoLostEdge'
    OBVIOUS
  <2> USE DEF NoLostEdge, TypeInv, TypeOK, table, kernel, accepting, main, past
  <2>1. CASE AcceptThread
    <3>1. ASSUME NEW f \in Fds, Accept(f)
          PROVE  NoLostEdge'
      BY <3>1 DEF Accept
    <3>2. CASE PickSlot \/ InitSlot \/ CountAdd
      BY <3>2 DEF PickSlot, InitSlot, CountAdd
    <3>3. CASE RejectNoSlot \/ SetupFails \/ CtlAddFails
      BY <3>3 DEF RejectNoSlot, SetupFails, CtlAddFails, closesocket
    <3>4. CASE CtlAdd
      BY <3>4 DEF CtlAdd
    <3>5. QED
      BY <2>1, <3>1, <3>2, <3>3, <3>4 DEF AcceptThread
  <2>2. CASE Scan
    <3>1. CASE ScanStart \/ ScanNext \/ ScanEnd \/ DeleteJobs \/ SubJobs
      BY <3>1 DEF ScanStart, ScanNext, ScanEnd, DeleteJobs, SubJobs
    <3>2. CASE ScanFree
      BY <3>2 DEF ScanFree
    <3>3. CASE ScanSub
      BY <3>3 DEF ScanSub
    <3>4. CASE ScanClose
      BY <3>4 DEF ScanClose, closesocket
    <3>5. QED
      BY <2>2, <3>1, <3>2, <3>3, <3>4 DEF Scan
  <2>3. CASE Events
    <3>1. CASE SkipScan \/ EventsEnd \/ EventFree
      BY <3>1 DEF SkipScan, EventsEnd, EventFree
    <3>2. CASE EpollWait
      BY <3>2 DEF EpollWait, EventOf, ConnectionInv, EventsOK
    <3>3. CASE EventClose
      BY <3>3 DEF EventClose, closesocket
    <3>4. ASSUME NEW f \in Fds, Read(f)
          PROVE  NoLostEdge'
      BY <3>4 DEF Read
    <3>5. ASSUME NEW f \in Fds, CloseCounted(f)
          PROVE  NoLostEdge'
      BY <3>5 DEF CloseCounted
    <3>6. QED
      BY <2>3, <3>1, <3>2, <3>3, <3>4, <3>5 DEF Events
  <2>4. CASE Peer
    <3>1. ASSUME NEW f \in Fds, NEW s, Arrives(f, s)
          PROVE  NoLostEdge'
      BY <3>1 DEF Arrives
    <3>2. QED
      BY <2>4, <3>1 DEF Peer, PeerSends, PeerCloses, PeerResets, SocketError
  <2>5. CASE (\E i \in Slots : Age(i)) \/ WorkerTakes
    BY <2>5 DEF Age, WorkerTakes
  <2>6. CASE UNCHANGED vars
    BY <2>6 DEF vars
  <2>7. QED
    BY <2>1, <2>2, <2>3, <2>4, <2>5, <2>6 DEF Next, MainThread
<1>3. QED
  BY <1>1, <1>2, TypeInvariant, ConnectionInvariant, PTL DEF Spec

\* No descriptor leaks, even after a failed EPOLL_CTL_ADD.
THEOREM NoDescriptorLeaks == Spec => []NoFdLeak
<1>1. ConnectionInv => NoFdLeak
  BY DEF ConnectionInv
<1>2. QED
  BY <1>1, ConnectionInvariant, PTL

(***************************************************************************)
(* One slot for each descriptor.                                           *)
(***************************************************************************)

\* OneSlotPerFd with what makes it inductive: a descriptor on its way into the table, or out
\* of it, is open and in no slot, and it is not the same one.
SlotsInv ==
    addFailed = 0 =>
      /\ \A i \in Occupied :
           /\ sock[connect_fd[i]] # "closed"
           /\ \A j \in Occupied : connect_fd[i] = connect_fd[j] => i = j
      /\ mpc \in {"scan_sub", "scan_close", "ev_close"} =>
           sock[mfd] # "closed" /\ Matching(mfd) = {}
      /\ apc \in {"pick", "setup"} =>
           /\ sock[afd] # "closed" /\ Matching(afd) = {}
           /\ mpc \in {"scan_sub", "scan_close", "ev_close"} => afd # mfd

\* A step of the accept thread keeps SlotsInv (accept_thread).
LEMMA AcceptThreadOneSlot ==
  ASSUME TypeInv, ConnectionInv, SlotsInv, AcceptThread
  PROVE  SlotsInv'
<1> USE NoFdAssumption
    DEF SlotsInv, ConnectionInv, AcceptOK, EventsOK, Matching, Occupied, TypeInv, TypeOK,
        table, kernel, accepting, main, past
<1>1. ASSUME NEW f \in Fds, Accept(f)
      PROVE  SlotsInv'
  BY <1>1 DEF Accept
<1>2. CASE PickSlot
  BY <1>2 DEF PickSlot
<1>3. CASE RejectNoSlot \/ SetupFails
  BY <1>3 DEF RejectNoSlot, SetupFails, closesocket
<1>4. CASE InitSlot
  BY <1>4 DEF InitSlot
<1>5. CASE CtlAdd \/ CountAdd
  BY <1>5 DEF CtlAdd, CountAdd
<1>6. CASE CtlAddFails
  BY <1>6 DEF CtlAddFails
<1>7. QED
  BY <1>1, <1>2, <1>3, <1>4, <1>5, <1>6 DEF AcceptThread

\* A step of the main thread keeps SlotsInv (main, recycle_timeout_confd).
LEMMA MainThreadOneSlot ==
  ASSUME TypeInv, ConnectionInv, SlotsInv, MainThread
  PROVE  SlotsInv'
<1> USE NoFdAssumption
    DEF SlotsInv, Matching, Occupied, TypeInv, TypeOK, table, kernel, accepting, main, past
<1>1. CASE ScanStart \/ ScanNext \/ ScanEnd \/ DeleteJobs \/ SubJobs
  BY <1>1 DEF ScanStart, ScanNext, ScanEnd, DeleteJobs, SubJobs
<1>2. CASE ScanFree
  BY <1>2 DEF ScanFree, free_event_by_index
<1>3. CASE ScanSub
  BY <1>3 DEF ScanSub
<1>4. CASE ScanClose
  BY <1>4 DEF ScanClose, closesocket
<1>5. CASE SkipScan \/ EpollWait \/ EventsEnd
  BY <1>5 DEF SkipScan, EpollWait, EventsEnd
<1>6. CASE EventFree
  <2> DEFINE i == get_matched_event_index_by_fd(mfd)
  <2>1. i \in Slots /\ connect_fd[i] = mfd
    <3>1. Matching(mfd) \subseteq Slots /\ Matching(mfd) # {}
      BY <1>6 DEF EventFree, ConnectionInv, EventsOK
    <3>2. FirstOf(Matching(mfd)) \in Matching(mfd)
      BY ONLY <3>1, FirstOfFinds
    <3>3. QED
      BY <3>2 DEF get_matched_event_index_by_fd
  <2> HIDE DEF i
  <2>2. connect_fd' = [connect_fd EXCEPT ![i] = NoFd]
    BY <1>6, <2>1 DEF EventFree, free_event_by_index, i
  <2>3. /\ mpc = "ev_free" /\ mpc' = "ev_close"
        /\ UNCHANGED <<sock, apc, afd, mfd, addFailed>>
    BY <1>6 DEF EventFree
  <2>4. mfd \in Fds /\ mfd \in epolled /\ sock[mfd] # "closed"
    BY <2>3 DEF ConnectionInv, EventsOK, RegisteredOK
  <2>5. apc \in {"pick", "setup"} => afd # mfd
    BY <2>4 DEF ConnectionInv, AcceptOK
  <2>6. addFailed = 0 => Matching(mfd)' = {}
    BY <2>1, <2>2, <2>3, <2>4
  <2>7. QED
    BY <2>1, <2>2, <2>3, <2>4, <2>5, <2>6
<1>7. CASE EventClose
  BY <1>7 DEF EventClose, closesocket
<1>8. ASSUME NEW f \in Fds, Read(f) \/ CloseCounted(f)
      PROVE  SlotsInv'
  BY <1>8 DEF Read, CloseCounted
<1>9. QED
  BY <1>1, <1>2, <1>3, <1>4, <1>5, <1>6, <1>7, <1>8 DEF MainThread, Scan, Events

\* A step of a peer, of the clock or of a worker keeps SlotsInv.
LEMMA OtherOneSlot ==
  ASSUME TypeInv, SlotsInv, Peer \/ (\E i \in Slots : Age(i)) \/ WorkerTakes
  PROVE  SlotsInv'
<1> USE DEF SlotsInv, Matching, Occupied, TypeInv, TypeOK, table, kernel, accepting, main, past
<1>1. ASSUME NEW f \in Fds, NEW s \in SockState \ {"closed"}, Arrives(f, s)
      PROVE  SlotsInv'
  BY <1>1 DEF Arrives
<1>2. CASE Peer
  BY <1>1, <1>2 DEF Peer, PeerSends, PeerCloses, PeerResets, SocketError, SockState, Readable
<1>3. CASE (\E i \in Slots : Age(i)) \/ WorkerTakes
  BY <1>3 DEF Age, WorkerTakes
<1>4. QED
  BY <1>2, <1>3

\* As long as no registration has failed, a slot holds an open descriptor of its own, so that
\* neither scan nor event closes another client's connection (g_net_update.c:505-526, 700-733).
THEOREM SlotsAreDistinct == Spec => []OneSlotPerFd
<1>1. Init => SlotsInv
  BY DEF Init, SlotsInv, Occupied
<1>2. TypeInv /\ ConnectionInv /\ SlotsInv /\ [Next]_vars => SlotsInv'
  <2>1. ASSUME SlotsInv, UNCHANGED vars
        PROVE  SlotsInv'
    BY <2>1 DEF vars, SlotsInv, Matching, Occupied
  <2>2. QED
    BY <2>1, AcceptThreadOneSlot, MainThreadOneSlot, OtherOneSlot DEF Next
<1>3. SlotsInv => OneSlotPerFd
  BY DEF SlotsInv, OneSlotPerFd, Matching, Occupied
<1>4. QED
  BY <1>1, <1>2, <1>3, TypeInvariant, ConnectionInvariant, PTL DEF Spec

(***************************************************************************)
(* The connection counter.                                                 *)
(***************************************************************************)

\* The table has MaxEvents slots, finitely many of them occupied.
LEMMA OccupiedFinite ==
  /\ IsFiniteSet(Occupied) /\ Cardinality(Occupied) \in Nat
  /\ IsFiniteSet(Slots) /\ Cardinality(Slots) = MaxEvents
  /\ Occupied \in SUBSET Slots
<1>1. IsFiniteSet(Slots) /\ Cardinality(Slots) = MaxEvents
  BY MaxEventsAssumption, FS_Interval DEF Slots
<1>2. Occupied \in SUBSET Slots
  BY DEF Occupied
<1>3. QED
  BY <1>1, <1>2, FS_Subset, FS_CardinalityType

\* Every step keeps the law of the counter.  The three steps that change the table change
\* it by one slot; in the others the counter, the windows of the two threads and the two
\* leaks balance.
LEMMA NextKeepsCount ==
  ASSUME TypeInv, ConnectionInv, CountLaw, Next
  PROVE  CountLaw'
<1> DEFINE n == Cardinality(Occupied)
<1>1. /\ IsFiniteSet(Occupied) /\ n \in Nat
      /\ current_connected_total \in Int /\ addFailed \in Nat /\ dropped \in Nat
      /\ deleted \in Nat
  BY OccupiedFinite DEF TypeInv, TypeOK
<1>2. connect_fd' = connect_fd => Cardinality(Occupied') = n
  BY DEF Occupied
<1> HIDE DEF n
<1>3. /\ current_connected_total + addFailed + dropped =
           n + One(mpc = "scan_sub") - One(apc \in {"ctl", "count"}) - One(mpc = "ev_free")
  BY DEF CountLaw, n
<1> USE DEF One, CountLaw, table, kernel, accepting, main, past
<1>4. CASE AcceptThread
  <2>1. CASE InitSlot
    <3>1. aslot \in Slots \ Occupied /\ afd # NoFd
      BY <2>1, NoFdAssumption DEF InitSlot, ConnectionInv, AcceptOK
    <3>2. Occupied' = Occupied \cup {aslot}
      BY <2>1, <3>1 DEF InitSlot, Occupied, TypeInv, TypeOK
    <3>3. Cardinality(Occupied') = n + 1
      BY <1>1, <3>1, <3>2, FS_AddElement DEF n
    <3>4. QED
      BY <1>1, <1>3, <2>1, <3>3 DEF InitSlot
  <2>2. ASSUME NEW f \in Fds, Accept(f)
        PROVE  CountLaw'
    BY <1>1, <1>2, <1>3, <2>2 DEF Accept
  <2>3. CASE PickSlot \/ RejectNoSlot \/ SetupFails
    BY <1>1, <1>2, <1>3, <2>3 DEF PickSlot, RejectNoSlot, SetupFails
  <2>4. CASE CtlAdd \/ CtlAddFails \/ CountAdd
    BY <1>1, <1>2, <1>3, <2>4 DEF CtlAdd, CtlAddFails, CountAdd
  <2>5. QED
    BY <1>4, <2>1, <2>2, <2>3, <2>4 DEF AcceptThread
<1>5. CASE Scan
  <2>1. CASE ScanFree
    <3>1. mslot \in Occupied
      BY <2>1 DEF ScanFree
    <3>2. Occupied' = Occupied \ {mslot}
      BY <2>1, <3>1 DEF ScanFree, free_event_by_index, Occupied, TypeInv, TypeOK
    <3>3. Cardinality(Occupied') = n - 1
      BY <1>1, <3>1, <3>2, FS_RemoveElement DEF n
    <3>4. QED
      BY <1>1, <1>3, <2>1, <3>3 DEF ScanFree
  <2>2. CASE ScanStart \/ ScanNext \/ ScanClose \/ ScanEnd \/ DeleteJobs
    BY <1>1, <1>2, <1>3, <2>2 DEF ScanStart, ScanNext, ScanClose, ScanEnd, DeleteJobs
  <2>3. CASE ScanSub \/ SubJobs
    BY <1>1, <1>2, <1>3, <2>3 DEF ScanSub, SubJobs, connect_total_count_sub
  <2>4. QED
    BY <1>5, <2>1, <2>2, <2>3 DEF Scan
<1>6. CASE Events
  <2>1. CASE EventFree
    <3>1. /\ Matching(mfd) \subseteq Slots /\ Matching(mfd) # {} /\ mfd # NoFd
      BY <2>1, NoFdAssumption
         DEF EventFree, Matching, ConnectionInv, EventsOK, TypeInv, TypeOK
    <3>2. get_matched_event_index_by_fd(mfd) \in Matching(mfd)
      BY <3>1, FirstOfFinds DEF get_matched_event_index_by_fd
    <3>3. PICK i \in Occupied : connect_fd' = [connect_fd EXCEPT ![i] = NoFd]
      BY <2>1, <3>1, <3>2 DEF EventFree, free_event_by_index, Matching, Occupied
    <3>4. Occupied' = Occupied \ {i}
      BY <3>3 DEF Occupied, TypeInv, TypeOK
    <3>5. Cardinality(Occupied') = n - 1
      BY <1>1, <3>4, FS_RemoveElement DEF n
    <3>6. QED
      BY <1>1, <1>3, <2>1, <3>5 DEF EventFree
  <2>2. CASE SkipScan \/ EpollWait \/ EventsEnd \/ EventClose
    BY <1>1, <1>2, <1>3, <2>2 DEF SkipScan, EpollWait, EventsEnd, EventClose
  <2>3. ASSUME NEW f \in Fds, Read(f) \/ CloseCounted(f)
        PROVE  CountLaw'
    BY <1>1, <1>2, <1>3, <2>3 DEF Read, CloseCounted, connect_total_count_sub
  <2>4. QED
    BY <1>6, <2>1, <2>2, <2>3 DEF Events
<1>7. CASE Peer \/ (\E i \in Slots : Age(i)) \/ WorkerTakes
  BY <1>1, <1>2, <1>3, <1>7
     DEF Peer, PeerSends, PeerCloses, PeerResets, SocketError, Arrives, Age, WorkerTakes
<1>8. QED
  BY <1>4, <1>5, <1>6, <1>7 DEF Next, MainThread

\* current_connected_total is the number of occupied slots up to the threads' windows, the
\* failed registrations and the deleted jobs.
THEOREM CounterLaw == Spec => []CountLaw
<1>1. Init => CountLaw
  <2>1. Init => Occupied = {}
    BY DEF Init, Occupied
  <2>2. QED
    BY <2>1, FS_EmptySet DEF Init, CountLaw, One
<1>2. TypeInv /\ ConnectionInv /\ CountLaw /\ [Next]_vars => CountLaw'
  <2>1. ASSUME CountLaw, UNCHANGED vars
        PROVE  CountLaw'
    BY <2>1 DEF vars, CountLaw, Occupied
  <2>2. QED
    BY <2>1, NextKeepsCount
<1>3. QED
  BY <1>1, <1>2, TypeInvariant, ConnectionInvariant, PTL DEF Spec

(***************************************************************************)
(* Slots and descriptors.                                                  *)
(***************************************************************************)

\* There are no more settled descriptors than descriptors.
LEMMA SettledFinite ==
  /\ IsFiniteSet(Settled) /\ Cardinality(Settled) \in Nat
  /\ Cardinality(Settled) <= Cardinality(Fds)
  /\ Cardinality(Fds) \in Nat
<1>1. Settled \in SUBSET Fds
  BY DEF Settled
<1>2. QED
  BY <1>1, FdsAssumption, FS_Subset, FS_CardinalityType

\* Closing one descriptor settles at most one less.
LEMMA RemoveOne ==
  ASSUME NEW S, IsFiniteSet(S), NEW x
  PROVE  Cardinality(S \ {x}) \in Nat /\ Cardinality(S \ {x}) >= Cardinality(S) - 1
<1>1. Cardinality(S) \in Nat
  BY FS_CardinalityType
<1>2. CASE x \in S
  <2>1. IsFiniteSet(S \ {x}) /\ Cardinality(S \ {x}) = Cardinality(S) - 1
    BY <1>2, FS_RemoveElement
  <2>2. Cardinality(S \ {x}) \in Nat
    BY <2>1, FS_CardinalityType
  <2>3. QED
    BY <1>1, <2>1, <2>2
<1>3. CASE x \notin S
  <2>1. S \ {x} = S
    BY <1>3
  <2>2. QED
    BY <1>1, <2>1
<1>4. QED
  BY <1>2, <1>3

\* A step that keeps the table, the settled descriptors, and the windows in which the main
\* thread closes a descriptor and the accept thread sets one up, keeps SlotLaw.
LEMMA SlotLawUnchanged ==
  ASSUME SlotLaw, connect_fd' = connect_fd, addFailed' = addFailed, Settled' = Settled,
         mpc' \in {"scan_sub", "scan_close", "ev_close"} =>
           mpc \in {"scan_sub", "scan_close", "ev_close"},
         apc' \in {"pick", "setup"} /\ sock'[afd'] = "closed" =>
           apc \in {"pick", "setup"} /\ sock[afd] = "closed",
         addFailed \in Nat
  PROVE  SlotLaw'
<1> DEFINE n == Cardinality(Occupied)
           s == Cardinality(Settled)
<1>1. Cardinality(Occupied') = n /\ Cardinality(Settled') = s
  BY DEF Occupied
<1>2. n \in Nat /\ s \in Nat
  BY OccupiedFinite, SettledFinite
<1>3. n + One(mpc \in {"scan_sub", "scan_close", "ev_close"})
        + One(apc \in {"pick", "setup"} /\ sock[afd] = "closed") <= s + addFailed
  BY DEF SlotLaw
<1> HIDE DEF n, s
<1>4. QED
  BY <1>1, <1>2, <1>3 DEF SlotLaw, One

\* Every step of the accept thread keeps SlotLaw: a slot is taken for a descriptor that
\* settles, or for one the scan has closed meanwhile.
LEMMA AcceptThreadSlots ==
  ASSUME TypeInv, ConnectionInv, SlotLaw, AcceptThread
  PROVE  SlotLaw'
<1> USE DEF table, kernel, accepting, main, past, TypeInv, TypeOK
<1> DEFINE n == Cardinality(Occupied)
           s == Cardinality(Settled)
<1>1. n \in Nat /\ s \in Nat /\ addFailed \in Nat /\ IsFiniteSet(Occupied) /\ IsFiniteSet(Settled)
  BY OccupiedFinite, SettledFinite
<1>2. n + One(mpc \in {"scan_sub", "scan_close", "ev_close"})
        + One(apc \in {"pick", "setup"} /\ sock[afd] = "closed") <= s + addFailed
  BY DEF SlotLaw
<1>3. ASSUME NEW f \in Fds, Accept(f)
      PROVE  SlotLaw'
  <2>1. Settled' = Settled
    BY <1>3 DEF Accept, Settled
  <2>2. sock'[afd'] # "closed"
    BY <1>3 DEF Accept
  <2>3. QED
    BY <1>3, <2>1, <2>2, SlotLawUnchanged DEF Accept
<1>4. CASE PickSlot
  <2>1. Settled' = Settled
    BY <1>4 DEF PickSlot, Settled
  <2>2. QED
    BY <1>4, <2>1, SlotLawUnchanged DEF PickSlot
<1>5. CASE RejectNoSlot \/ SetupFails
  <2>1. Settled' = Settled
    BY <1>5, NoFdAssumption DEF RejectNoSlot, SetupFails, closesocket, Settled
  <2>2. QED
    BY <1>5, <2>1, SlotLawUnchanged DEF RejectNoSlot, SetupFails
<1>6. CASE InitSlot
  <2>1. aslot \in Slots \ Occupied /\ afd \in Fds /\ afd # NoFd /\ apc = "setup" /\ apc' = "ctl"
    BY <1>6, NoFdAssumption DEF InitSlot, ConnectionInv, AcceptOK
  <2>2. Occupied' = Occupied \cup {aslot}
    BY <1>6, <2>1 DEF InitSlot, Occupied
  <2>3. Cardinality(Occupied') = n + 1
    BY <1>1, <2>1, <2>2, FS_AddElement
  <2>4. CASE sock[afd] = "closed"
    <3>1. Settled' = Settled
      BY <1>6, <2>1, <2>4 DEF InitSlot, Settled
    <3>2. Cardinality(Settled') = s
      BY <3>1
    <3> HIDE DEF n, s
    <3>3. QED
      BY <1>1, <1>2, <1>6, <2>1, <2>3, <2>4, <3>2 DEF InitSlot, SlotLaw, One
  <2>5. CASE sock[afd] # "closed"
    <3>1. Settled' = Settled \cup {afd} /\ afd \notin Settled
      BY <1>6, <2>1, <2>5 DEF InitSlot, Settled
    <3>2. Cardinality(Settled') = s + 1
      BY <1>1, <3>1, FS_AddElement
    <3> HIDE DEF n, s
    <3>3. QED
      BY <1>1, <1>2, <1>6, <2>1, <2>3, <2>5, <3>2 DEF InitSlot, SlotLaw, One
  <2>6. QED
    BY <2>4, <2>5
<1>7. CASE CtlAdd \/ CountAdd
  <2>1. Settled' = Settled
    BY <1>7 DEF CtlAdd, CountAdd, Settled
  <2>2. QED
    BY <1>7, <2>1, SlotLawUnchanged DEF CtlAdd, CountAdd
<1>8. CASE CtlAddFails
  <2>1. Settled' = Settled \ {afd}
    BY <1>8, NoFdAssumption DEF CtlAddFails, closesocket, Settled
  <2>2. Cardinality(Settled') >= s - 1 /\ Cardinality(Settled') \in Nat
    BY <1>1, <2>1, RemoveOne
  <2>3. Cardinality(Occupied') = n
    BY <1>8 DEF CtlAddFails, Occupied
  <2> HIDE DEF n, s
  <2>4. QED
    BY <1>1, <1>2, <1>8, <2>2, <2>3 DEF CtlAddFails, SlotLaw, One
<1>9. QED
  BY <1>3, <1>4, <1>5, <1>6, <1>7, <1>8 DEF AcceptThread

\* Every step of the main thread keeps SlotLaw: it frees a slot before it closes the
\* descriptor that goes with it.
LEMMA MainThreadSlots ==
  ASSUME TypeInv, ConnectionInv, SlotLaw, MainThread
  PROVE  SlotLaw'
<1> USE DEF table, kernel, accepting, main, past, TypeInv, TypeOK
<1> DEFINE n == Cardinality(Occupied)
           s == Cardinality(Settled)
<1>1. n \in Nat /\ s \in Nat /\ addFailed \in Nat /\ IsFiniteSet(Occupied) /\ IsFiniteSet(Settled)
  BY OccupiedFinite, SettledFinite
<1>2. n + One(mpc \in {"scan_sub", "scan_close", "ev_close"})
        + One(apc \in {"pick", "setup"} /\ sock[afd] = "closed") <= s + addFailed
  BY DEF SlotLaw
<1>3. CASE ScanFree \/ EventFree
  <2>1. PICK i \in Occupied : connect_fd' = [connect_fd EXCEPT ![i] = NoFd]
    <3>1. CASE ScanFree
      BY <3>1 DEF ScanFree, free_event_by_index, Occupied
    <3>2. CASE EventFree
      <4>1. /\ Matching(mfd) \subseteq Slots /\ Matching(mfd) # {} /\ mfd # NoFd
        BY <3>2, NoFdAssumption DEF EventFree, Matching, ConnectionInv, EventsOK
      <4>2. get_matched_event_index_by_fd(mfd) \in Matching(mfd)
        BY <4>1, FirstOfFinds DEF get_matched_event_index_by_fd
      <4>3. QED
        BY <3>2, <4>1, <4>2 DEF EventFree, free_event_by_index, Matching, Occupied
    <3>3. QED
      BY <1>3, <3>1, <3>2
  <2>2. Occupied' = Occupied \ {i}
    BY <2>1 DEF Occupied
  <2>3. Cardinality(Occupied') = n - 1
    BY <1>1, <2>2, FS_RemoveElement
  <2>4. Settled' = Settled
    BY <1>3 DEF ScanFree, EventFree, Settled
  <2>5. Cardinality(Settled') = s
    BY <2>4
  <2> HIDE DEF n, s
  <2>6. QED
    BY <1>1, <1>2, <1>3, <2>3, <2>5 DEF ScanFree, EventFree, SlotLaw, One
<1>4. CASE ScanClose \/ EventClose
  <2>1. Settled' = Settled \ {mfd}
    BY <1>4 DEF ScanClose, EventClose, closesocket, Settled
  <2>2. Cardinality(Occupied') = n
    BY <1>4 DEF ScanClose, EventClose, Occupied
  <2>3. /\ mpc \in {"scan_sub", "scan_close", "ev_close"}
        /\ mpc' \notin {"scan_sub", "scan_close", "ev_close"}
        /\ apc' = apc /\ afd' = afd /\ addFailed' = addFailed
        /\ sock' = [sock EXCEPT ![mfd] = "closed"]
    BY <1>4 DEF ScanClose, EventClose, closesocket
  <2>4. CASE apc \in {"pick", "setup"} /\ mfd = afd
    <3>1. mfd \notin Settled
      BY <2>4 DEF Settled
    <3>2. Cardinality(Settled') = s
      <4>1. Settled' = Settled
        BY <2>1, <3>1
      <4>2. QED
        BY <4>1
    <3> HIDE DEF n, s
    <3>3. QED
      BY <1>1, <1>2, <2>2, <2>3, <2>4, <3>2 DEF SlotLaw, One
  <2>5. CASE ~(apc \in {"pick", "setup"} /\ mfd = afd)
    <3>1. Cardinality(Settled') >= s - 1 /\ Cardinality(Settled') \in Nat
      BY <1>1, <2>1, RemoveOne
    <3>2. apc \in {"pick", "setup"} => sock'[afd] = sock[afd]
      BY <2>3, <2>5
    <3> HIDE DEF n, s
    <3>3. QED
      BY <1>1, <1>2, <2>2, <2>3, <3>1, <3>2 DEF SlotLaw, One
  <2>6. QED
    BY <2>4, <2>5
<1>5. ASSUME NEW f \in Fds, Read(f)
      PROVE  SlotLaw'
  <2>1. /\ Settled' = Settled
        /\ sock'[afd] = "closed" => sock[afd] = "closed"
    BY <1>5 DEF Read, Settled
  <2>2. QED
    BY <1>5, <2>1, SlotLawUnchanged DEF Read
<1>6. CASE ScanStart \/ ScanNext \/ ScanSub \/ ScanEnd \/ DeleteJobs \/ SubJobs
  <2>1. Settled' = Settled
    BY <1>6 DEF ScanStart, ScanNext, ScanSub, ScanEnd, DeleteJobs, SubJobs, Settled
  <2>2. QED
    BY <1>6, <2>1, SlotLawUnchanged
       DEF ScanStart, ScanNext, ScanSub, ScanEnd, DeleteJobs, SubJobs
<1>7. CASE SkipScan \/ EpollWait \/ EventsEnd
  <2>1. Settled' = Settled
    BY <1>7 DEF SkipScan, EpollWait, EventsEnd, Settled
  <2>2. QED
    BY <1>7, <2>1, SlotLawUnchanged DEF SkipScan, EpollWait, EventsEnd
<1>8. ASSUME NEW f \in Fds, CloseCounted(f)
      PROVE  SlotLaw'
  <2>1. Settled' = Settled
    BY <1>8 DEF CloseCounted, Settled
  <2>2. QED
    BY <1>8, <2>1, SlotLawUnchanged DEF CloseCounted
<1>9. QED
  BY <1>3, <1>4, <1>5, <1>6, <1>7, <1>8 DEF MainThread, Scan, Events

\* A step of a peer, of the clock or of a worker keeps SlotLaw.
LEMMA OtherSlots ==
  ASSUME TypeInv, SlotLaw, Peer \/ (\E i \in Slots : Age(i)) \/ WorkerTakes
  PROVE  SlotLaw'
<1> USE DEF table, kernel, accepting, main, past, TypeInv, TypeOK
<1>1. ASSUME NEW f \in Fds, NEW s \in SockState \ {"closed"}, sock[f] # "closed", Arrives(f, s)
      PROVE  SlotLaw'
  <2>1. /\ Settled' = Settled
        /\ sock'[afd] = "closed" => sock[afd] = "closed"
    BY <1>1 DEF Arrives, Settled
  <2>2. QED
    BY <1>1, <2>1, SlotLawUnchanged DEF Arrives
<1>2. CASE Peer
  BY <1>1, <1>2 DEF Peer, PeerSends, PeerCloses, PeerResets, SocketError, SockState, Readable
<1>3. CASE (\E i \in Slots : Age(i)) \/ WorkerTakes
  <2>1. Settled' = Settled
    BY <1>3 DEF Age, WorkerTakes, Settled
  <2>2. QED
    BY <1>3, <2>1, SlotLawUnchanged DEF Age, WorkerTakes
<1>4. QED
  BY <1>2, <1>3

\* A slot goes with an open descriptor or was left by a failed registration.
THEOREM SlotLawInvariant == Spec => []SlotLaw
<1>1. Init => SlotLaw
  <2> SUFFICES ASSUME Init
               PROVE  SlotLaw
    OBVIOUS
  <2>1. Occupied = {} /\ Settled = {}
    BY DEF Init, Occupied, Settled
  <2>2. Cardinality(Occupied) = 0 /\ Cardinality(Settled) = 0
    BY <2>1, FS_EmptySet
  <2>3. QED
    BY <2>2 DEF Init, SlotLaw, One
<1>2. TypeInv /\ ConnectionInv /\ SlotLaw /\ [Next]_vars => SlotLaw'
  <2>1. ASSUME TypeInv, SlotLaw, UNCHANGED vars
        PROVE  SlotLaw'
    <3>1. Settled' = Settled
      BY <2>1 DEF vars, Settled
    <3>2. QED
      BY <2>1, <3>1, SlotLawUnchanged DEF vars, TypeInv, TypeOK
  <2>2. QED
    BY <2>1, AcceptThreadSlots, MainThreadSlots, OtherSlots DEF Next
<1>3. QED
  BY <1>1, <1>2, TypeInvariant, ConnectionInvariant, PTL DEF Spec

\* The counter stays below MAX_EVENTS, however many registrations have failed and jobs have
\* been deleted: the sleep of the accept thread (g_net_update.c:189-194) is dead code.
THEOREM AcceptNeverThrottled == Spec => []NeverThrottled
<1>1. TypeInv /\ CountLaw /\ SlotLaw => NeverThrottled
  <2> SUFFICES ASSUME TypeInv, CountLaw, SlotLaw
               PROVE  NeverThrottled
    OBVIOUS
  <2>1. current_connected_total \in Int /\ addFailed \in Nat /\ dropped \in Nat
    BY DEF TypeInv, TypeOK
  <2>2. QED
    BY <2>1, OccupiedFinite, SettledFinite, FdsAssumption, MaxEventsAssumption
       DEF CountLaw, SlotLaw, NeverThrottled, One
<1>2. QED
  BY <1>1, TypeInvariant, CounterLaw, SlotLawInvariant, PTL

\* A client is refused for want of a slot only after two registrations have failed
\* (g_net_update.c:197-206).
THEOREM RefusalNeedsFailures == Spec => []RefusedOnlyAfterFailures
<1>1. TypeInv /\ SlotLaw => RefusedOnlyAfterFailures
  <2> SUFFICES ASSUME TypeInv, SlotLaw, apc = "pick", Occupied = Slots
               PROVE  addFailed >= 2
    BY DEF RefusedOnlyAfterFailures
  <2>1. afd \in Fds /\ addFailed \in Nat
    BY DEF TypeInv, TypeOK
  <2>2. Settled \in SUBSET (Fds \ {afd})
    BY DEF Settled
  <2>3. /\ IsFiniteSet(Fds \ {afd}) /\ Cardinality(Fds \ {afd}) = Cardinality(Fds) - 1
        /\ Cardinality(Fds) \in Nat
    BY <2>1, FdsAssumption, FS_RemoveElement, FS_CardinalityType
  <2>4. Cardinality(Settled) <= Cardinality(Fds) - 1 /\ Cardinality(Settled) \in Nat
    BY <2>2, <2>3, SettledFinite, FS_Subset
  <2>5. Cardinality(Occupied) = MaxEvents
    BY OccupiedFinite
  <2>6. QED
    BY <2>1, <2>3, <2>4, <2>5, FdsAssumption, MaxEventsAssumption DEF SlotLaw, One
<1>2. QED
  BY <1>1, TypeInvariant, SlotLawInvariant, PTL

\* Each registered descriptor has a slot of its own, between two connections.
LEMMA RegisteredHaveSlots ==
  ASSUME TypeInv, RegisteredOK, \A f \in Fds : ~Closing(f)
  PROVE  Cardinality(epolled) <= Cardinality(Occupied) /\ Cardinality(epolled) \in Nat
<1> DEFINE T == {connect_fd[i] : i \in Occupied}
           g == [i \in Occupied |-> connect_fd[i]]
<1>1. epolled \subseteq Fds /\ T \subseteq Fds
  BY DEF TypeInv, TypeOK, Occupied
<1>2. epolled \subseteq T
  <2> SUFFICES ASSUME NEW f \in epolled PROVE f \in T
    OBVIOUS
  <2>1. Matching(f) # {} /\ f # NoFd
    BY <1>1, NoFdAssumption DEF RegisteredOK
  <2> QED BY <2>1 DEF Matching, Occupied
<1>3. g \in Surjection(Occupied, T)
  BY DEF Surjection
<1>4. IsFiniteSet(T) /\ Cardinality(T) <= Cardinality(Occupied)
  <2> HIDE DEF T, g
  <2> QED BY <1>3, OccupiedFinite, FS_Surjection
<1>5. Cardinality(T) \in Nat /\ Cardinality(epolled) \in Nat /\ Cardinality(epolled) <= Cardinality(T)
  BY <1>2, <1>4, FS_Subset, FS_CardinalityType
<1> QED BY <1>4, <1>5, OccupiedFinite

\* The counter drifts from the number of connections only through failed registrations and
\* deleted jobs, and only down (g_net_update.c:234, 529).
THEOREM CounterOnlyDriftsDown == Spec => []CounterDrift
<1>1. TypeInv /\ ConnectionInv /\ CountLaw /\ SlotLaw => CounterDrift
  <2> SUFFICES ASSUME TypeInv, ConnectionInv, CountLaw, SlotLaw, apc = "accept",
                      mpc \notin {"scan_sub", "scan_close", "ev_free", "ev_close"}
               PROVE  current_connected_total \in
                        (Cardinality(epolled) - dropped - addFailed)..(Cardinality(epolled) - dropped)
    BY DEF CounterDrift
  <2>1. /\ current_connected_total \in Int /\ addFailed \in Nat /\ dropped \in Nat
        /\ epolled \subseteq Fds
    BY DEF TypeInv, TypeOK
  <2>2. \A f \in Fds : ~Closing(f)
    BY DEF Closing
  <2>3. Cardinality(epolled) <= Cardinality(Occupied) /\ Cardinality(epolled) \in Nat
    BY <2>2, RegisteredHaveSlots DEF ConnectionInv
  <2>4. Settled \subseteq epolled
    <3>1. afd \notin Fds
      BY NoFdAssumption DEF ConnectionInv, AcceptOK
    <3> QED BY <2>2, <3>1 DEF Settled, ConnectionInv, NoFdLeak
  <2>5. Cardinality(Settled) <= Cardinality(epolled)
    BY <2>1, <2>4, FdsAssumption, FS_Subset
  <2>6. current_connected_total + addFailed + dropped = Cardinality(Occupied)
    BY <2>1, OccupiedFinite DEF CountLaw, One
  <2>7. Cardinality(Occupied) <= Cardinality(Settled) + addFailed
    BY <2>1, OccupiedFinite, SettledFinite DEF SlotLaw, One
  <2> QED BY <2>1, <2>3, <2>5, <2>6, <2>7, OccupiedFinite, SettledFinite
<1>2. QED
  BY <1>1, TypeInvariant, ConnectionInvariant, CounterLaw, SlotLawInvariant, PTL
=============================================================================
