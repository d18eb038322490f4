------------------------------ MODULE Shutdown ------------------------------
(***************************************************************************)
(* The life of the server of g_net_update.c: main from config.ini to the   *)
(* end of the process, the accept thread from its socket to its return,    *)
(* the workers, and a kill signal with its handler.                        *)
(*                                                                         *)
(* The handler is a thread of its own that suspends the thread it runs in, *)
(* its victim, until it returns: whatever the victim holds, it keeps.      *)
(*                                                                         *)
(* A line of the log is one part here: the mutex, the write, the mutex     *)
(* released.  Log has both parts, and the file that starts afresh.  The    *)
(* connections the handler closes are those of Connections.  Of the queue  *)
(* of ThreadPool there is its mutex, which a worker that wakes to an empty *)
(* queue keeps, and whether a scan has deleted jobs, which is how a worker *)
(* comes to wake to an empty queue.                                        *)
(***************************************************************************)
EXTENDS Config, FiniteSets

CONSTANTS Main, Acceptor, Workers, Handler, NoThread, NoFile

Threads == {Main, Acceptor, Handler} \cup Workers

ASSUME ThreadsDiffer ==
    /\ Main # Acceptor /\ Main # Handler /\ Acceptor # Handler
    /\ Workers \cap {Main, Acceptor, Handler} = {} /\ NoThread \notin Threads

VARIABLES
    layout,             \* config.ini as main finds it, until it has been read
    pc,
    lpc,                \* each thread, in the line it logs
    log_mutex, log_open,
    listen_fd,          \* the variable is not -1
    listening,          \* the socket: "none", "open", "closed"
    exit_flag, exit_accept_flag, thpool_keepalive,
    swept,              \* a scan has deleted jobs, and left their tokens in queueSem
    victim,             \* the thread the handler runs in
    crashed,            \* a line was written to the closed file
    closes,             \* history: how often the number of the socket was closed
    early               \* history: the handler found no socket to close

log == <<lpc, log_mutex, log_open, crashed>>
sock == <<listen_fd, listening, closes>>
flags == <<exit_flag, exit_accept_flag, thpool_keepalive, swept>>
vars == <<layout, pc, log, sock, flags, victim, early>>

Init ==
    /\ layout \in Layouts \cup {NoFile}
    /\ pc = [t \in Threads |-> CASE t = Main -> "config" [] t = Handler -> "unregistered"
                                 [] OTHER -> "none"]
    /\ lpc = [t \in Threads |-> "idle"] /\ log_mutex = NoThread /\ log_open = FALSE
    /\ listen_fd = FALSE /\ listening = "none"
    /\ exit_flag = FALSE /\ exit_accept_flag = FALSE /\ thpool_keepalive = TRUE /\ swept = FALSE
    /\ victim = NoThread /\ crashed = FALSE /\ closes = 0 /\ early = FALSE

Ended == pc[Main] = "ended"
Runs(t) == ~Ended /\ ~crashed /\ victim # t

\* Thread t goes from one place to another, outside any line of the log.
Move(t, from, to) ==
    /\ Runs(t) /\ pc[t] = from /\ lpc[t] = "idle"
    /\ pc' = [pc EXCEPT ![t] = to]
    /\ UNCHANGED layout

Quiet == UNCHANGED log

-----------------------------------------------------------------------------
(* The log. *)

\* LOG_INFO is called; pc says where the thread goes on.
LogLine(t) ==
    /\ lpc' = [lpc EXCEPT ![t] = "lock"]
    /\ UNCHANGED <<log_mutex, log_open, crashed>>

Lock(t) ==
    /\ Runs(t) /\ lpc[t] = "lock" /\ log_mutex = NoThread
    /\ log_mutex' = t /\ lpc' = [lpc EXCEPT ![t] = "write"]
    /\ UNCHANGED <<layout, pc, log_open, crashed, sock, flags, victim, early>>

\* To a closed file the write may crash.
WriteLine(t) ==
    /\ Runs(t) /\ lpc[t] = "write"
    /\ log_mutex' = NoThread /\ lpc' = [lpc EXCEPT ![t] = "idle"]
    /\ IF log_open THEN UNCHANGED crashed ELSE crashed' \in BOOLEAN
    /\ UNCHANGED <<layout, pc, log_open, sock, flags, victim, early>>

-----------------------------------------------------------------------------
(* The listening socket is closed by whoever finds the variable set. *)

TestListen(t, next) ==
    /\ \/ listen_fd /\ Move(t, "test_listen", "close_listen")
       \/ ~listen_fd /\ Move(t, "test_listen", next)
    /\ early' = (early \/ (t = Handler /\ ~listen_fd))
    /\ Quiet /\ UNCHANGED <<sock, flags, victim>>

\* closesocket(listen_fd) closes the number the variable has, if it still has one.
CloseListen(t) ==
    /\ Move(t, "close_listen", "unset_listen")
    /\ IF listen_fd THEN listening' = "closed" /\ closes' = closes + 1
                    ELSE UNCHANGED <<listening, closes>>
    /\ Quiet /\ UNCHANGED <<listen_fd, flags, victim, early>>

\* Faulty variant: the variable keeps the number.
UnsetListenForgotten(t, next) ==
    /\ Move(t, "unset_listen", next)
    /\ Quiet /\ UNCHANGED <<sock, flags, victim, early>>

UnsetListen(t, next) ==
    /\ Move(t, "unset_listen", next)
    /\ listen_fd' = FALSE
    /\ Quiet /\ UNCHANGED <<listening, closes, flags, victim, early>>

-----------------------------------------------------------------------------
(* signal_handler_reboot, for SIGTERM. *)

\* Any live thread may be the one that is interrupted, wherever it is.
Signal(v) ==
    /\ ~Ended /\ ~crashed /\ pc[Handler] = "off"
    /\ pc[v] \notin {"none", "returned", "exited", "abandoned", "off"}
    /\ pc' = [pc EXCEPT ![Handler] = "test_listen"]
    /\ LogLine(Handler)
    /\ victim' = v
    /\ UNCHANGED <<layout, sock, flags, early>>

SetExit ==
    /\ Move(Handler, "set_exit", "set_accept")
    /\ exit_flag' = TRUE
    /\ Quiet /\ UNCHANGED <<sock, exit_accept_flag, thpool_keepalive, swept, victim, early>>

\* The handler then closes the connections and returns; its victim goes on.
SetExitAccept ==
    /\ Move(Handler, "set_accept", "handled")
    /\ exit_accept_flag' = TRUE /\ victim' = NoThread
    /\ Quiet /\ UNCHANGED <<sock, exit_flag, thpool_keepalive, swept, early>>

\* Faulty variant: exit_flag is set only if there was a socket to close.
HandleNoSocket ==
    \/ TestListen(Handler, "set_accept") \/ CloseListen(Handler)
    \/ UnsetListen(Handler, "set_exit") \/ SetExit \/ SetExitAccept

Handle == \/ TestListen(Handler, "set_exit") \/ CloseListen(Handler)
          \/ UnsetListen(Handler, "set_exit") \/ SetExit \/ SetExitAccept

-----------------------------------------------------------------------------
(* accept_thread. *)

\* socket: a failure is logged, and the thread returns.
Socket ==
    /\ \/ Move(Acceptor, "socket", "setup") /\ listen_fd' = TRUE /\ listening' = "open" /\ Quiet
       \/ Move(Acceptor, "socket", "returned") /\ UNCHANGED <<listen_fd, listening>>
          /\ LogLine(Acceptor)
    /\ UNCHANGED <<closes, flags, victim, early>>

\* Any of setsockopt and bind may fail: the thread returns and leaves the socket open.
SetUp ==
    /\ \/ Move(Acceptor, "setup", "accept_test") /\ Quiet
       \/ Move(Acceptor, "setup", "returned") /\ LogLine(Acceptor)
    /\ UNCHANGED <<sock, flags, victim, early>>

AcceptTest ==
    /\ \/ exit_accept_flag /\ Move(Acceptor, "accept_test", "test_listen")
       \/ ~exit_accept_flag /\ Move(Acceptor, "accept_test", "accept")
    /\ Quiet /\ UNCHANGED <<sock, flags, victim, early>>

\* accept returns a connection, or an error; both are logged.
Accept ==
    /\ Move(Acceptor, "accept", "accept_test")
    /\ LogLine(Acceptor)
    /\ UNCHANGED <<sock, flags, victim, early>>

AcceptorSetUp == Socket \/ SetUp \/ AcceptTest
AcceptorEnd == \/ TestListen(Acceptor, "returned") \/ CloseListen(Acceptor)
               \/ UnsetListen(Acceptor, "returned")

-----------------------------------------------------------------------------
(* A worker, and main. *)

\* The mutex of the queue: a worker that has returned with it never gives it back.
QueueFree == \A w \in Workers : pc[w] # "abandoned"

\* sem_wait returns.
Wake(w) ==
    /\ thpool_keepalive /\ Move(w, "wait", "lock")
    /\ Quiet /\ UNCHANGED <<sock, flags, victim, early>>

\* The job at the tail is removed; it logs, and the worker comes back to sem_wait.
TakeJob(w) ==
    /\ QueueFree /\ Move(w, "lock", "wait")
    /\ LogLine(w)
    /\ UNCHANGED <<sock, flags, victim, early>>

\* The queue is empty: thpool_jobqueue_removelast fails, and the worker returns with the mutex.
ReturnOnEmpty(w) ==
    /\ swept /\ QueueFree /\ Move(w, "lock", "abandoned")
    /\ Quiet /\ UNCHANGED <<sock, flags, victim, early>>

Dequeue(w) == TakeJob(w) \/ ReturnOnEmpty(w)

\* sem_wait returns, and thpool_keepalive is 0.
WorkerEnds(w) ==
    /\ ~thpool_keepalive /\ Move(w, "wait", "exited")
    /\ Quiet /\ UNCHANGED <<sock, flags, victim, early>>

(* main, up to its loop.  A signal that comes before the handler is registered ends the
   process at once and is left out. *)

File == IF layout = NoFile THEN <<>> ELSE Render(layout)

\* read_config_info fails without a file or on a key that is not there.
ReadConfig ==
    /\ Move(Main, "config", IF read_config_info(File) = 0 THEN "log_init" ELSE "ended")
    /\ Quiet /\ UNCHANGED <<sock, flags, victim, early>>

\* log_init, which may fail, and log_set_level: of config.ini nothing is used any more.
LogInit ==
    /\ Runs(Main) /\ pc[Main] = "log_init"
    /\ \E ok \in BOOLEAN :
         pc' = [pc EXCEPT ![Main] = IF ok THEN "fork" ELSE "ended"] /\ log_open' = ok
    /\ layout' = NoFile
    /\ UNCHANGED <<lpc, log_mutex, crashed, sock, flags, victim, early>>

\* The parent exits and the child goes on; a fork that fails is logged, and main returns.
Fork ==
    /\ \/ Move(Main, "fork", "register") \/ Move(Main, "fork", "give_up")
    /\ LogLine(Main)
    /\ UNCHANGED <<sock, flags, victim, early>>

\* signal: from here on the handler may run.
Register ==
    /\ Runs(Main) /\ pc[Main] = "register" /\ lpc[Main] = "idle"
    /\ pc' = [pc EXCEPT ![Main] = "pool", ![Handler] = "off"]
    /\ Quiet /\ UNCHANGED <<layout, sock, flags, victim, early>>

\* thpool_init starts the workers, unless it or epoll_create fails.
CreatePool ==
    /\ Runs(Main) /\ pc[Main] = "pool" /\ lpc[Main] = "idle"
    /\ \/ pc' = [t \in Threads |-> IF t \in Workers THEN "wait"
                                   ELSE IF t = Main THEN "create" ELSE pc[t]]
       \/ pc' = [pc EXCEPT ![Main] = "give_up"]
    /\ LogLine(Main)
    /\ UNCHANGED <<layout, sock, flags, victim, early>>

\* log_close and return -1, whatever was going on.
GiveUp ==
    /\ Move(Main, "give_up", "ended")
    /\ log_open' = FALSE
    /\ UNCHANGED <<lpc, log_mutex, crashed, sock, flags, victim, early>>

\* create_accept_task; that pthread_create may fail is not looked at.
CreateAcceptTask ==
    /\ Runs(Main) /\ pc[Main] = "create" /\ lpc[Main] = "idle"
    /\ \/ pc' = [pc EXCEPT ![Main] = "loop", ![Acceptor] = "socket"]
       \/ pc' = [pc EXCEPT ![Main] = "loop"]
    /\ Quiet /\ UNCHANGED <<layout, sock, flags, victim, early>>

Start == ReadConfig \/ LogInit \/ Fork \/ Register \/ CreatePool \/ GiveUp \/ CreateAcceptTask

\* One turn of the loop: what there is is logged, and goes to the queue or not.
Turn ==
    /\ ~exit_flag /\ (Move(Main, "loop", "loop") \/ Move(Main, "loop", "queue"))
    /\ LogLine(Main)
    /\ UNCHANGED <<sock, flags, victim, early>>

\* thpool_add_work, or delete_timeout_job, which is logged; both lock the queue.  The next event
\* of the batch may bring main here again, exit_flag or not.
UseQueue(next) ==
    /\ QueueFree /\ Move(Main, "queue", next)
    /\ \/ Quiet /\ UNCHANGED swept
       \/ LogLine(Main) /\ swept' \in {swept, TRUE}
    /\ UNCHANGED <<sock, exit_flag, exit_accept_flag, thpool_keepalive, victim, early>>

\* The loop ends; log_close writes its last line.
EndLoop ==
    /\ exit_flag /\ Move(Main, "loop", "close_log")
    /\ LogLine(Main)
    /\ UNCHANGED <<sock, flags, victim, early>>

CloseLog ==
    /\ Move(Main, "close_log", "test_listen")
    /\ log_open' = FALSE
    /\ UNCHANGED <<lpc, log_mutex, crashed, sock, flags, victim, early>>

\* exit_accept_flag is set and thpool_destroy begins.
Destroy ==
    /\ Move(Main, "destroy", "join")
    /\ exit_accept_flag' = TRUE /\ thpool_keepalive' = FALSE
    /\ Quiet /\ UNCHANGED <<sock, exit_flag, swept, victim, early>>

\* thpool_destroy has joined the workers: main returns, and the process ends.
Join ==
    /\ \A w \in Workers : pc[w] \in {"exited", "abandoned"}
    /\ Move(Main, "join", "ended")
    /\ Quiet /\ UNCHANGED <<sock, flags, victim, early>>

MainStep == \/ Turn \/ UseQueue("loop") \/ UseQueue("queue") \/ EndLoop \/ CloseLog
            \/ TestListen(Main, "destroy") \/ CloseListen(Main) \/ UnsetListen(Main, "destroy")
            \/ Destroy \/ Join

-----------------------------------------------------------------------------

Next ==
    \/ \E v \in Threads \ {Handler} : Signal(v)
    \/ \E t \in Threads : Lock(t) \/ WriteLine(t)
    \/ Handle \/ AcceptorSetUp \/ Accept \/ AcceptorEnd \/ Start \/ MainStep
    \/ \E w \in Workers : Wake(w) \/ Dequeue(w) \/ WorkerEnds(w)

Spec == Init /\ [][Next]_vars

\* Threads that can run do, one that waits for the log mutex gets it in the end, and a batch of
\* events ends.  Nothing makes signals, connections or jobs arrive, and of the accept thread,
\* which nobody joins, only that it finishes the line it writes.
Fairness ==
    /\ \A t \in Threads \ {Acceptor} : SF_vars(Lock(t))
    /\ WF_vars(\E t \in Threads : WriteLine(t))
    /\ WF_vars(Handle)
    /\ WF_vars(Start \/ MainStep) /\ SF_vars(UseQueue("loop"))
    /\ \A w \in Workers : WF_vars(Dequeue(w) \/ WorkerEnds(w))

FairSpec == Spec /\ Fairness

-----------------------------------------------------------------------------
(* Properties. *)

\* Types; and the mutex is the writer's, who may be suspended.
TypeOK ==
    /\ \A t \in Threads : lpc[t] = "write" <=> log_mutex = t
    /\ pc \in [Threads ->
                {"config", "log_init", "fork", "register", "pool", "give_up", "create", "loop",
                 "queue", "close_log", "destroy", "join", "ended", "none", "socket", "setup",
                 "accept_test", "accept", "returned", "unregistered", "off", "set_exit",
                 "set_accept", "handled", "wait", "lock", "abandoned", "exited",
                 "test_listen", "close_listen", "unset_listen"}]
    /\ lpc \in [Threads -> {"idle", "lock", "write"}] /\ layout \in Layouts \cup {NoFile}
    /\ log_mutex \in Threads \cup {NoThread} /\ victim \in Threads \cup {NoThread}
    /\ listening \in {"none", "open", "closed"} /\ closes \in Nat
    /\ {log_open, listen_fd, exit_flag, exit_accept_flag, thpool_keepalive, swept, crashed,
        early} \subseteq BOOLEAN

\* A key word stands in the comment, or in the value of a line before its own (of any line, if
\* it has none): it is there that strstr finds it.
Holds(k, x) == \E j \in DOMAIN Written[k] : Written[k][j] = x
Elsewhere(l, k) ==
    \/ l.mentioned = <<k>>
    \/ \E j \in DOMAIN l.order : Holds(l.order[j], k) /\ \A m \in 1..j : l.order[m] # k

\* Once read_config_info has returned 0, each key is read as its line says, whatever the values
\* hold, in whatever order the lines are and however they are spaced and ended, with two
\* exceptions: a key whose word stands elsewhere before its line (config_info.c:69), and a last
\* line that ends with neither ";" nor a newline, which is read as empty (config_info.c:86).
ConfigAsWritten ==
    pc[Main] = "log_init" =>
      \A i \in Indices : ~Elsewhere(layout, Key(i)) =>
        config_info(Render(layout))[i] =
          IF ~layout.ended /\ Key(i) = layout.order[Len(layout.order)] /\ Key(i) \notin layout.closed
            THEN <<>> ELSE Written[Key(i)]

\* The number of the listening socket is closed once, by the handler, the accept thread or
\* main, each of which tests, closes and clears the variable in three steps (g_net_update.c:62,
\* 251, 738): a second close could hit a descriptor that was opened since.  It needs a signal
\* that came before there was a socket.
ListenClosedOnce == closes <= 1 \/ early

\* The handler waits for the mutex of the thread it has interrupted.
HandlerStuck == lpc[Handler] = "lock" /\ victim # NoThread /\ log_mutex = victim

\* A worker has returned with the mutex of the queue, and main or another worker waits for it.
QueueStuck ==
    ~QueueFree /\ (pc[Main] = "queue" \/ \E w \in Workers : pc[w] = "lock")

\* A kill signal ends the server, wherever it finds each thread, unless its handler waits for
\* the very thread it interrupted (g_net_update.c:61), a thread logs after log_close
\* (g_net_update.c:737), or a worker has woken to an empty queue and returned with the mutex
\* main or another worker waits for (thread_pool.c:139).
SignalEndsServer ==
    pc[Handler] \notin {"unregistered", "off"} ~> (Ended \/ HandlerStuck \/ crashed \/ QueueStuck)
=============================================================================
