# Specifications of JQServer

TLA+ specifications of the TCP server in `server/`: what its threads share, what
can go wrong between them, what TLC checks on small instances and what TLAPS
proves for instances of any size.

## The system

JQServer accepts TCP connections, reads one request per readiness event, queues
the request, and lets 15 worker threads answer it over the same descriptor. A
connection that has been silent for 60 seconds is closed.

| part | source | state | operations |
| --- | --- | --- | --- |
| thread pool | `server/thread_pool.c` | linked queue `head`, `tail`, `jobN`; semaphore `queueSem`; mutex; `thpool_keepalive` | `thpool_add_work`, `thpool_thread_do`, `delete_timeout_job`, `thpool_init`, `thpool_destroy` |
| connection table | `server/epoll_connect.c` | `epoll_connect_client[]`: descriptor, time of last activity, address, port, user name | search for a free slot, by descriptor, by user; init, free, update a slot; list users |
| connection handling | `server/g_net_update.c`: `accept_thread`, `main`, `recycle_timeout_confd` | `current_connected_total`, the kernel's interest list, `exit_flag`, `exit_accept_flag` | accept and register; epoll loop; timeout scan |
| request handlers | `server/g_net_update.c`: `respons_stb_info` | none of its own; reads and writes the table | handshake, login (`CMD_SENDUI`), look up a peer (`CMD_GETREMOTE`), list users (`CMD_GETALLUSER`), heartbeat |
| receive and send | `recv_buffer_from_fd`, `send_buffer_to_fd` | buffers on the stack | one `recv` per event, taken for one request; write until done |
| start, signals and shutdown | `main` before and after its loop, `signal_handler_reboot` | `listen_fd`, the exit flags | read `config.ini`, fork, create the pool; close all descriptors, stop the loops, destroy the pool |
| database pool | `server/sql_pool.c`, `database_process.c` | one mutex and one state per MySQL connection | take, release, reconnect, destroy (compiled out of the server by `CONNECT_TO_SQL_SUCCESS`) |
| log | `server/log.c` | file handle, last line, mutex | `LOG_INFO` = `log_preamble` then `log_s`; rotation |
| configuration | `server/config_info.c`, `file_operations.c` | `config_info` | read once at start |
| clients | `client_test/`, `Win32ClientTest/` | buffers on the stack | handshake, login, requests typed by the user, a heartbeat every half second; print answers |

**Threads.** The accept thread, the main thread (epoll loop, timeout scan, shutdown) and
the workers. They share the table (whose per-slot mutexes only the writers
`init_epoll_connect_by_index` and `free_event_by_index` take), the counter (mutex for
updates, none for the test), the queue (one mutex and one semaphore), the descriptors
(closed by the main and the accept thread, used by all) and the log.

**What is hard.** Steps of the accept thread and of the scan over one slot; a job that
outlives its connection; a descriptor number that returns for another client;
edge-triggered readiness with one `recv` per event; semaphore tokens that must match a
queue the scan shortens; failures in the middle of a registration; a byte stream without
message boundaries, written by two workers at once; a log line in two critical sections
while the file starts afresh or is closed; a signal handler in the middle of any thread;
shutdown with workers in every possible place. `PROJECT.json` lists each hazard at its line, with the
properties that watch it.

**What makes each part correct.** Thread pool: every job is run once, in order, or
discarded; no wakeup is lost; the heap stays intact; the shutdown ends. Connection
handling: no descriptor and no slot is lost; a slot belongs to one descriptor; the
counter means what it says; what arrives is read; what is dead is closed. Database pool:
a connection has one user at a time, is open while it is used, and always returns. Handlers: a
request is served for the client that sent it; what is read from the table belongs
together; an answer fits its buffer. Receive and send: a client that waits its turn is
heard, and an answer arrives whole. Log: the file stays bounded, a prefix gets its text,
and logging does not bring the server down. Shutdown: a kill signal ends the server, and
closes each descriptor once. Configuration: a key has the value its line gives it.

## Modules

| module | what it is |
| --- | --- |
| `JobQueue` | the promise of the queue to its callers: FIFO, each job taken once or discarded |
| `ThreadPool` | `thread_pool.c` in detail: list, heap, semaphore, mutex, workers, scan, destroy |
| `ThreadPoolProofs` | theorems about `ThreadPool`: types, tokens, wakeups, the queue after a worker kept the mutex |
| `QueueProofs` | theorems about `ThreadPool`: list, heap, owners, and the refinement of `JobQueue` |
| `Connections` | accept thread, main loop, timeout scan, table, counter, kernel and peers |
| `ConnectionsProofs` | theorems about `Connections` |
| `Requests` | `respons_stb_info` over a table the other threads change |
| `RequestsProofs` | theorems about `Requests` |
| `SqlPool` | `sql_pool.c` and its caller in `database_process.c` |
| `SqlPoolProofs` | theorems about `SqlPool` |
| `Log` | `log.c`: both parts of `LOG_INFO`, the file that starts afresh, `log_close` |
| `LogProofs` | theorems about `Log` |
| `Config` | `read_config_info` as operators over the tokens of a file |
| `Shutdown` | the life of the process: `main` from `config.ini` to its end, accept thread, workers, signal handler; extends `Config` |
| `Session` | one client and the server over TCP: `recv_buffer_from_fd`, `send_buffer_to_fd`, both clients |
| `ShutdownProofs` | theorems about `Config` and `Shutdown`: what is read of a file, the listening socket, the end of the process |
| `SessionProofs` | theorems about `Session` |
| `MCThreadPool`, `MCConnections`, `MCRequests`, `MCSqlPool`, `MCLog`, `MCShutdown` | symmetry sets and values of constants for TLC |

Operators that stand for a C function carry its name where TLA+ allows it. Each
module's opening comment states its granularity: an access to state another thread
touches is a step of its own; a critical section, or a run of steps on private state,
is one step. Operators under a comment "Faulty variant" are not part of any next-state
relation; they are single-slip versions of the operator that follows them, and the
list of mutants in `PROJECT.json` names the property each one breaks.

### ThreadPool

`head`, `tail`, `jobN` and `prev` are the fields of `thpool_jobqueue` and
`thpool_job_t`; `live` is the set of nodes between `malloc` and `free`. `wpc[w]` walks
through `thpool_thread_do`: `sem_wait`, `woken` (before the test of `thpool_keepalive`),
`lock`, `run`, and the two ends `exited` and `abandoned` (the return at line 139). `mpc`
walks the main thread through `thpool_add_work`, `delete_timeout_job` and
`thpool_destroy`. `next` is written and never read by the code, so only the
dereferences made to write it are kept. `corrupted` is set by a use of a dead pointer;
the C program has no defined behaviour after that and the model stops. The history
variables `order`, `swept` and `raced` record the queue as a sequence, the number of
jobs the scan has deleted, and whether it deleted one that was no longer the tail.

`ThreadPool` implements `JobQueue` under the mapping `queue <- order`,
`taken <- job_p`, `open <- thpool_keepalive`; the promise ends (`intact` turns FALSE)
when a scan has raced a worker.

### Connections

One variable per C variable the two threads share, and for each thread its program
counter and locals. `sock[f]` is what the peer has left to see on `f`: nothing
(`quiet`), `data`, end of file, an error without input (`err`), or `bad` for input that
`recv` reports as an error or that fills its buffer, which the code treats alike.
`edge` is the kernel's ready list. A slot is `aged` when its `now` lies more than
`SERVER_TIMEOUT` back. The order of the steps in `accept_thread` (slot, registration,
counter), in `recycle_timeout_confd` (slot, registration and counter, descriptor) and
in the error paths (counter, slot, descriptor) is the code's. The job queue is its
length; the number of jobs a scan deletes is any number up to it.

The branches of `main` for a negative descriptor cannot be taken, as only
descriptors from `accept` are registered, and are left out. The branch "not find matched
fd" is left out of the next-state relation too, and `EventHasSlot`, which is proved,
shows that it cannot be reached.

### Requests

A worker reads the table one access at a time: the descriptor's slot (`Lookup`), then
by command the port and the address (`CMD_HANDSHAKE`), a write of the user name
(`CMD_SENDUI`), a search and the address and port (`CMD_GETREMOTE`), or two passes over
the slots (`CMD_GETALLUSER`). `init_epoll_connect_by_index` writes address, port and
descriptor in three steps, because no reader takes its mutex. A search is one step.
Then comes `EPOLL_CTL_ADD` (`Register`), which may fail (`RegisterFails`): the descriptor is
closed, and the slot stays occupied with its number and the address of that client. A later
client may be given the number; the search by descriptor then finds the older slot if it comes
first in the table, and so do the handlers. The timeout scan clears such a slot and closes its
number, whoever has it by then (`FreeByTimeout`); an event frees the slot the search finds
(`FreeByEvent`), which need not be the client's own.
Connections end as in `Connections`, here in two steps (slot, descriptor). `from`,
`met` and `online` are history: which client a request came from while its connection
is untouched, whether a client was added during a worker's scan, and whether the slot
that a search found was in use.

### SqlPool

The server as built with `CONNECT_TO_SQL_SUCCESS 1`; in this commit nothing calls
`get_upgrade_count_from_database`, and the module says what happens when several threads
do. `locked`, `sql_state` and `connected` are the mutex, the state and `mysql_sock # NULL`
of each node; `wpc[w]` walks through `get_db_connect_from_pool` and `create_connect`.
Every access to a node is a step of its own, since after a reconnection the mutex no
longer keeps others out: `create_connect` runs `pthread_mutex_init` on the mutex its
caller holds, which unlocks a glibc mutex. A call of the MySQL library succeeds or fails.
`dpc` is a run of `sql_pool_destroy`, by the signal handler or by `main`, one after
the other. `reinit` and `shared` are history: whether a present holder, or one it
overlapped with, has re-initialised the mutex, and whether a node ever had two holders.
The field `used` is written and never read, and is left out. `sql_pool_create` is the
initial state, in which any node may be without a connection.

### Log

`LOG_INFO` is two calls, `log_preamble` and `log_s`, each of which tests
`log_file_handle`, takes `log_mutex` and writes. `lpc[t]` walks thread `t` through both;
`Inside` are the places where it has the mutex, `Behind` those between the prefix and its
text. A full file is closed and opened again in two steps, since `log_close` takes no mutex
for its `fclose`. The file is its number of strings (`size`) and the last of them
(`entry`); a line is the `LOG_INFO` it comes from, its level and its text, and a prefix is
the same string whenever it comes from the same `LOG_INFO`. `log_file_handle` is `"open"`,
`"NULL"` after a failed `fopen`, or `"closed"`: not NULL, but of a closed file, on which
any call may crash. `log_s` has a count of its own that its code no longer uses. Some
levels of `log.h` have no entry in `preamble_logstr`, an array of five; the entries
themselves are one level off (`log.c:72` begins with a blank for level 0, while
`log.h:12` starts the names at 1), which changes a word in the file and nothing here.

### Config and Shutdown

`Config` treats a file as a sequence of tokens, so that `strstr` and `strchr` are searches
for a token, and `parse_config_key_word` is the sequence up to `";"` or `"nl"`. `Layouts` are
the ways in which a user may write the file: which keys, in which order, with or without
spaces, `";"`, a comment that mentions a key, and an end of the last line. What a value says is
free but for its end and its first token; it may have a key word or a `"="` in it, which
`strstr` then finds.

`Shutdown` follows `main` from there: `log_init`, `fork`, `signal`, the pool, the accept
thread, the loop, `log_close` and `thpool_destroy`, with each failure the code tests for.
The handler is a thread that suspends its `victim` until it returns. The test, the close
and the reset of `listen_fd` are three steps in each of the three places that have them.
A log line is one critical section here (both parts are in `Log`). A turn of the loop goes to
the queue or not, and both uses of the queue by `main`, `thpool_add_work` and
`delete_timeout_job`, wait for its mutex (`UseQueue`), as a worker does between `sem_wait` and
its job (`Wake`, `Dequeue`). Of the queue there is only what that takes: whether a worker has
returned with the mutex (`abandoned`), which needs a scan that has deleted jobs (`swept`); what
lies between, the tokens and the jobs, is in `ThreadPool`, and `ReturnOnEmpty` may happen here
also when a token of a deleted job is no longer there. A job that is taken comes to its end:
the crash of a request is in `Requests`, and a write that never ends, which keeps one worker,
in `Session`; the handler ends such a write when it closes the connection. A
signal that comes before the handler is registered ends the process at once and is left out, as
is a signal while its own handler runs.

### Session

A client (`program` says which), TCP, the main thread and the workers, for one connection.
`up`, `inbox` and `out` are byte streams in units: a message is its first byte, the rest of its
header and, if it has one, its payload; an answer is `AnswerLen` units. `Deliver` and
`ClientRecv` move any number of units at once, since TCP keeps order and nothing else. `Recv`
takes all that is there for one request, as `recv_buffer_from_fd` does; `Full` is a buffer
without room left. The server's buffer is zero behind what was received, and the types, `0xfff1`
to `0xfffe`, have two bytes that count, the lower ones: with the second byte the type is known,
and what is missing of a header does no harm; a first byte alone is a type no one handles, and
so is whatever comes later of a message (`JobOf`). `fate` says what became of each message:
`"divided"` by TCP while it waits, then `"whole"`, `"cut"` (a header without its payload),
`"torn"` (a first byte alone), `"swallowed"` behind another one, or `"lost"` for no such reason,
which never happens to a client that waits its turn. `dumpInfo` puts 64 bytes and more behind
its buffer of 128, on the stack of `main`: `DumpOverrun` ends the server, and `Recv` is the
overrun that goes unnoticed. No single message has 64 bytes, a handshake and a login of the
windows client have 68; `DumpLen` is scaled so that any two messages that arrive whole together
may overrun.
`n[w]` is what `send_buffer_to_fd` has left to send, and a place of an answer below 1 is a
byte before the buffer, which is what the code sends after a write that would block
returned -1 and was subtracted. `Room` is what the kernel takes before that happens. Nothing in
the code bounds these retries; the model follows `MaxRetries` of them (`retries` counts all), and
what happens after that many is exempted by name (`Unbounded`), not assumed away.

The linux client's header has four bytes and the server's has eight. So the server reads a
login of that client four bytes too late (`Name` is `"shifted"`), and its `CMD_HANDSHAKE` is
the number of the server's `CMD_GETREMOTE_ACK`, which no one answers (`Answered`). Both
clients put no length on what they read; the windows client takes what comes first for a
header (`misread` records when it was none) and the linux client prints it. That its buffer
of 256 bytes can hold what `recv` may bring is taken for granted. The model ends when the
server closes the connection or ends; what follows for the table is in `Connections` and for
waiting jobs in `Requests`.

## Runs

Each run is named in `PROJECT.json`; its `.cfg` has the bounds.

| run | asks | bounds | states |
| --- | --- | --- | --- |
| `thread_pool` | tokens, wakeups, list, heap, ownership; no job moves after a worker kept the mutex; `ThreadPool` implements `JobQueue`; queued jobs are taken, `thpool_destroy` returns | 2 workers, 3 jobs in memory, no new scan after one deletion | 172,089 |
| `thread_pool_empty_wake` | *violated*: a worker that is woken finds a job | 2 workers, 2 jobs | |
| `thread_pool_sweep_race` | *violated*: the mutex serializes the access to the queue | 2 workers, 2 jobs | |
| `connections_safety` | counter and its drift, slots, descriptors, events, edges | 3 slots, 2 descriptors, 1 queued job, 2 failed registrations, 1 deleted job | 2,233,699 |
| `connections_liveness` | what arrives is read; dead connections are closed | 3 slots, 2 descriptors, no failed registration | 35,638 |
| `connections_count` | *violated*: the counter is the number of connections | 3 slots, 2 descriptors | |
| `requests_safety` | handlers serve their sender, also beside the slots of failed registrations | 1 worker, 2 slots, 2 descriptors, 2 clients, 1 user, 1 queued job | 7,459,113 |
| `requests_offline` | *violated*: a client that is found is online | 1 worker, 2 slots, 2 clients | |
| `sql_pool_safety` | who holds which database connection, and in what state | 3 workers, 2 nodes | 4,129,906 |
| `log_safety` | bounded file, prefixes and texts, filter, crashes | 3 threads, 4 lines of 2 `LOG_INFO`s, levels 4 and 6, `MAX_LOG_LINE_NUM` 3 | 2,555,102 |
| `shutdown` | configuration, the listening socket, the signal ends the server | 2 workers, 3 keys in all layouts, one value that holds the word of another key | 76,600 |
| `session` | lost, mixed, repeated, swapped and misread messages | 2 workers, handshake, login and one request, a buffer of 7 units, an overrun from 5, answers of 3, room for 3, two blocked writes in all | 241,061 |

**Why the bounds are enough.** The cases of the list code are a queue of none, one, two
and more jobs; three nodes give two jobs in the workers and one in the queue, or a queue
of three. `MaxSwept` stops scans, not the deletions of one scan, so that a scan may delete
several jobs. Two workers are needed for one to take the job that the scan looks at
while another one waits. Two descriptors let one be reused while the other stays in
use, and two failed registrations with two descriptors fill three slots, so that
`RejectNoSlot` is taken. A table has more slots than there are descriptors because
`main` sets `RLIMIT_NOFILE` to `MAX_EVENTS`, and the standard streams, the log, the listening
socket and `epoll_fd` use some of them. In `Requests` a client that has gone, or whose registration
has failed, may come back beside the other one; with two slots and two descriptors it finds its
old number taken by the other client, or two slots with one number. In `SqlPool` three workers
give two that share a node after a reconnection and a third that takes it when one of them
unlocks it; two nodes make the search go round. In `Log` the file starts afresh several
times while two threads stand between prefix and text; level 6 allows lines without a
label. In `Shutdown` one worker may be the handler's victim, or have kept the mutex of the queue,
while the other waits for a mutex; three keys give a first, a middle and a last line, and the
last key has the word of the middle one in its value. In `Session` handshake, login and a
request have up to 3 units each, 9 together: what waits may be a part of a message, one or two of them,
an overrun of `dumpInfo`, or more than the buffer of 7, an error. An answer of 3 fits the room of 3
only when it is empty, so each write can be short, block, or meet the other worker's; of two
blocked writes one answer may have both.

**Deadlock** is checked in the runs of `Connections`. The others may stop: the pool
when `thpool_destroy` has returned or a worker has kept the mutex, the server of `Requests`,
`SqlPool`, `Log` and `Shutdown` when it has crashed or ended, a session when it is closed or
the user types no more.

**Fairness.** `ThreadPool`: threads run, jobs return, and a thread waiting for the queue
mutex gets it in the end (strong fairness: the mutex is released and taken again many
times, and no thread holds it for more than a few pointer updates). `sem_wait` is weakly
fair for the workers together, not for each one. Submitting, scanning and destroying
are not fair. `Connections`: `FairSpec` assumes only that the main thread
runs, so that the timeout scan cannot stand in for reading (`DataIsRead`). `GoneIsClosed`
has a premise of its own, `TimePasses`: the accept thread runs, the scan comes again and
again (strong fairness, since `main` turns at least every two seconds and scans when 60
have passed), and a silent slot ages in the end. `Shutdown`: threads that are not suspended
run, the log mutex and the queue mutex as `main` waits for it are strongly fair, as in
`ThreadPool`, and `main` comes to the end of a batch of events (at most `MAX_EVENTS`); `accept`
need not return while the socket is open. `Session`: TCP delivers, the main thread, the workers
and the client's receiver run. Nothing is assumed of signals, peers, users, or of connections and jobs
to come.

### What the runs show

* No interleaving of workers, main thread and shutdown loses a wakeup, breaks the list,
  leaks a job or frees one twice, as long as the timeout scan deletes nothing.
* The timeout scan has two defects. It reads the tail before it locks (line 272), so that a
  worker may take and free the job it is about to delete (`ThreadPoolSweepRace`). It
  leaves the tokens of the deleted jobs in the semaphore, so that a worker wakes to an
  empty queue and returns with the mutex locked (`ThreadPoolEmptyWake`); from there on
  no job is added, taken or deleted (`AbandonedStopsTheQueue`): the server takes no more
  requests.
* The counter is exact up to three windows of a few instructions and two leaks: deleted
  jobs are subtracted as if they were connections (`ConnectionsCount`), and a failed
  `EPOLL_CTL_ADD` leaves a slot that is subtracted when it times out though it was never
  counted. Both leaks lower the counter (`CounterDrift` says by how much), so it never holds
  the accept thread back.
* A failed `EPOLL_CTL_ADD` also leaves a slot with the number of a closed descriptor.
  `OneSlotPerFd` holds only without such failures: with one, the scan can close
  another client's connection, the handshake can tell a client the address of the former one, and
  a login can put the name into the former one's slot.
* An answer goes to the client that asked as long as its connection is not closed, and the slot
  its handler works on is that client's unless another slot has kept the number (`Alone`). After
  the connection was closed a login dereferences NULL (`LoginCrash`), and the answer may go to
  another client.
* `CMD_GETREMOTE` finds clients that are gone (`RequestsOffline`).
* No database connection is lost to the pool, whatever calls fail. One can be used by two
  workers at once, but only after a reconnection has re-initialised its mutex; and
  `mysql_ping` can be given NULL, but only after two such workers have reconnected the same
  node, one with and one without success, or while `sql_pool_destroy`, which takes no
  mutex, closes what workers use.
* The client's answers are exact as long as no write would block, however TCP divides
  the bytes. Each write that would block makes `send_buffer_to_fd` step
  back one byte and send one more (`CompleteWithRepeats`), without a bound: an answer to a client
  that reads slowly need not end. Two answers mix only around a
  short or a blocked write, and come in the other order only if two workers had the requests
  at one time.
* A client that sends each message after the last one was received is not cut off, and each of
  its messages is received whole unless TCP has divided it. Of a divided message the server looks
  at the first piece alone: a login without its payload leaves an empty name, and a first byte
  alone is ignored. Of messages
  that arrive together the server answers the first, unless `dumpInfo` has brought it down, which
  64 bytes can do, and it closes the connection if they fill the buffer; heartbeats make that possible for any client that is slow. A login
  behind another message is lost without a sign.
* The log's file is bounded by twice `MAX_LOG_LINE_NUM` and the number of threads, a prefix
  is never the last word, and the filter compares with what the file ends with. Logging
  crashes the server only after `fopen` failed for a fresh file, after `log_close`, which
  `main` calls while the workers still run, or with a `LogLevel` above 4.
* A kill signal ends the server unless its handler interrupted the thread that has the log
  mutex, which it then waits for itself (`HandlerStuck`), a thread logs after `log_close`, or a
  worker has returned with the mutex of the queue: `main` then waits for it in its loop, or for
  a worker in `thpool_destroy` that waits for it (`QueueStuck`).
  The listening socket is closed once, unless the signal came before it was there: then
  the accept thread and `main` may both close it.
* Every key has the value its line gives it, in any order and layout, unless its word stands
  before in a comment or in the value of another key (`Elsewhere`): that is what `strstr` finds.
  The last line is read as empty if nothing ends it, and
  `read_config_info` reports success.

## Proofs

The theorems hold for any number of workers, jobs, slots, descriptors, failures and deletions,
and for any key words and values of `config.ini`. They use the named assumptions of the modules'
constants: the workers are a finite, nonempty set, the special values are not members of the sets
they mark the absence of, the table has at least one slot, and there are fewer descriptors than
slots (used only by `AcceptNeverThrottled` and `RefusalNeedsFailures`), the database pool has a
node, `MAX_LOG_LINE_NUM` is at least 2, the threads of `Shutdown` differ, and the buffer of a
session, like that of `dumpInfo`, holds more than one message. `ConfigAssumption` says that a key
word is not punctuation,
and that a value holds nothing that ends it and begins with no space: such a
value could not be told from its surroundings by any reader of the file. Every safety invariant
and every action property of the passing runs is proved. The types of `ThreadPool`,
`Connections`, `Requests`, `Shutdown` and `Session` are proved and in no run.

`ThreadPoolProofs`. `TypeCorrect` is inductive by itself. `NoLostWakeup` is not: a step
may take a token without taking a job. `TokenInv` counts both sides:
`jobN + swept = queueSem + |Pending|` while the pool runs, where `Pending` are the
workers between the wait and the job and those that gave up; and, with nothing swept,
every worker at the lock has a job, also when the pool stops. It needs the phases of the main
thread (who holds the mutex, that the keepalive flag is down while the pool is being
destroyed). `WorkerKeepsTokens` and `MainKeepsTokens` treat the actions one by one.
`NoLostWakeup` and `AbandonedOnlyAfterSweep` follow; they are in no run, since `TokenInv`
implies them. `QueueStopsForGood` takes from the phases that the mutex stays with the worker
that has returned: each action of the queue then waits for it for ever, or is past it, and
only `thpool_destroy`, which lowers the keepalive flag first, empties the queue without it.

`QueueProofs` goes on from there. `QueueWellFormed`, `HeapIntactUnlessRaced` and
`EveryJobOwnedOnce` are inductive only together, with `TokenInv`: `JobsInv` says that the
list is the queue, that its jobs are allocated and differ, that a worker's job is in the
list no longer and is no other worker's, that the job being added is nobody's yet, that
there are no other jobs, and that `thpool_jobqueue_empty` stands at the tail; all that
until a scan has raced a worker, which only a scan can (`raced` stays). `TokenInv` gives it
that a worker at the lock finds a job unless a scan took it. For the refinement, each
step of a worker and of the main thread is mapped to its step of `JobQueue`, or to a
stutter (`WorkerPromise`, `MainPromise`, `Stutters`); once `raced` holds the promise has ended
and every further step is a stutter of it.

`ConnectionsProofs`. `FirstOfFinds` shows that a search that has something to find returns it.
`ConnectionInv` says which descriptor each thread may name and which slot and registration go
with it; it is inductive with the types and gives `EventHasSlot` and `NoFdLeak`; `NoLostEdge` is
inductive over it. `SlotsInv` adds to `OneSlotPerFd` that a descriptor on its way into the table
or out of it is open, in no slot, and not both at once. `CountLaw` is inductive over
`ConnectionInv`: only three steps change the number of occupied slots, by one each. `SlotLaw`
bounds the occupied slots by the open descriptors that have a slot plus the failed registrations;
a slot whose descriptor is being closed and a new connection whose descriptor the scan has closed
meanwhile are counted on the left, which makes it inductive. With `CountLaw` it gives
`NeverThrottled`, and with the limit on descriptors `RefusedOnlyAfterFailures`.
`CounterOnlyDriftsDown` adds the other side: between two connections each registered descriptor
has a slot of its own (`RegisteredHaveSlots`), so the registered connections lie between the
descriptors with a slot and the slots. `ConnectionInv` and `SlotLaw` are proved and in no run.

`RequestsProofs`. `ConnInv` relates the table, the kernel and the queue. Since a failed
registration leaves slots that are nobody's, it starts from the descriptors and not from the
slots: one that is registered and not being closed has a slot with its client's address
(`EpollInv`, `Own`), among others that may have its number; the descriptor
being accepted is not registered, and still its client's unless a scan has closed it
(`HandoverInv`); and a job whose connection is untouched names that connection (`Linked`).
`ServingInv` follows a request through its worker: the slot that was found still has that
descriptor, and is its sender's if it is the only one with the number (`OwnSlot`), so that what a
handshake has read is its sender's, although `init_epoll_connect_by_index` writes a slot in three
steps and no reader takes its mutex. While a connection is untouched no thread writes a slot that
has its number, or gives the number to another slot (`OthersKeepSlots`), so a slot that is alone
with it now was so before. `CountInv` compares the two passes of `get_all_users`:
the first counts at least the clients left below its place, the second has room for those
from its place on, since clients only leave while `met` is FALSE. That a search finds
the least slot (`FirstOfFinds`) needs that the natural numbers are well-founded.

`SqlPoolProofs`. `TypeCorrect` needs `SearchBound`: a worker that holds a node has turns
of its loop left. `MutexSteps` sorts the steps of a worker into five kinds by what they do to
the mutexes, and `HolderChange` says what each kind does to the holders of a node;
`NodesNotLost` and `SharingNeedsReconnection` are inductive over these.
`HeldConnectionsAreOpen` needs `NodeInv`: a node that was never shared, in a pool not
destroyed, has at most one holder, its state tells the truth about its connection, and so does
the place of its holder.

`LogProofs`. `HandleInv` says who has the mutex and when the handle may be of a closed file;
it is inductive with the types and contains `CrashNeedsDeadHandle`. The filter and
`PrefixesGetTheirText` are inductive over it: the only thread that can write behind a
prefix without being its own is one whose string differs, and then it is the last one.
`FileIsBounded` counts: `Paid` bounds the size of the file by two strings for each prefix
counted so far, what the threads between prefix and text still owe, and the strings of
`log_close`; a write pays with its writer's place.

`ShutdownProofs`. The first half is about one pass of `read_config_info` over one file, for any
key words, values and layout. `Render` puts the file together by a recursive function over the
order of the lines, so what holds of every prefix is proved by induction; the induction theorems
of the library cannot be used here, and `Upwards` replaces them: a set of numbers with 0 and with
each successor up to n has all up to n, as otherwise the least number that is missing
(`LeastElement`, from the well-foundedness of `<`) would contradict it. `LinesDefined` shows in
this way that the recursive function exists and obeys its equation, `LinesWithout` that a
key without a line is in no prefix, `LineSplit` that a file is what stands before a line, the
line, and what follows it. `FileShape` and `FileRead` then run the searches of the code over
these three pieces: the first place of the key is in its line, the first `"="` after it is the
line's own, and the value ends with `";"`, with the `"nl"` of the next line, or not at all. With
`NotThere` this gives `ValuesRead`, and `ReadAsWritten` for the process, where `ReadInv` is that
`main` goes on only if the function reported success. `KeysFound` says exactly when it does, for
any file: each key word stands somewhere with a `"="` somewhere behind it.

`SocketClosedOnce` needs `ListenInv`: the accept thread and `main` go to
the listening socket only once `exit_accept_flag` and `exit_flag` are set, the handler sets
them when it has done with the socket, and nothing makes a socket after that; the exception
is a signal that came before the socket (`early`). `HandlerQuiet` says that the handler logs
only while it runs, which the types need. `EndInv` follows the log's file and the workers through
the process: the file is closed only by `main` after the loop, hence after `exit_flag`, and
`main` ends only with each worker joined, be it one that returned with the mutex, or never
started; it gives `CrashNeedsSignal` and
`MainOutlivesWorkers`, which are in no run.

`SessionProofs`. `PacedInv` is the reason that a client which waits its turn is heard: what is
under way is the end of its last message (`Alone`), so that no first byte stands behind
another, the buffer is not full and `dumpInfo` has room; and if the first byte waits
in the socket while something is still in the network, the message is marked as divided
(`PacedDeliver`). So `recv` brings either the whole message or a piece of a divided one
(`PacedReceive`).

The answers need more. `FifoInv` says that first bytes arrive, and requests are queued and are taken in the
order of their numbers, whatever TCP and `recv` make of the bytes; so a request a worker takes
is younger than all that have left a trace, and `OwnInv` that no two workers have the same.
`OrderInv` contains `SwappedOnlyWhenOverlapping` and `MixedOnlyWhenCut` and adds what they
become while answers are being sent: an answer that has begun and not ended has been cut, and
a worker that has sent nothing yet overlapped with every younger one in the stream.
`PiecesInv` does the same for `CompleteWithRepeats`: what has been sent of an answer is
`AnswerLen` plus its blocked writes less what is left, it has all places up to where it has
come, and the next unit to be written is not too high (`NoGap`), also after `n` was
raised by the -1 of a write that would block. `UpwardsInv` says that without such writes
an answer goes strictly upwards from its first unit. `MisreadNeedsParts` follows with
`ReadInv`: if the client had received no part, the answer its next unit belongs to would have
been received to its end, and that unit would have to stand above the last. `StreamKept`
and `StreamGrows` reduce the client's `recv` and the workers' writes to what they do to the
stream `got \o out`, which is all these invariants look at.

Only model-checked: the liveness properties (`QueuedJobIsTaken`, `DestroyReturns`, `DataIsRead`,
`GoneIsClosed`, `SignalEndsServer`, `RequestIsServed`), as liveness under fairness is out of
the prover's reach.

## Not modelled

`malloc` failing (the job is not queued; `Connections` has that outcome, `ThreadPool` leaves it
out as nothing changes); `sem_wait` or `pthread_mutex_lock` failing (the process exits or the
error is ignored); a failing `mysql_init` while the pool is created (the server does not start),
two runs of `sql_pool_destroy` at once, and what the MySQL library does with one connection used
by two threads; a worker that starts only after `thpool_destroy`; a signal before its handler is
registered or while it runs; the descriptors of connections that the handler closes while it
leaves their slots (main may close such a descriptor again, in the few steps it has left); the
text of messages, answers and log lines, the time stamps, and the conversion of a configuration
value to its field (`atoi`, the truncation of `snprintf`; `LogLevel` is kept in a `char`);
`accept` spinning with `EMFILE` once the descriptors are used up, which changes no state; what is
only printed (`print_all_users`, `print_config_info`), and `con_thread` of the linux
client, which is never started.

## Plan

Done: every component has a module; `ThreadPool` with its refinement and liveness; the
theorems above. In this order:

1. `Server`: `Connections` and `JobQueue` composed, with jobs that name descriptors, and what
   is proved of each carried over to it.
2. Proofs: the sizes of the queue in `Connections` and in `ThreadPool` as one.
3. `Requests` with two workers or three clients in a run, once its state space allows it; its
   theorems hold for any number of either.
