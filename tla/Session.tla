------------------------------- MODULE Session -------------------------------
(***************************************************************************)
(* One client and the server, byte for byte: what the client sends         *)
(* (Win32ClientTest.cpp, JQClient.c), how the main thread cuts it into     *)
(* requests (recv_buffer_from_fd), how the workers send their answers      *)
(* (send_buffer_to_fd) and what the client makes of them.                  *)
(*                                                                         *)
(* TCP keeps bytes in order and nothing else: what was sent in two calls   *)
(* may be received in one, and the other way round.  Neither end looks at  *)
(* iMessageLen.                                                            *)
(*                                                                         *)
(* Data.  A message is two or three units: its first byte, the rest of its *)
(* header and the payload, if it has one; an answer is AnswerLen units.    *)
(* The buffers are scaled with them.  The types of all messages have two   *)
(* bytes that count, 0xfff1 to 0xfffe, so that the rest of the header may  *)
(* come later, but not the second byte.                                    *)
(* The model ends when the server closes the connection or ends: what      *)
(* follows for the table is in Connections, and for the waiting jobs in    *)
(* Requests.                                                               *)
(***************************************************************************)
EXTENDS Integers, Sequences, FiniteSets

CONSTANTS
    Workers,
    Buflen,         \* BUFLEN
    DumpLen,        \* what dumpInfo has no room for: 64 bytes, a handshake and a login
    AnswerLen,      \* length of an answer
    Room,           \* what the kernel takes before a write would block
    MaxCommands,    \* bound: messages after the login
    MaxRetries      \* bound: writes that would block

ASSUME SessionConstants ==
    /\ Buflen \in Nat /\ Buflen > 3 /\ DumpLen \in Nat /\ DumpLen > 3
    /\ AnswerLen \in Nat \ {0} /\ Room \in Nat \ {0}
    /\ MaxCommands \in Nat /\ MaxRetries \in Nat

VARIABLES
    program,    \* which client: "win32" or "linux"
    sent,       \* commands sent so far; a message is known by its number
    exited,     \* the client has closed its end
    up,         \* units on their way to the server
    inbox,      \* units the server may receive
    end,        \* the client's end has arrived
    edge,       \* something arrived since the last epoll_wait
    open,       \* the server has not closed the connection
    queue,      \* the jobs, oldest first
    wpc, job,   \* workers
    n,          \* what is left to send
    out,        \* units written and not received by the client
    user,       \* UsrhashId of the client's slot
    got,        \* history: units received by the client
    misread,    \* history: the client took for a header what is none
    fate,       \* history: what became of each message
    paced,      \* history: every message was sent after the one before was received
    parts,      \* history: the client has received a part of an answer
    cut,        \* history: answers whose write was short or would block
    blocked,    \* history: by answer, the writes that would block
    retries,    \* history: all of them
    overlapped  \* history: pairs of requests that two workers answered at one time

client == <<program, sent, exited, paced>>
received == <<got, misread, parts>>
arrival == <<up, inbox, end, edge>>
worker == <<wpc, job, n>>
history == <<cut, blocked, retries, overlapped>>
vars == <<program, sent, exited, paced, got, misread, parts, up, inbox, end, edge, open,
          queue, wpc, job, n, out, user, fate, cut, blocked, retries, overlapped>>

Messages == 1..(MaxCommands + 2)
Size(c) == IF c \in {"HEARTBEAT", "GETALLUSER"} THEN 2 ELSE 3

\* The linux client's CMD_HANDSHAKE is the server's CMD_GETREMOTE_ACK, which no one handles.
Answered(i) == \/ sent[i] \in {"GETREMOTE", "GETALLUSER"}
               \/ sent[i] = "HANDSHAKE" /\ program = "win32"

\* A job without a message: the end of the connection, or bytes that are no header.
NoMessage == [msg |-> 0, whole |-> FALSE]

Init ==
    /\ program \in {"win32", "linux"}
    /\ sent = <<>> /\ exited = FALSE /\ paced = TRUE
    /\ up = <<>> /\ inbox = <<>> /\ end = FALSE /\ edge = FALSE /\ open = TRUE
    /\ queue = <<>> /\ wpc = [w \in Workers |-> "idle"] /\ job = [w \in Workers |-> NoMessage]
    /\ n = [w \in Workers |-> 0]
    /\ out = <<>> /\ user = "none"
    /\ got = <<>> /\ misread = FALSE /\ parts = FALSE
    /\ fate = [i \in Messages |-> "waiting"]
    /\ cut = {} /\ blocked = [i \in Messages |-> 0] /\ retries = 0 /\ overlapped = {}

-----------------------------------------------------------------------------
(* The client's threads: main, the heartbeat's timer and recv_func. *)

SendMessage(c) ==
    /\ ~exited
    /\ sent' = Append(sent, c)
    /\ up' = up \o [p \in 1..Size(c) |-> [msg |-> Len(sent) + 1, part |-> p]]
    /\ paced' = (paced /\ up = <<>> /\ inbox = <<>>)
    /\ UNCHANGED <<program, exited, received, inbox, end, edge, open, queue, worker, out,
                   user, fate, history>>

Handshake == Len(sent) = 0 /\ SendMessage("HANDSHAKE")

SendUI == Len(sent) = 1 /\ SendMessage("SENDUI")

Command(c) == Len(sent) \in 2..(MaxCommands + 1) /\ SendMessage(c)

\* "exit", or 'q': what was sent to this client no longer matters.
Exit ==
    /\ ~exited /\ Len(sent) >= 2
    /\ exited' = TRUE
    /\ out' = <<>> /\ got' = <<>> /\ misread' = FALSE /\ parts' = FALSE
    /\ cut' = {} /\ overlapped' = {}
    /\ UNCHANGED <<program, sent, paced, arrival, open, queue, worker, user, fate, blocked,
                   retries>>

\* main, getu and allu of ParseCommand, and the timer of heartbeat_proc.
WindowsClient ==
    /\ program = "win32"
    /\ \/ Handshake \/ SendUI \/ Exit
       \/ \E c \in {"GETREMOTE", "GETALLUSER", "HEARTBEAT"} : Command(c)

\* connect_to_g_net: one command, and no heartbeat.
LinuxClient == program = "linux" /\ (Handshake \/ SendUI \/ Exit \/ Command("GETREMOTE"))

Incomplete(s) == \E k \in DOMAIN s : \A l \in DOMAIN s :
                    ~(s[l].msg = s[k].msg /\ s[l].place = AnswerLen)

\* One recv, of as much as TCP has brought.
ClientRecv ==
    /\ ~exited
    /\ \E k \in 1..Len(out) :
         got' = got \o SubSeq(out, 1, k) /\ out' = SubSeq(out, k + 1, Len(out))
    /\ parts' = (parts \/ Incomplete(got'))
    /\ UNCHANGED <<client, arrival, open, queue, worker, user, fate, history>>

\* What came first is taken for an answer, and what stands behind it is not looked at.
recv_func == program = "win32" /\ ClientRecv /\ misread' = (misread \/ out[1].place # 1)

\* What came is printed as it is.
recv_thread == program = "linux" /\ ClientRecv /\ UNCHANGED misread

-----------------------------------------------------------------------------
(* The network. *)

Deliver ==
    /\ \E k \in 1..Len(up) :
         /\ inbox' = inbox \o SubSeq(up, 1, k) /\ up' = SubSeq(up, k + 1, Len(up))
         /\ fate' = [i \in Messages |->
                       IF fate[i] = "waiting" /\ k < Len(up) /\ up[k].msg = i /\ up[k + 1].msg = i
                         THEN "divided" ELSE fate[i]]
    /\ edge' = TRUE
    /\ UNCHANGED <<client, received, end, open, queue, worker, out, user, history>>

DeliverEnd ==
    /\ exited /\ up = <<>> /\ ~end
    /\ end' = TRUE /\ edge' = TRUE
    /\ UNCHANGED <<client, received, up, inbox, open, queue, worker, out, user, fate,
                   history>>

-----------------------------------------------------------------------------
(* The main thread: one event of epoll_wait, one recv, one job. *)

\* Faulty variant: the comparison is the wrong way round.
FullReversed(b) == Len(b) <= Buflen

\* "read over" is what leaves some of the buffer free.
Full(b) == Len(b) >= Buflen

First(b) == b # <<>> /\ b[1].part = 1

\* The buffer is zero behind what was received.  A first byte alone is a type that no one
\* handles, and so is what does not begin with a message; a payload may be missing.
JobOf(b) == IF First(b) /\ Len(b) > 1
              THEN [msg |-> b[1].msg, whole |-> Len(b) >= Size(sent[b[1].msg])]
              ELSE NoMessage

Behind(b) == {b[k].msg : k \in {l \in 2..Len(b) : b[l].part = 1}}

\* What becomes of the first message of b: of a divided one the first byte or the header may
\* be all that is there.
FateOf(b) == IF JobOf(b).whole THEN "whole"
             ELSE IF fate[b[1].msg] # "divided" THEN "lost"
             ELSE IF Len(b) = 1 THEN "torn" ELSE "cut"

\* recv_buffer_from_fd: all that is there is one request, an empty one at the end; what
\* stands behind the first message is lost.
Recv ==
    /\ edge /\ ~Full(inbox)
    /\ edge' = FALSE /\ inbox' = <<>>
    /\ queue' = Append(queue, JobOf(inbox))
    /\ fate' = [i \in Messages |-> IF i \in Behind(inbox) THEN "swallowed"
                                   ELSE IF First(inbox) /\ i = inbox[1].msg THEN FateOf(inbox)
                                   ELSE fate[i]]
    /\ UNCHANGED <<client, received, up, end, open, worker, out, user, history>>

\* dumpInfo writes behind its buffer, on the stack: it goes unnoticed, or the server ends.
DumpOverrun ==
    /\ edge /\ ~Full(inbox) /\ Len(inbox) >= DumpLen
    /\ edge' = FALSE /\ inbox' = <<>> /\ open' = FALSE
    /\ UNCHANGED <<client, received, up, end, queue, worker, out, user, fate, history>>

\* A full buffer is an error, as is a connection that was reset.
RecvFails ==
    /\ edge /\ (Full(inbox) \/ end)
    /\ edge' = FALSE /\ inbox' = <<>> /\ open' = FALSE
    /\ UNCHANGED <<client, received, up, end, queue, worker, out, user, fate, history>>

-----------------------------------------------------------------------------
(* A worker: respons_stb_info and send_buffer_to_fd. *)

HandlerOf(j) == IF j.msg = 0 THEN "idle"
                ELSE IF Answered(j.msg) THEN "sending"
                ELSE IF sent[j.msg] = "SENDUI" THEN "login" ELSE "idle"

Start(w, j) ==
    /\ wpc' = [wpc EXCEPT ![w] = HandlerOf(j)]
    /\ job' = [job EXCEPT ![w] = IF HandlerOf(j) = "idle" THEN NoMessage ELSE j]
    /\ n' = [n EXCEPT ![w] = IF HandlerOf(j) = "sending" THEN AnswerLen ELSE 0]
    /\ overlapped' = overlapped \cup
         {{j.msg, job[v].msg} : v \in {u \in Workers : {HandlerOf(j), wpc[u]} = {"sending"}}}

\* Faulty variant: the newest job is taken.
TakeNewest(w) ==
    /\ wpc[w] = "idle" /\ queue # <<>>
    /\ Start(w, queue[Len(queue)])
    /\ queue' = SubSeq(queue, 1, Len(queue) - 1)
    /\ UNCHANGED <<client, received, arrival, open, out, user, fate, cut, blocked, retries>>

Take(w) ==
    /\ wpc[w] = "idle" /\ queue # <<>>
    /\ Start(w, Head(queue))
    /\ queue' = Tail(queue)
    /\ UNCHANGED <<client, received, arrival, open, out, user, fate, cut, blocked, retries>>

Done(w) ==
    /\ wpc' = [wpc EXCEPT ![w] = "idle"] /\ job' = [job EXCEPT ![w] = NoMessage]
    /\ n' = [n EXCEPT ![w] = 0]

\* Faulty variant: the name is read behind its place.
NoName(j) == "none"

\* The user name of a SENDUI: the linux client puts it four bytes too early.
Name(j) == IF ~j.whole THEN "empty" ELSE IF program = "linux" THEN "shifted" ELSE "own"

Login(w) ==
    /\ wpc[w] = "login"
    /\ user' = Name(job[w])
    /\ Done(w)
    /\ UNCHANGED <<client, received, arrival, open, queue, out, fate, history>>

\* Faulty variant: the pointer is off by one.
PieceOff(w, k) == [i \in 1..k |-> [msg |-> job[w].msg, place |-> AnswerLen - n[w] + i + 1]]

\* k units from pucBuf + iLen - n; places below 1 are bytes before the buffer.
Piece(w, k) == [i \in 1..k |-> [msg |-> job[w].msg, place |-> AnswerLen - n[w] + i]]

Taken(w) == IF Room - Len(out) < n[w] THEN Room - Len(out) ELSE n[w]

\* The while of send_buffer_to_fd goes on as long as something is left.
Left(w, k) ==
    IF k > 0 THEN n' = [n EXCEPT ![w] = k] /\ UNCHANGED <<wpc, job>> ELSE Done(w)

CanWrite(w) == wpc[w] = "sending" /\ ~exited /\ Len(out) < Room

\* Faulty variant: the bytes are written one by one.
WriteOne(w) ==
    /\ CanWrite(w)
    /\ out' = out \o Piece(w, 1)
    /\ Left(w, n[w] - 1)
    /\ UNCHANGED <<client, received, arrival, open, queue, user, fate, history>>

\* Faulty variant: a short write is taken for a complete one.
WriteAssumesAll(w) ==
    /\ CanWrite(w)
    /\ out' = out \o Piece(w, Taken(w))
    /\ Left(w, 0)
    /\ cut' = IF Taken(w) < n[w] THEN cut \cup {job[w].msg} ELSE cut
    /\ UNCHANGED <<client, received, arrival, open, queue, user, fate, blocked, retries, overlapped>>

\* The kernel takes what it has room for.
Write(w) ==
    /\ CanWrite(w)
    /\ out' = out \o Piece(w, Taken(w))
    /\ Left(w, n[w] - Taken(w))
    /\ cut' = IF Taken(w) < n[w] THEN cut \cup {job[w].msg} ELSE cut
    /\ UNCHANGED <<client, received, arrival, open, queue, user, fate, blocked, retries, overlapped>>

\* EAGAIN: n is lowered by what write has returned, -1.
WouldBlock(w) ==
    /\ wpc[w] = "sending" /\ ~exited /\ Len(out) = Room /\ retries < MaxRetries
    /\ n' = [n EXCEPT ![w] = @ + 1]
    /\ cut' = cut \cup {job[w].msg}
    /\ blocked' = [blocked EXCEPT ![job[w].msg] = @ + 1] /\ retries' = retries + 1
    /\ UNCHANGED <<client, received, arrival, open, queue, wpc, job, out, user, fate,
                   overlapped>>

\* The client has gone: LOG_INFO, and 0 is returned.
WriteFails(w) ==
    /\ wpc[w] = "sending" /\ exited
    /\ Done(w)
    /\ UNCHANGED <<client, received, arrival, open, queue, out, user, fate, history>>

-----------------------------------------------------------------------------

Client == WindowsClient \/ LinuxClient
Receiver == recv_func \/ recv_thread
Network == Deliver \/ DeliverEnd
MainThread == Recv \/ DumpOverrun \/ RecvFails
Worker(w) == Take(w) \/ Login(w) \/ Write(w) \/ WouldBlock(w) \/ WriteFails(w)

\* The server has closed the connection, or has ended, when it is no longer open.
Next == open /\ (Client \/ Receiver \/ Network \/ MainThread \/ \E w \in Workers : Worker(w))

Spec == Init /\ [][Next]_vars

\* TCP delivers, epoll_wait and the workers' loops never rest, the client always reads.  What
\* the user types and the timer are not fair.
FairSpec ==
    /\ Spec
    /\ WF_vars(open /\ Network) /\ WF_vars(open /\ MainThread) /\ WF_vars(open /\ Receiver)
    /\ \A w \in Workers : WF_vars(open /\ Worker(w))

-----------------------------------------------------------------------------
(* Properties. *)

Units == [msg : Messages, place : (1 - MaxRetries)..AnswerLen]

TypeOK ==
    /\ program \in {"win32", "linux"}
    /\ sent \in Seq({"HANDSHAKE", "SENDUI", "GETREMOTE", "GETALLUSER", "HEARTBEAT"})
    /\ Len(sent) <= MaxCommands + 2
    /\ {exited, end, edge, open, misread, paced, parts} \subseteq BOOLEAN
    /\ up \in Seq([msg : Messages, part : 1..3]) /\ inbox \in Seq([msg : Messages, part : 1..3])
    /\ queue \in Seq([msg : Messages \cup {0}, whole : BOOLEAN])
    /\ wpc \in [Workers -> {"idle", "login", "sending"}]
    /\ job \in [Workers -> [msg : Messages \cup {0}, whole : BOOLEAN]]
    /\ n \in [Workers -> 0..(AnswerLen + MaxRetries)]
    /\ out \in Seq(Units) /\ got \in Seq(Units) /\ Len(out) <= Room
    /\ user \in {"none", "own", "empty", "shifted"}
    /\ fate \in [Messages -> {"waiting", "divided", "whole", "cut", "torn", "lost", "swallowed"}]
    /\ cut \subseteq Messages
    /\ blocked \in [Messages -> 0..MaxRetries] /\ retries \in 0..MaxRetries
    /\ overlapped \in SUBSET SUBSET Messages

\* All that was written to the client, and where in it the answer to message i stands.
Stream == got \o out
At(i) == {k \in DOMAIN Stream : Stream[k].msg = i}
Working(i) == \E w \in Workers : job[w].msg = i

\* The messages whose first byte has not been received.
Incoming == {(inbox \o up)[k].msg : k \in {l \in DOMAIN (inbox \o up) : (inbox \o up)[l].part = 1}}

\* A client that sends each message after the last was received is not cut off, and each of
\* its messages is received whole, unless TCP has divided it: only what waits together is
\* taken for one request, or for an error (g_net_update.c:291).  Of a divided message the
\* first byte or the header may be all that is read, and the first byte alone is ignored.
PacedClientIsHeard ==
    paced => /\ open \/ exited
             /\ open => \A i \in (1..Len(sent)) \ Incoming :
                          fate[i] \in {"whole", "cut", "torn"}

\* The first bytes of two answers come in the other order than their requests only if two
\* workers had the requests at one time.
SwappedOnlyWhenOverlapping ==
    \A k, l \in DOMAIN Stream :
      /\ k < l /\ Stream[k].msg > Stream[l].msg
      /\ \A j \in 1..(l - 1) : Stream[j].msg # Stream[l].msg
      => {Stream[k].msg, Stream[l].msg} \in overlapped

\* However the writes are cut and whatever the other workers send, an answer that has ended
\* is exact (g_net_update.c:318) but for the writes that would block: each moves the pointer
\* back by one (line 334), and the answer is a unit longer, with repeats.
CompleteWithRepeats ==
    \A i \in Messages :
      At(i) # {} /\ ~Working(i) /\ ~exited =>
        /\ Cardinality(At(i)) = AnswerLen + blocked[i]
        /\ \A k, l \in At(i) : k < l /\ At(i) \cap (k + 1)..(l - 1) = {} =>
             Stream[l].place <= Stream[k].place + 1
        /\ \A p \in 1..AnswerLen : \E k \in At(i) : Stream[k].place = p

\* Two answers mix only when a write was short or would have blocked (g_net_update.c:316).
MixedOnlyWhenCut ==
    \A i, j, k \in DOMAIN Stream :
      i < j /\ j < k /\ Stream[i].msg = Stream[k].msg /\ Stream[j].msg # Stream[i].msg =>
        Stream[i].msg \in cut

\* The client takes bytes for a header that are none only after it has received an answer in
\* parts, or the server has written one with repeats (Win32ClientTest.cpp:24).
MisreadNeedsParts == misread => parts \/ \E i \in Messages : blocked[i] > 0

\* Writes have blocked as often as the model follows them.  Nothing in the code bounds that,
\* and each makes its answer longer: the answer need not end, and its worker does nothing
\* else (g_net_update.c:316-334).
Unbounded == retries = MaxRetries

\* A request is served -- the login of the windows client gives the slot its name, an answer
\* arrives whole -- unless its first byte came alone or behind another message, the server
\* closed the connection or ended, writes blocked without end or, for an answer, the client
\* has gone.  A login needs more than its header.
RequestIsServed ==
    /\ (Len(sent) >= 2 /\ program = "win32") ~>
         (user = "own" \/ fate[2] \in {"cut", "torn", "swallowed"} \/ ~open \/ Unbounded)
    /\ \A i \in Messages \ {2} : (Len(sent) >= i /\ Answered(i)) ~>
         \/ \E k \in DOMAIN got : got[k] = [msg |-> i, place |-> AnswerLen]
         \/ fate[i] \in {"torn", "swallowed"} \/ ~open \/ Unbounded \/ exited
=============================================================================
