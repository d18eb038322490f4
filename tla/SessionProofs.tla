---------------------------- MODULE SessionProofs ----------------------------
(***************************************************************************)
(* Proofs about a session, for any number of workers and requests, answers *)
(* and sockets of any size, any number of writes that would block, and any *)
(* buffers of more than three units, a message's largest number.           *)
(*                                                                         *)
(* First the receiving side: the order of the requests, and a client that  *)
(* waits its turn.  Then the sending side: the order of the answers, their *)
(* mixing, what there is of each, and what the client makes of them.       *)
(***************************************************************************)
EXTENDS Session, FiniteSetTheorems, SequenceTheorems, TLAPS

USE SessionConstants

(***************************************************************************)
(* The inductive invariant.                                                *)
(***************************************************************************)

\* What a worker has in hand: of an answer, what is left of it and what it went back by.
HandInv(w) ==
    /\ wpc[w] = "idle" => job[w] = NoMessage
    /\ wpc[w] # "idle" => job[w].msg \in Messages
    /\ wpc[w] = "sending" => n[w] \in 1..(AnswerLen + blocked[job[w].msg])

TypeInv ==
    /\ TypeOK
    /\ \A w \in Workers : HandInv(w)
    /\ \A i \in Messages : blocked[i] <= retries

\* What has arrived or is on its way.
Arriving == inbox \o up

\* The requests a worker has taken, and that have left a trace since.
Started(i) == Working(i) \/ At(i) # {} \/ blocked[i] > 0

\* Messages arrive in the order of their numbers, are queued in that order and taken in it:
\* a request that is queued or still to come is younger than all that were taken.
FifoInv ==
    /\ \A k \in DOMAIN Arriving : Arriving[k].msg <= Len(sent)
    /\ \A k, l \in DOMAIN Arriving :
         k < l /\ Arriving[k].part = 1 /\ Arriving[l].part = 1 => Arriving[k].msg < Arriving[l].msg
    /\ \A k \in DOMAIN queue :
         /\ queue[k].msg <= Len(sent)
         /\ \A l \in DOMAIN queue :
              k < l /\ queue[k].msg # 0 /\ queue[l].msg # 0 => queue[k].msg < queue[l].msg
         /\ \A l \in DOMAIN Arriving :
              queue[k].msg # 0 /\ Arriving[l].part = 1 => queue[k].msg < Arriving[l].msg
    /\ \A i \in Messages : Started(i) =>
         /\ i <= Len(sent)
         /\ \A k \in DOMAIN queue : queue[k].msg # 0 => i < queue[k].msg
         /\ \A l \in DOMAIN Arriving : Arriving[l].part = 1 => i < Arriving[l].msg

\* No request is in the hands of two workers, and a login sends nothing.
OwnInv ==
    /\ \A v, w \in Workers : wpc[v] # "idle" /\ job[v].msg = job[w].msg => v = w
    /\ \A w \in Workers : wpc[w] = "login" => At(job[w].msg) = {}
    /\ exited => Stream = <<>>

\* The order of the answers' first units and their mixing, with what the answers have done
\* that are still being sent.
OrderInv ==
    /\ \A w \in Workers : wpc[w] = "sending" /\ At(job[w].msg) # {} => job[w].msg \in cut
    /\ ~exited => \A v, w \in Workers :
         v # w /\ wpc[v] = "sending" /\ wpc[w] = "sending" => {job[v].msg, job[w].msg} \in overlapped
    /\ ~exited => \A w \in Workers, k \in DOMAIN Stream :
         wpc[w] = "sending" /\ At(job[w].msg) = {} /\ job[w].msg < Stream[k].msg =>
           {Stream[k].msg, job[w].msg} \in overlapped
    /\ SwappedOnlyWhenOverlapping /\ MixedOnlyWhenCut

\* From one unit of an answer to the next the places go up by one or back, and the next to
\* be written is not too high either.
NoGap(i) ==
    /\ \A k, l \in At(i) : k < l /\ At(i) \cap (k + 1)..(l - 1) = {} =>
         Stream[l].place <= Stream[k].place + 1
    /\ \A w \in Workers, k \in At(i) :
         wpc[w] = "sending" /\ job[w].msg = i /\ (\A l \in At(i) : l <= k) =>
           AnswerLen - n[w] <= Stream[k].place

\* m units of the answer are left.
Covered(i, m) ==
    /\ Cardinality(At(i)) = AnswerLen + blocked[i] - m
    /\ \A p \in 1..(AnswerLen - m) : \E k \in At(i) : Stream[k].place = p

\* What there is of an answer, also while it is being sent.
PiecesInv ==
    ~exited => \A i \in Messages :
      /\ NoGap(i)
      /\ \A w \in Workers : wpc[w] = "sending" /\ job[w].msg = i => Covered(i, n[w])
      /\ At(i) # {} /\ ~Working(i) => Covered(i, 0)

\* An answer whose writes never blocked is sent upwards from its first unit.
UpwardsInv ==
    ~exited => \A i \in Messages : blocked[i] = 0 =>
      /\ \A k, l \in At(i) : k < l => Stream[k].place < Stream[l].place
      /\ \A k \in At(i) : Stream[k].place # 1 => \E l \in At(i) : l < k /\ Stream[l].place = 1
      /\ \A w \in Workers, k \in At(i) :
           wpc[w] = "sending" /\ job[w].msg = i => Stream[k].place <= AnswerLen - n[w]

ReadInv == (~parts => ~Incomplete(got)) /\ MisreadNeedsParts

(***************************************************************************)
(* The steps, and the types.                                               *)
(***************************************************************************)

\* What may become of a message.
Fates == {"waiting", "divided", "whole", "cut", "torn", "lost", "swallowed"}

Cmds == {"HANDSHAKE", "SENDUI", "GETREMOTE", "GETALLUSER", "HEARTBEAT"}

\* The steps by their effect; a client sends no more than the bound allows.
LEMMA SideSteps ==
  ASSUME [Next]_vars
  PROVE  \/ \E c \in Cmds : SendMessage(c) /\ Len(sent) <= MaxCommands + 1
         \/ Exit
         \/ ClientRecv /\ (misread' = misread \/ misread' = (misread \/ out[1].place # 1))
         \/ Deliver \/ DeliverEnd \/ Recv \/ DumpOverrun \/ RecvFails
         \/ \E w \in Workers : Worker(w)
         \/ UNCHANGED vars
<1>1. CASE Client
  <2>1. \A m : m = 0 \/ m = 1 \/ m \in 2..(MaxCommands + 1) => m <= MaxCommands + 1
    OBVIOUS
  <2> QED BY <1>1, <2>1 DEF Client, WindowsClient, LinuxClient, Handshake, SendUI, Command, Cmds
<1>2. CASE Receiver
  BY <1>2 DEF Receiver, recv_func, recv_thread
<1>3. CASE Network \/ MainThread
  BY <1>3 DEF Network, MainThread
<1> QED BY <1>1, <1>2, <1>3 DEF Next

\* Sequences of the same length with the same elements are the same.
LEMMA SameElements ==
  ASSUME NEW S, NEW s \in Seq(S), NEW t \in Seq(S), Len(s) = Len(t),
         \A i \in 1..Len(s) : s[i] = t[i]
  PROVE  s = t
<1>1. s \in [1..Len(s) -> S] /\ t \in [1..Len(s) -> S]
  OBVIOUS
<1> QED BY <1>1

\* Where the elements of two sequences stand in the one made of both.
LEMMA Concatenation ==
  ASSUME NEW S, NEW s \in Seq(S), NEW t \in Seq(S)
  PROVE  /\ s \o t \in Seq(S) /\ Len(s \o t) = Len(s) + Len(t)
         /\ \A i \in 1..Len(s) : (s \o t)[i] = s[i]
         /\ \A i \in 1..Len(t) : (s \o t)[Len(s) + i] = t[i]
OBVIOUS

\* Cutting a sequence anew and putting it together (TCP's deliveries and the client's recv).
LEMMA Recut ==
  ASSUME NEW S, NEW a \in Seq(S), NEW b \in Seq(S), NEW k \in 1..Len(b)
  PROVE  (a \o SubSeq(b, 1, k)) \o SubSeq(b, k + 1, Len(b)) = a \o b
<1> DEFINE c == a \o SubSeq(b, 1, k)
           d == SubSeq(b, k + 1, Len(b))
<1>1. /\ c \in Seq(S) /\ d \in Seq(S) /\ Len(c) = Len(a) + k /\ Len(d) = Len(b) - k
      /\ \A i \in 1..Len(a) : c[i] = a[i]
      /\ \A i \in 1..k : c[Len(a) + i] = b[i]
      /\ \A i \in 1..(Len(b) - k) : d[i] = b[k + i]
  OBVIOUS
<1> HIDE DEF c, d
<1>2. /\ c \o d \in Seq(S) /\ Len(c \o d) = Len(a) + Len(b)
      /\ \A i \in 1..Len(c) : (c \o d)[i] = c[i]
      /\ \A i \in 1..Len(d) : (c \o d)[Len(c) + i] = d[i]
  <2>1. Len(c) + Len(d) = Len(a) + Len(b)
    BY <1>1
  <2>2. c \in Seq(S) /\ d \in Seq(S)
    BY <1>1
  <2>3. /\ c \o d \in Seq(S) /\ Len(c \o d) = Len(c) + Len(d)
        /\ \A i \in 1..Len(c) : (c \o d)[i] = c[i]
        /\ \A i \in 1..Len(d) : (c \o d)[Len(c) + i] = d[i]
    BY <2>2, Concatenation
  <2> QED BY <2>1, <2>3
<1>3. /\ a \o b \in Seq(S) /\ Len(a \o b) = Len(a) + Len(b)
      /\ \A i \in 1..Len(a) : (a \o b)[i] = a[i]
      /\ \A i \in 1..Len(b) : (a \o b)[Len(a) + i] = b[i]
  OBVIOUS
<1>5. ASSUME NEW i \in 1..(Len(a) + Len(b)) PROVE (c \o d)[i] = (a \o b)[i]
  <2>1. i \in Int /\ Len(a) \in Nat /\ Len(b) \in Nat /\ k \in 1..Len(b)
    OBVIOUS
  <2>2. CASE i <= Len(a)
    <3>1. i \in 1..Len(a) /\ i \in 1..Len(c)
      BY <1>1, <2>1, <2>2
    <3> QED BY <1>1, <1>2, <1>3, <3>1
  <2>3. CASE i > Len(a) /\ i <= Len(a) + k
    <3>1. PICK h \in 1..k : i = Len(a) + h
      <4>1. i - Len(a) \in 1..k /\ i = Len(a) + (i - Len(a))
        BY <2>1, <2>3
      <4> QED BY <4>1
    <3>2. h \in 1..Len(b) /\ i \in 1..Len(c)
      BY <1>1, <2>1, <3>1
    <3> QED BY <1>1, <1>2, <1>3, <3>1, <3>2
  <2>4. CASE i > Len(a) + k
    <3>1. PICK h \in 1..(Len(b) - k) : i = Len(a) + k + h
      <4>1. i - (Len(a) + k) \in 1..(Len(b) - k) /\ i = Len(a) + k + (i - (Len(a) + k))
        BY <2>1, <2>4
      <4> QED BY <4>1
    <3>2. k + h \in 1..Len(b) /\ h \in 1..Len(d) /\ i = Len(c) + h /\ i = Len(a) + (k + h)
      BY <1>1, <2>1, <3>1
    <3>3. (c \o d)[i] = d[h] /\ (a \o b)[i] = b[k + h]
      BY <1>2, <1>3, <3>2
    <3> QED BY <1>1, <3>1, <3>3
  <2>5. i <= Len(a) \/ (i > Len(a) /\ i <= Len(a) + k) \/ i > Len(a) + k
    BY <2>1
  <2> QED BY <2>2, <2>3, <2>4, <2>5
<1>4. c \o d = a \o b
  BY <1>2, <1>3, <1>5, SameElements
<1> QED BY <1>4 DEF c, d

LEMMA RecutType ==
  ASSUME NEW S, NEW a \in Seq(S), NEW b \in Seq(S), NEW k \in 1..Len(b)
  PROVE  /\ a \o SubSeq(b, 1, k) \in Seq(S) /\ SubSeq(b, k + 1, Len(b)) \in Seq(S)
         /\ Len(SubSeq(b, k + 1, Len(b))) = Len(b) - k
OBVIOUS

\* What write takes: something, no more than is left and no more than there is room for; the
\* places are those of an answer, or of up to MaxRetries units before it.
LEMMA PieceType ==
  ASSUME TypeInv, NEW w \in Workers, CanWrite(w)
  PROVE  /\ Taken(w) \in 1..n[w] /\ Len(out) + Taken(w) <= Room
         /\ n[w] \in Nat /\ n[w] <= AnswerLen + MaxRetries
         /\ Piece(w, Taken(w)) \in Seq(Units) /\ Len(Piece(w, Taken(w))) = Taken(w)
         /\ \A i \in 1..Taken(w) : Piece(w, Taken(w))[i] = [msg |-> job[w].msg, place |-> AnswerLen - n[w] + i]
<1>1. /\ Len(out) \in Nat /\ Len(out) < Room /\ job[w].msg \in Messages
      /\ n[w] \in 1..(AnswerLen + MaxRetries)
  BY DEF CanWrite, TypeInv, TypeOK, HandInv
<1>2. Taken(w) \in 1..n[w] /\ Len(out) + Taken(w) <= Room
  BY <1>1 DEF Taken
<1> DEFINE t == Taken(w)
<1>3. \A i \in 1..t : [msg |-> job[w].msg, place |-> AnswerLen - n[w] + i] \in Units
  BY <1>1, <1>2 DEF Units
<1> HIDE DEF t
<1>4. Piece(w, t) \in [1..t -> Units] /\ t \in Nat
  BY <1>1, <1>2, <1>3 DEF Piece, t
<1>5. Piece(w, t) \in Seq(Units) /\ Len(Piece(w, t)) = t
  BY <1>4
<1> QED BY <1>1, <1>2, <1>5 DEF t, Piece

\* A step of the client, of the network or of the main thread keeps the types.
LEMMA OthersType ==
  ASSUME TypeInv,
         \/ \E c \in Cmds : SendMessage(c) /\ Len(sent) <= MaxCommands + 1
         \/ Exit
         \/ ClientRecv /\ (misread' = misread \/ misread' = (misread \/ out[1].place # 1))
         \/ Deliver \/ DeliverEnd \/ Recv \/ DumpOverrun \/ RecvFails
  PROVE  TypeInv'
<1> USE DEF client, received, arrival, worker, history
<1>0. TypeOK
  BY DEF TypeInv
<1>1. UNCHANGED <<wpc, job, n, blocked, retries>>
  BY DEF SendMessage, Exit, ClientRecv, Deliver, DeliverEnd, Recv, DumpOverrun, RecvFails
<1>2. (\A w \in Workers : HandInv(w))' /\ (\A i \in Messages : blocked[i] <= retries)'
  BY <1>1 DEF TypeInv, HandInv
<1>3. SUFFICES TypeOK'
  BY <1>2 DEF TypeInv
<1>4. ASSUME NEW c \in Cmds, SendMessage(c), Len(sent) <= MaxCommands + 1
      PROVE  TypeOK'
  <2> DEFINE S == [msg : Messages, part : 1..3]
             message == [p \in 1..Size(c) |-> [msg |-> Len(sent) + 1, part |-> p]]
  <2>1. Len(sent) \in Nat
    BY <1>0 DEF TypeOK
  <2>2. Size(c) \in 2..3 /\ Len(sent) + 1 \in Messages
    BY <1>4, <2>1 DEF Size, Messages
  <2>3. message \in Seq(S)
    <3>1. message \in [1..Size(c) -> S] /\ Size(c) \in Nat
      BY <2>2
    <3> HIDE DEF S, message
    <3> QED BY <3>1
  <2>4. /\ sent' = Append(sent, c) /\ up' = up \o message /\ paced' = (paced /\ up = <<>> /\ inbox = <<>>)
        /\ UNCHANGED <<program, exited, received, inbox, end, edge, open, queue, worker, out,
                       user, fate, history>>
    BY <1>4 DEF SendMessage
  <2> HIDE DEF S, message
  <2>5. up' \in Seq(S)
    BY <1>0, <2>3, <2>4, Concatenation DEF TypeOK, S
  <2>6. sent' \in Seq(Cmds) /\ Len(sent') <= MaxCommands + 2
    BY <1>0, <1>4, <2>1, <2>4 DEF TypeOK, Cmds
  <2>7. {exited', end', edge', open', misread', paced', parts'} \subseteq BOOLEAN
    BY <1>0, <2>4 DEF TypeOK
  <2> QED BY <1>0, <2>4, <2>5, <2>6, <2>7 DEF TypeOK, Cmds, S
<1>5. CASE Exit
  <2>1. /\ exited' = TRUE /\ out' = <<>> /\ got' = <<>> /\ misread' = FALSE /\ parts' = FALSE
        /\ cut' = {} /\ overlapped' = {}
        /\ UNCHANGED <<program, sent, paced, arrival, open, queue, worker, user, fate, blocked, retries>>
    BY <1>5 DEF Exit
  <2>2. {exited', end', edge', open', misread', paced', parts'} \subseteq BOOLEAN
    BY <1>0, <2>1 DEF TypeOK
  <2>3. out' \in Seq(Units) /\ got' \in Seq(Units) /\ Len(out') <= Room
    BY <2>1
  <2> QED BY <1>0, <2>1, <2>2, <2>3 DEF TypeOK
<1>6. CASE ClientRecv /\ (misread' = misread \/ misread' = (misread \/ out[1].place # 1))
  <2>1. PICK k \in 1..Len(out) : got' = got \o SubSeq(out, 1, k) /\ out' = SubSeq(out, k + 1, Len(out))
    BY <1>6 DEF ClientRecv
  <2>2. out \in Seq(Units) /\ got \in Seq(Units) /\ Len(out) <= Room
    BY <1>0 DEF TypeOK
  <2>3. got' \in Seq(Units) /\ out' \in Seq(Units) /\ Len(out') = Len(out) - k
    BY <2>1, <2>2, RecutType
  <2>4. Len(out') <= Room
    BY <2>2, <2>3
  <2>5. {exited', end', edge', open', misread', paced', parts'} \subseteq BOOLEAN
    BY <1>0, <1>6 DEF ClientRecv, TypeOK
  <2> QED BY <1>0, <1>6, <2>3, <2>4, <2>5 DEF ClientRecv, TypeOK
<1>7. CASE Deliver
  <2> DEFINE S == [msg : Messages, part : 1..3]
  <2>1. PICK k \in 1..Len(up) : inbox' = inbox \o SubSeq(up, 1, k) /\ up' = SubSeq(up, k + 1, Len(up))
    BY <1>7 DEF Deliver
  <2>2. inbox \in Seq(S) /\ up \in Seq(S)
    BY <1>0 DEF TypeOK
  <2> HIDE DEF S
  <2>3. inbox' \in Seq(S) /\ up' \in Seq(S)
    BY <2>1, <2>2, RecutType
  <2>4. {exited', end', edge', open', misread', paced', parts'} \subseteq BOOLEAN
    BY <1>0, <1>7 DEF Deliver, TypeOK
  <2>5. fate' \in [Messages -> Fates]
    BY <1>0, <1>7 DEF Deliver, TypeOK, Fates
  <2> QED BY <1>0, <1>7, <2>3, <2>4, <2>5 DEF Deliver, TypeOK, S, Fates
<1>8. CASE DeliverEnd \/ DumpOverrun \/ RecvFails
  <2>1. {exited', end', edge', open', misread', paced', parts'} \subseteq BOOLEAN
    BY <1>0, <1>8 DEF DeliverEnd, DumpOverrun, RecvFails, TypeOK
  <2>2. (inbox' = inbox \/ inbox' = <<>>) /\ up' = up
    BY <1>8 DEF DeliverEnd, DumpOverrun, RecvFails
  <2>3. inbox' \in Seq([msg : Messages, part : 1..3])
    <3> DEFINE S == [msg : Messages, part : 1..3]
    <3>1. inbox \in Seq(S)
      BY <1>0 DEF TypeOK
    <3> HIDE DEF S
    <3>2. <<>> \in Seq(S)
      OBVIOUS
    <3>3. CASE inbox' = inbox
      BY <3>1, <3>3 DEF S
    <3>4. CASE inbox' = <<>>
      BY <3>2, <3>4 DEF S
    <3> QED BY <2>2, <3>3, <3>4
  <2> QED BY <1>0, <1>8, <2>1, <2>2, <2>3 DEF DeliverEnd, DumpOverrun, RecvFails, TypeOK
<1>9. CASE Recv
  <2>1. /\ queue' = Append(queue, JobOf(inbox)) /\ inbox' = <<>> /\ edge' = FALSE
        /\ fate' \in [Messages -> Fates]
        /\ UNCHANGED <<client, received, up, end, open, worker, out, user, history>>
    BY <1>0, <1>9 DEF Recv, FateOf, TypeOK, Fates
  <2>2. \A k \in 1..Len(inbox) : inbox[k].msg \in Messages
    <3> DEFINE S == [msg : Messages, part : 1..3]
    <3>1. inbox \in Seq(S) /\ \A x \in S : x.msg \in Messages
      BY <1>0 DEF TypeOK
    <3> HIDE DEF S
    <3>2. \A k \in 1..Len(inbox) : inbox[k] \in S
      BY <3>1
    <3> QED BY <3>1, <3>2
  <2>3. JobOf(inbox) \in [msg : Messages \cup {0}, whole : BOOLEAN]
    <3>1. inbox # <<>> => 1 \in 1..Len(inbox)
      BY <1>0 DEF TypeOK
    <3> QED BY <2>2, <3>1 DEF JobOf, First, NoMessage
  <2>5. {exited', end', edge', open', misread', paced', parts'} \subseteq BOOLEAN
    BY <1>0, <2>1 DEF TypeOK
  <2>6. queue' \in Seq([msg : Messages \cup {0}, whole : BOOLEAN])
    BY <1>0, <2>1, <2>3 DEF TypeOK
  <2> QED BY <1>0, <2>1, <2>5, <2>6 DEF TypeOK, Fates
<1> QED BY <1>4, <1>5, <1>6, <1>7, <1>8, <1>9

\* A worker's step keeps the types.
LEMMA WorkerType ==
  ASSUME TypeInv, NEW w \in Workers, Worker(w)
  PROVE  TypeInv'
<1> DEFINE J == [msg : Messages \cup {0}, whole : BOOLEAN]
           N == 0..(AnswerLen + MaxRetries)
<1>0. /\ TypeOK /\ \A v \in Workers : HandInv(v)
      /\ wpc \in [Workers -> {"idle", "login", "sending"}] /\ job \in [Workers -> J]
      /\ n \in [Workers -> N] /\ 0 \in N /\ AnswerLen \in N
      /\ blocked \in [Messages -> 0..MaxRetries] /\ cut \subseteq Messages
      /\ retries \in 0..MaxRetries /\ \A i \in Messages : blocked[i] <= retries
      /\ overlapped \in SUBSET SUBSET Messages
      /\ queue \in Seq(J) /\ out \in Seq(Units) /\ Len(out) <= Room
      /\ NoMessage \in J /\ NoMessage.msg = 0
  BY DEF TypeInv, TypeOK, NoMessage
<1>1. /\ UNCHANGED <<client, received, arrival, open, fate>>
      /\ user' \in {"none", "own", "empty", "shifted"}
  BY <1>0 DEF Worker, Take, Login, Name, Write, WouldBlock, WriteFails, TypeOK, history
<1> HIDE DEF J, N
<1>2. SUFFICES /\ wpc' \in [Workers -> {"idle", "login", "sending"}] /\ job' \in [Workers -> J]
               /\ n' \in [Workers -> N] /\ queue' \in Seq(J) /\ out' \in Seq(Units) /\ Len(out') <= Room
               /\ cut' \subseteq Messages /\ blocked' \in [Messages -> 0..MaxRetries]
               /\ overlapped' \in SUBSET SUBSET Messages
               /\ retries' \in 0..MaxRetries /\ \A i \in Messages : blocked'[i] <= retries'
               /\ \A v \in Workers : HandInv(v)'
  BY <1>0, <1>1 DEF TypeInv, TypeOK, J, N, client, received, arrival
<1>3. CASE Take(w)
  <2> DEFINE j == Head(queue)
             h == HandlerOf(j)
             pairs == {{j.msg, job[v].msg} : v \in {u \in Workers : {h, wpc[u]} = {"sending"}}}
  <2>1. j \in J /\ Tail(queue) \in Seq(J)
    BY <1>0, <1>3 DEF Take
  <2>2. h \in {"idle", "login", "sending"} /\ (h # "idle" => j.msg \in Messages)
    BY <2>1 DEF HandlerOf, J
  <2>3. pairs \in SUBSET SUBSET Messages
    <3>1. \A v \in Workers : {h, wpc[v]} = {"sending"} =>
            j.msg \in Messages /\ job[v].msg \in Messages
      BY <1>0, <2>2 DEF HandInv
    <3> HIDE DEF j, h
    <3> QED BY <3>1
  <2>4. /\ wpc' = [wpc EXCEPT ![w] = h] /\ job' = [job EXCEPT ![w] = IF h = "idle" THEN NoMessage ELSE j]
        /\ n' = [n EXCEPT ![w] = IF h = "sending" THEN AnswerLen ELSE 0]
        /\ overlapped' = overlapped \cup pairs /\ queue' = Tail(queue)
        /\ UNCHANGED <<out, cut, blocked, retries>>
    BY <1>3 DEF Take, Start
  <2> HIDE DEF j, h, pairs
  <2>5. \A v \in Workers : HandInv(v)'
    <3>1. h # "idle" => j.msg \in Messages /\ AnswerLen \in 1..(AnswerLen + blocked[j.msg])
      BY <1>0, <2>2
    <3>2. HandInv(w)'
      BY <1>0, <2>2, <2>4, <3>1 DEF HandInv
    <3>3. ASSUME NEW v \in Workers \ {w} PROVE HandInv(v)'
      BY <1>0, <2>4 DEF HandInv
    <3> QED BY <3>2, <3>3
  <2> QED BY <1>0, <2>1, <2>2, <2>3, <2>4, <2>5
<1>4. CASE Done(w) /\ UNCHANGED <<queue, out, history>>
  <2>1. \A v \in Workers : HandInv(v)'
    BY <1>0, <1>4 DEF Done, HandInv, history
  <2> QED BY <1>0, <1>4, <2>1 DEF Done, history
<1>5. CASE Write(w)
  <2> DEFINE t == Taken(w)
  <2>1. /\ t \in 1..n[w] /\ Len(out) + t <= Room /\ n[w] \in Nat
        /\ Piece(w, t) \in Seq(Units) /\ Len(Piece(w, t)) = t /\ job[w].msg \in Messages
    BY <1>0, <1>5, PieceType DEF Write, CanWrite, HandInv
  <2>2. /\ out' = out \o Piece(w, t) /\ Left(w, n[w] - t) /\ wpc[w] = "sending"
        /\ cut' = cut \/ cut' = cut \cup {job[w].msg}
        /\ UNCHANGED <<queue, blocked, retries, overlapped>>
    BY <1>5 DEF Write, CanWrite
  <2> HIDE DEF t
  <2>3. out' \in Seq(Units) /\ Len(out') <= Room
    BY <1>0, <2>1, <2>2, Concatenation
  <2>4. cut' \subseteq Messages
    BY <1>0, <2>1, <2>2
  <2>5. CASE n[w] - t > 0
    <3>1. /\ n[w] - t \in 1..(AnswerLen + blocked[job[w].msg]) /\ n[w] - t \in N
          /\ n' = [n EXCEPT ![w] = n[w] - t] /\ UNCHANGED <<wpc, job>>
      <4>1. n[w] \in 1..(AnswerLen + blocked[job[w].msg]) /\ blocked[job[w].msg] \in 0..MaxRetries
        BY <1>0, <2>1, <2>2 DEF HandInv
      <4>2. n' = [n EXCEPT ![w] = n[w] - t] /\ UNCHANGED <<wpc, job>>
        BY <2>2, <2>5 DEF Left
      <4>3. \A x, d, b : /\ x \in 1..(AnswerLen + b) /\ b \in 0..MaxRetries /\ d \in 1..x /\ x - d > 0
                        => x - d \in 1..(AnswerLen + b) /\ x - d \in 0..(AnswerLen + MaxRetries)
        OBVIOUS
      <4>4. n[w] - t \in 1..(AnswerLen + blocked[job[w].msg]) /\ n[w] - t \in 0..(AnswerLen + MaxRetries)
        BY <2>1, <2>5, <4>1, <4>3
      <4> QED BY <4>2, <4>4 DEF N
    <3>2. \A v \in Workers : HandInv(v)'
      BY <1>0, <2>2, <3>1 DEF HandInv
    <3> QED BY <1>0, <2>2, <2>3, <2>4, <3>1, <3>2
  <2>6. CASE ~(n[w] - t > 0)
    <3>1. Done(w)
      BY <2>2, <2>6 DEF Left
    <3>2. \A v \in Workers : HandInv(v)'
      BY <1>0, <2>2, <3>1 DEF Done, HandInv
    <3> QED BY <1>0, <2>2, <2>3, <2>4, <3>1, <3>2 DEF Done
  <2> QED BY <2>5, <2>6
<1>6. CASE WouldBlock(w)
  <2> DEFINE i == job[w].msg
  <2>1. /\ i \in Messages /\ blocked[i] < MaxRetries /\ retries < MaxRetries /\ retries' = retries + 1
        /\ blocked' = [blocked EXCEPT ![i] = blocked[i] + 1]
        /\ n' = [n EXCEPT ![w] = n[w] + 1] /\ cut' = cut \cup {i} /\ n[w] \in 1..(AnswerLen + blocked[i])
        /\ UNCHANGED <<queue, wpc, job, out, overlapped>>
    BY <1>0, <1>6 DEF WouldBlock, HandInv
  <2> HIDE DEF i
  <2>2. blocked[i] \in 0..MaxRetries
    BY <1>0, <2>1
  <2>3. /\ n[w] + 1 \in 1..(AnswerLen + (blocked[i] + 1)) /\ n[w] + 1 \in N
        /\ blocked[i] + 1 \in 0..MaxRetries
    BY <2>1, <2>2 DEF N
  <2>4. HandInv(w)'
    BY <1>0, <2>1, <2>3 DEF HandInv, i
  <2>5. ASSUME NEW v \in Workers \ {w} PROVE HandInv(v)'
    <3>1. n'[v] = n[v] /\ n[v] \in Int /\ HandInv(v)
      BY <1>0, <2>1 DEF N
    <3>2. \A m \in Messages : /\ blocked[m] \in Int /\ blocked'[m] \in Int
                              /\ blocked'[m] = blocked[m] \/ blocked'[m] = blocked[m] + 1
      BY <1>0, <2>1
    <3> QED BY <2>1, <3>1, <3>2 DEF HandInv
  <2>6. /\ retries' \in 0..MaxRetries
        /\ \A m \in Messages : blocked'[m] <= retries'
    BY <1>0, <2>1, <2>2
  <2> QED BY <1>0, <2>1, <2>3, <2>4, <2>5, <2>6
<1> QED BY <1>3, <1>4, <1>5, <1>6 DEF Worker, Login, WriteFails

\* Types and what the workers hold.
LEMMA TypeInvariant == Spec => []TypeInv
<1>1. Init => TypeInv
  <2> SUFFICES ASSUME Init PROVE TypeInv
    OBVIOUS
  <2>1. /\ 0 \in 0..MaxRetries /\ 0 \in 0..(AnswerLen + MaxRetries) /\ NoMessage.msg = 0
        /\ NoMessage \in [msg : Messages \cup {0}, whole : BOOLEAN]
    BY DEF NoMessage
  <2>2. TypeOK
    <3>1. /\ sent \in Seq(Cmds) /\ Len(sent) = 0 /\ up \in Seq([msg : Messages, part : 1..3])
          /\ inbox \in Seq([msg : Messages, part : 1..3])
          /\ queue \in Seq([msg : Messages \cup {0}, whole : BOOLEAN])
          /\ out \in Seq(Units) /\ got \in Seq(Units) /\ Len(out) = 0
      BY DEF Init
    <3>2. /\ wpc \in [Workers -> {"idle", "login", "sending"}]
          /\ job \in [Workers -> [msg : Messages \cup {0}, whole : BOOLEAN]]
          /\ n \in [Workers -> 0..(AnswerLen + MaxRetries)] /\ blocked \in [Messages -> 0..MaxRetries]
      BY <2>1 DEF Init
    <3>3. /\ {exited, end, edge, open, misread, paced, parts} \subseteq BOOLEAN
          /\ fate \in [Messages -> Fates] /\ cut = {} /\ overlapped = {}
          /\ user \in {"none", "own", "empty", "shifted"} /\ program \in {"win32", "linux"}
          /\ retries \in 0..MaxRetries
      BY <2>1 DEF Init, Fates
    <3> QED BY <3>1, <3>2, <3>3 DEF TypeOK, Cmds, Fates
  <2>3. \A w \in Workers : HandInv(w)
    BY DEF Init, HandInv
  <2>4. \A i \in Messages : blocked[i] <= retries
    BY DEF Init
  <2> QED BY <2>2, <2>3, <2>4 DEF TypeInv
<1>2. TypeInv /\ [Next]_vars => TypeInv'
  <2> SUFFICES ASSUME TypeInv, [Next]_vars PROVE TypeInv'
    OBVIOUS
  <2>1. CASE UNCHANGED vars
    BY <2>1 DEF vars, TypeInv, TypeOK, HandInv
  <2>2. CASE ~UNCHANGED vars
    BY <2>2, SideSteps, OthersType, WorkerType
  <2> QED BY <2>1, <2>2
<1> QED BY <1>1, <1>2, PTL DEF Spec

\* Every variable of a session keeps its type: what a write that would block takes n back by
\* (g_net_update.c:334) stays within the retries.
THEOREM TypeCorrect == Spec => []TypeOK
<1>1. TypeInv => TypeOK
  BY DEF TypeInv
<1> QED BY <1>1, TypeInvariant, PTL

(***************************************************************************)
(* The stream of answers, step by step.                                    *)
(***************************************************************************)

\* What the stream holds.
LEMMA StreamType ==
  ASSUME TypeInv
  PROVE  /\ Stream \in Seq(Units) /\ Len(Stream) \in Nat /\ DOMAIN Stream = 1..Len(Stream)
         /\ \A k \in 1..Len(Stream) :
              Stream[k].msg \in Messages /\ Stream[k].place \in Int /\ Stream[k].place <= AnswerLen
<1>1. got \in Seq(Units) /\ out \in Seq(Units)
  BY DEF TypeInv, TypeOK
<1>2. Stream \in Seq(Units)
  BY <1>1, Concatenation DEF Stream
<1>3. \A u \in Units : u.msg \in Messages /\ u.place \in Int /\ u.place <= AnswerLen
  BY DEF Units
<1> QED BY <1>2, <1>3

\* The client's recv moves the border between got and out and nothing else.
LEMMA StreamKept == ASSUME TypeInv, ClientRecv PROVE Stream' = Stream
<1>1. got \in Seq(Units) /\ out \in Seq(Units)
  BY DEF TypeInv, TypeOK
<1>2. PICK k \in 1..Len(out) : got' = got \o SubSeq(out, 1, k) /\ out' = SubSeq(out, k + 1, Len(out))
  BY DEF ClientRecv
<1>3. (got \o SubSeq(out, 1, k)) \o SubSeq(out, k + 1, Len(out)) = got \o out
  BY <1>1, <1>2, Recut, Zenon
<1> QED BY <1>2, <1>3 DEF Stream

\* A write puts a piece behind the stream.
LEMMA StreamGrows ==
  ASSUME TypeInv, NEW w \in Workers, Write(w)
  PROVE  /\ Len(Stream') = Len(Stream) + Taken(w)
         /\ \A k \in 1..Len(Stream) : Stream'[k] = Stream[k]
         /\ \A k \in (Len(Stream) + 1)..(Len(Stream) + Taken(w)) :
              /\ Stream'[k].msg = job[w].msg
              /\ Stream'[k].place = AnswerLen - n[w] + (k - Len(Stream))
<1> DEFINE t == Taken(w)
           P == Piece(w, t)
<1>1. /\ got \in Seq(Units) /\ out \in Seq(Units)
  BY DEF TypeInv, TypeOK
<1>2. /\ P \in Seq(Units) /\ Len(P) = t /\ t \in Nat
      /\ \A i \in 1..t : P[i] = [msg |-> job[w].msg, place |-> AnswerLen - n[w] + i]
  BY PieceType DEF Write
<1>3. out' = out \o P /\ got' = got
  BY DEF Write, received
<1> HIDE DEF t, P
<1>4. Stream' = Stream \o P
  <2>1. (got \o out) \o P = got \o (out \o P)
    BY <1>1, <1>2, ConcatAssociative
  <2> QED BY <1>3, <2>1 DEF Stream
<1>5. Stream \in Seq(Units) /\ Len(Stream) \in Nat
  BY StreamType
<1>6. /\ Len(Stream') = Len(Stream) + t
      /\ \A k \in 1..Len(Stream) : Stream'[k] = Stream[k]
      /\ \A i \in 1..t : Stream'[Len(Stream) + i] = P[i]
  <2>1. /\ Len(Stream \o P) = Len(Stream) + Len(P)
        /\ \A k \in 1..Len(Stream) : (Stream \o P)[k] = Stream[k]
        /\ \A i \in 1..Len(P) : (Stream \o P)[Len(Stream) + i] = P[i]
    <3>1. Stream \in Seq(Units) /\ P \in Seq(Units)
      BY <1>2, <1>5
    <3> QED BY ONLY <3>1, Concatenation
  <2> QED BY <1>2, <1>4, <2>1
<1>7. ASSUME NEW k \in (Len(Stream) + 1)..(Len(Stream) + t)
      PROVE  /\ Stream'[k].msg = job[w].msg
             /\ Stream'[k].place = AnswerLen - n[w] + (k - Len(Stream))
  <2>1. k - Len(Stream) \in 1..t /\ k = Len(Stream) + (k - Len(Stream))
    BY <1>2, <1>5
  <2> DEFINE h == k - Len(Stream)
  <2>2. h \in 1..t /\ k = Len(Stream) + h
    BY <2>1
  <2> HIDE DEF h
  <2>3. Stream'[k] = P[h] /\ P[h] = [msg |-> job[w].msg, place |-> AnswerLen - n[w] + h]
    BY <1>2, <1>6, <2>2
  <2>4. Stream'[k].msg = job[w].msg /\ Stream'[k].place = AnswerLen - n[w] + h
    BY <2>3
  <2> QED BY <2>4 DEF h
<1>8. \A k \in (Len(Stream) + 1)..(Len(Stream) + t) :
        /\ Stream'[k].msg = job[w].msg
        /\ Stream'[k].place = AnswerLen - n[w] + (k - Len(Stream))
  BY <1>7
<1> QED BY <1>6, <1>8 DEF t

\* Where the answers stand after it: the writer's own has a piece more.
LEMMA AtGrows ==
  ASSUME TypeInv, NEW w \in Workers, Write(w), NEW i \in Messages
  PROVE  At(i)' = IF i = job[w].msg
                  THEN At(i) \cup (Len(Stream) + 1)..(Len(Stream) + Taken(w))
                  ELSE At(i)
<1>1. /\ Len(Stream) \in Nat /\ DOMAIN Stream = 1..Len(Stream) /\ Taken(w) \in Nat
      /\ DOMAIN Stream' = 1..(Len(Stream) + Taken(w))
  <2>1. TypeInv'
    BY WorkerType DEF Worker
  <2>2. DOMAIN Stream' = 1..Len(Stream')
    BY <2>1, StreamType
  <2>3. Taken(w) \in 1..n[w] /\ n[w] \in Nat
    BY PieceType DEF Write
  <2> QED BY <2>2, <2>3, StreamType, StreamGrows
<1>2. ASSUME NEW k
      PROVE  k \in At(i)' <=> k \in At(i) \/ (i = job[w].msg /\ k \in (Len(Stream) + 1)..(Len(Stream) + Taken(w)))
  <2>1. k \in At(i)' <=> k \in 1..(Len(Stream) + Taken(w)) /\ Stream'[k].msg = i
    BY <1>1 DEF At
  <2>2. k \in At(i) <=> k \in 1..Len(Stream) /\ Stream[k].msg = i
    BY <1>1 DEF At
  <2>3. k \in 1..(Len(Stream) + Taken(w)) <=>
          k \in 1..Len(Stream) \/ k \in (Len(Stream) + 1)..(Len(Stream) + Taken(w))
    BY <1>1
  <2>4. ~(k \in 1..Len(Stream) /\ k \in (Len(Stream) + 1)..(Len(Stream) + Taken(w)))
    BY <1>1
  <2> QED BY <2>1, <2>2, <2>3, <2>4, StreamGrows
<1> QED BY <1>2

\* What else a write does: the worker goes on with what is left, or is done.
LEMMA WriteEffect ==
  ASSUME TypeInv, NEW w \in Workers, Write(w)
  PROVE  /\ wpc[w] = "sending" /\ ~exited /\ job[w].msg \in Messages
         /\ Taken(w) \in 1..n[w] /\ n[w] \in 1..(AnswerLen + blocked[job[w].msg])
         /\ UNCHANGED <<blocked, overlapped, exited, sent, inbox, up, queue>>
         /\ cut \subseteq cut' /\ (Taken(w) < n[w] => job[w].msg \in cut')
         /\ \A v \in Workers \ {w} : wpc'[v] = wpc[v] /\ job'[v] = job[v] /\ n'[v] = n[v]
         /\ \/ Taken(w) < n[w] /\ wpc'[w] = "sending" /\ job'[w] = job[w] /\ n'[w] = n[w] - Taken(w)
            \/ Taken(w) = n[w] /\ wpc'[w] = "idle" /\ job'[w] = NoMessage
<1>1. /\ HandInv(w) /\ Taken(w) \in 1..n[w] /\ n[w] \in Nat
      /\ wpc \in [Workers -> {"idle", "login", "sending"}]
      /\ job \in [Workers -> [msg : Messages \cup {0}, whole : BOOLEAN]]
      /\ n \in [Workers -> 0..(AnswerLen + MaxRetries)]
  BY PieceType DEF TypeInv, TypeOK, Write
<1>2. /\ CanWrite(w) /\ Left(w, n[w] - Taken(w))
      /\ cut' = IF Taken(w) < n[w] THEN cut \cup {job[w].msg} ELSE cut
      /\ UNCHANGED <<blocked, overlapped, exited, sent, inbox, up, queue>>
  BY DEF Write, client, arrival
<1>3. wpc[w] = "sending" /\ ~exited
  BY <1>2 DEF CanWrite
<1>4. job[w].msg \in Messages /\ n[w] \in 1..(AnswerLen + blocked[job[w].msg])
  BY <1>1, <1>3 DEF HandInv
<1>5. CASE n[w] - Taken(w) > 0
  <2>1. n' = [n EXCEPT ![w] = n[w] - Taken(w)] /\ wpc' = wpc /\ job' = job /\ Taken(w) < n[w]
    BY <1>1, <1>2, <1>5 DEF Left
  <2> QED BY <1>1, <1>2, <1>3, <1>4, <2>1
<1>6. CASE ~(n[w] - Taken(w) > 0)
  <2>1. Done(w) /\ Taken(w) = n[w]
    BY <1>1, <1>2, <1>6 DEF Left
  <2> QED BY <1>1, <1>2, <1>3, <1>4, <2>1 DEF Done
<1> QED BY <1>5, <1>6

\* What the answers' invariants are about.
Answers == <<Stream, wpc, job, n, cut, blocked, overlapped, exited>>

\* The steps, by what they do to the answers.
LEMMA AnswerSteps ==
  ASSUME TypeInv, [Next]_vars
  PROVE  \/ UNCHANGED Answers
         \/ Exit
         \/ \E w \in Workers : \/ Take(w) \/ Write(w) \/ WouldBlock(w)
                               \/ Login(w) \/ WriteFails(w)
<1> USE DEF client, received, arrival, worker, history
<1>1. CASE \E c \in Cmds : SendMessage(c)
  BY <1>1 DEF SendMessage, Answers, Stream
<1>2. CASE ClientRecv
  <2>1. UNCHANGED <<wpc, job, n, cut, blocked, overlapped, exited>>
    BY <1>2 DEF ClientRecv
  <2> QED BY <1>2, <2>1, StreamKept DEF Answers
<1>3. CASE Deliver \/ DeliverEnd \/ Recv \/ DumpOverrun \/ RecvFails
  BY <1>3 DEF Deliver, DeliverEnd, Recv, DumpOverrun, RecvFails, Answers, Stream
<1>4. CASE UNCHANGED vars
  BY <1>4 DEF vars, Answers, Stream
<1> QED BY <1>1, <1>2, <1>3, <1>4, SideSteps DEF Worker

(***************************************************************************)
(* Requests are taken in the order in which they were sent.                *)
(***************************************************************************)

Parts == [msg : Messages, part : 1..3]

\* What has arrived stands before what is on its way.
LEMMA ArrivingType ==
  ASSUME TypeInv
  PROVE  /\ inbox \in Seq(Parts) /\ up \in Seq(Parts) /\ Arriving \in Seq(Parts)
         /\ DOMAIN Arriving = 1..Len(Arriving) /\ Len(Arriving) = Len(inbox) + Len(up)
         /\ \A k \in DOMAIN Arriving : Arriving[k].msg \in Messages
         /\ \A k \in 1..Len(inbox) : k \in DOMAIN Arriving /\ Arriving[k] = inbox[k]
         /\ \A k \in 1..Len(up) :
              Len(inbox) + k \in DOMAIN Arriving /\ Arriving[Len(inbox) + k] = up[k]
<1>1. inbox \in Seq(Parts) /\ up \in Seq(Parts)
  BY DEF TypeInv, TypeOK, Parts
<1>2. \A x \in Parts : x.msg \in Messages
  BY DEF Parts
<1>3. /\ Arriving \in Seq(Parts) /\ Len(Arriving) = Len(inbox) + Len(up)
      /\ \A k \in 1..Len(inbox) : Arriving[k] = inbox[k]
      /\ \A k \in 1..Len(up) : Arriving[Len(inbox) + k] = up[k]
  BY <1>1, Concatenation DEF Arriving
<1>4. DOMAIN Arriving = 1..Len(Arriving) /\ Len(inbox) \in Nat /\ Len(up) \in Nat
  BY <1>1, <1>3
<1>5. \A k \in DOMAIN Arriving : Arriving[k] \in Parts
  BY <1>3
<1>6. /\ \A k \in 1..Len(inbox) : k \in 1..Len(Arriving)
      /\ \A k \in 1..Len(up) : Len(inbox) + k \in 1..Len(Arriving)
  BY <1>3, <1>4
<1> QED BY <1>1, <1>2, <1>3, <1>4, <1>5, <1>6

\* Jobs are numbered like the messages.
LEMMA QueueType ==
  ASSUME TypeInv
  PROVE  /\ DOMAIN queue = 1..Len(queue) /\ Len(queue) \in Nat
         /\ \A k \in DOMAIN queue : queue[k].msg \in Messages \cup {0} /\ queue[k].msg \in Int
<1> DEFINE J == [msg : Messages \cup {0}, whole : BOOLEAN]
<1>1. queue \in Seq(J)
  BY DEF TypeInv, TypeOK
<1>2. \A x \in J : x.msg \in Messages \cup {0} /\ x.msg \in Int
  BY DEF Messages
<1> HIDE DEF J
<1> QED BY <1>1, <1>2

\* Nothing arrives and no job comes or goes.
LEMMA FifoKept ==
  ASSUME FifoInv, Arriving' = Arriving, UNCHANGED <<sent, queue>>,
         \A i \in Messages : Started(i)' => Started(i)
  PROVE  FifoInv'
BY DEF FifoInv

\* A message is sent: its header is younger than all there is.
LEMMA FifoSend ==
  ASSUME TypeInv, FifoInv, NEW c \in Cmds, SendMessage(c), Len(sent) <= MaxCommands + 1
  PROVE  FifoInv'
<1> DEFINE message == [p \in 1..Size(c) |-> [msg |-> Len(sent) + 1, part |-> p]]
<1>1. Len(sent) \in Nat /\ sent \in Seq(Cmds)
  BY DEF TypeInv, TypeOK, Cmds
<1>2. Size(c) \in 2..3 /\ Len(sent) + 1 \in Messages
  BY <1>1 DEF Size, Messages
<1>3. /\ message \in Seq(Parts) /\ Len(message) = Size(c)
      /\ \A p \in 1..Len(message) : message[p].msg = Len(sent) + 1 /\ (message[p].part = 1 => p = 1)
  <2>1. message \in [1..Size(c) -> Parts] /\ Size(c) \in Nat
    BY <1>2 DEF Parts
  <2>2. \A p \in 1..Size(c) : message[p].msg = Len(sent) + 1 /\ message[p].part = p
    OBVIOUS
  <2> HIDE DEF message
  <2>3. message \in Seq(Parts) /\ Len(message) = Size(c)
    BY <2>1
  <2> QED BY <2>2, <2>3
<1>4. /\ up' = up \o message /\ sent' = Append(sent, c) /\ inbox' = inbox /\ queue' = queue
      /\ UNCHANGED <<job, got, out, blocked>>
  BY DEF SendMessage, worker, received, history
<1> HIDE DEF message
<1>5. Len(sent') = Len(sent) + 1
  BY <1>1, <1>4
<1>6. Arriving' = Arriving \o message
  <2>1. (inbox \o up) \o message = inbox \o (up \o message)
    <3>1. inbox \in Seq(Parts) /\ up \in Seq(Parts) /\ message \in Seq(Parts)
      BY <1>3, ArrivingType
    <3> QED BY ONLY <3>1, ConcatAssociative
  <2> QED BY <1>4, <2>1 DEF Arriving
<1>7. /\ DOMAIN Arriving = 1..Len(Arriving) /\ Len(Arriving) \in Nat /\ Arriving \in Seq(Parts)
      /\ \A k \in DOMAIN Arriving : Arriving[k].msg \in Int
  <2>1. \A i \in Messages : i \in Int
    BY DEF Messages
  <2> QED BY <2>1, ArrivingType
<1>8. /\ DOMAIN Arriving' = 1..(Len(Arriving) + Len(message))
      /\ \A k \in 1..Len(Arriving) : Arriving'[k] = Arriving[k]
      /\ \A p \in 1..Len(message) : Arriving'[Len(Arriving) + p] = message[p]
  <2>1. Arriving \in Seq(Parts) /\ message \in Seq(Parts)
    BY <1>3, <1>7
  <2>2. /\ Arriving \o message \in Seq(Parts) /\ Len(Arriving \o message) = Len(Arriving) + Len(message)
        /\ \A k \in 1..Len(Arriving) : (Arriving \o message)[k] = Arriving[k]
        /\ \A p \in 1..Len(message) : (Arriving \o message)[Len(Arriving) + p] = message[p]
    BY ONLY <2>1, Concatenation
  <2>3. DOMAIN (Arriving \o message) = 1..Len(Arriving \o message)
    BY <2>2
  <2> QED BY <1>6, <2>2, <2>3
<1>9. ASSUME NEW k \in DOMAIN Arriving'
      PROVE  \/ k \in DOMAIN Arriving /\ Arriving'[k] = Arriving[k]
             \/ /\ k > Len(Arriving) /\ Arriving'[k].msg = Len(sent) + 1
                /\ Arriving'[k].part = 1 => k = Len(Arriving) + 1
  <2>1. CASE k <= Len(Arriving)
    BY <1>7, <1>8, <2>1
  <2>2. CASE k > Len(Arriving)
    <3>1. k - Len(Arriving) \in 1..Len(message) /\ k = Len(Arriving) + (k - Len(Arriving))
      BY <1>2, <1>3, <1>7, <1>8, <2>2
    <3>2. Arriving'[k] = message[k - Len(Arriving)]
      BY <1>8, <3>1
    <3>3. Arriving'[k].part = 1 => k - Len(Arriving) = 1
      BY <1>3, <3>1, <3>2
    <3> QED BY <1>3, <1>7, <2>2, <3>1, <3>2, <3>3
  <2>3. k \in Int
    BY <1>7, <1>8
  <2> QED BY <1>7, <2>1, <2>2, <2>3
<1>10. \A i \in Messages : Started(i)' <=> Started(i)
  BY <1>4 DEF Started, Working, At, Stream
<1>11. /\ \A k \in DOMAIN Arriving : Arriving[k].msg <= Len(sent)
       /\ \A k, l \in DOMAIN Arriving :
            k < l /\ Arriving[k].part = 1 /\ Arriving[l].part = 1 => Arriving[k].msg < Arriving[l].msg
       /\ \A k \in DOMAIN queue : queue[k].msg <= Len(sent) /\ queue[k].msg \in Int
       /\ \A i \in Messages : Started(i) => i <= Len(sent) /\ i \in Int
  <2> QED BY QueueType DEF FifoInv, Messages
<1>12. \A k \in DOMAIN Arriving' : Arriving'[k].msg <= Len(sent')
  BY <1>1, <1>5, <1>7, <1>9, <1>11
<1>13. \A k, l \in DOMAIN Arriving' :
         k < l /\ Arriving'[k].part = 1 /\ Arriving'[l].part = 1 => Arriving'[k].msg < Arriving'[l].msg
  BY <1>1, <1>7, <1>8, <1>9, <1>11
<1>14. ASSUME NEW k \in DOMAIN queue'
       PROVE  /\ queue'[k].msg <= Len(sent')
              /\ \A l \in DOMAIN queue' :
                   k < l /\ queue'[k].msg # 0 /\ queue'[l].msg # 0 => queue'[k].msg < queue'[l].msg
              /\ \A l \in DOMAIN Arriving' :
                   queue'[k].msg # 0 /\ Arriving'[l].part = 1 => queue'[k].msg < Arriving'[l].msg
  <2>1. queue'[k].msg <= Len(sent')
    BY <1>1, <1>4, <1>5, <1>11
  <2>2. \A l \in DOMAIN queue' :
          k < l /\ queue'[k].msg # 0 /\ queue'[l].msg # 0 => queue'[k].msg < queue'[l].msg
    BY <1>4 DEF FifoInv
  <2>3. ASSUME NEW l \in DOMAIN Arriving', queue'[k].msg # 0, Arriving'[l].part = 1
        PROVE  queue'[k].msg < Arriving'[l].msg
    <3>1. CASE l \in DOMAIN Arriving /\ Arriving'[l] = Arriving[l]
      BY <1>4, <2>3, <3>1 DEF FifoInv
    <3>2. CASE Arriving'[l].msg = Len(sent) + 1
      BY <1>1, <1>4, <1>11, <3>2
    <3> QED BY <1>9, <3>1, <3>2
  <2> QED BY <2>1, <2>2, <2>3
<1>15. ASSUME NEW i \in Messages, Started(i)'
       PROVE  /\ i <= Len(sent')
              /\ \A k \in DOMAIN queue' : queue'[k].msg # 0 => i < queue'[k].msg
              /\ \A l \in DOMAIN Arriving' : Arriving'[l].part = 1 => i < Arriving'[l].msg
  <2>1. Started(i)
    BY <1>10, <1>15
  <2>2. i <= Len(sent')
    BY <1>1, <1>5, <1>11, <2>1
  <2>3. \A k \in DOMAIN queue' : queue'[k].msg # 0 => i < queue'[k].msg
    BY <1>4, <2>1 DEF FifoInv
  <2>4. ASSUME NEW l \in DOMAIN Arriving', Arriving'[l].part = 1 PROVE i < Arriving'[l].msg
    <3>1. CASE l \in DOMAIN Arriving /\ Arriving'[l] = Arriving[l]
      BY <2>1, <2>4, <3>1 DEF FifoInv
    <3>2. CASE Arriving'[l].msg = Len(sent) + 1
      BY <1>1, <1>11, <2>1, <3>2
    <3> QED BY <1>9, <3>1, <3>2
  <2> QED BY <2>2, <2>3, <2>4
<1> QED BY <1>12, <1>13, <1>14, <1>15 DEF FifoInv

\* What is read is no longer to come; it is queued by its first header, or dropped.
LEMMA FifoReceive ==
  ASSUME TypeInv, FifoInv, Recv \/ DumpOverrun \/ RecvFails
  PROVE  FifoInv'
<1>1. /\ inbox' = <<>> /\ up' = up /\ sent' = sent
      /\ queue' = queue \/ queue' = Append(queue, JobOf(inbox))
      /\ UNCHANGED <<job, got, out, blocked>>
  BY DEF Recv, DumpOverrun, RecvFails, client, received, worker, history
<1>2. \A i \in Messages : Started(i)' <=> Started(i)
  BY <1>1 DEF Started, Working, At, Stream
<1>3. inbox \in Seq(Parts) /\ Len(inbox) \in Nat /\ \A i \in Messages : i \in Int /\ i # 0
  BY ArrivingType DEF Messages
<1>4. Arriving' = up
  <2>1. up \in Seq(Parts)
    BY ArrivingType
  <2>2. <<>> \o up = up
    BY <2>1, ConcatEmptySeq
  <2> QED BY <1>1, <2>2 DEF Arriving
<1>5. \A k \in DOMAIN Arriving' : /\ k \in Nat \ {0} /\ Len(inbox) + k \in DOMAIN Arriving
                                  /\ Arriving'[k] = Arriving[Len(inbox) + k]
  BY <1>4, ArrivingType
<1>6. \A k \in DOMAIN Arriving' : Arriving'[k].msg <= Len(sent')
  BY <1>1, <1>5 DEF FifoInv
<1>7. ASSUME NEW k \in DOMAIN Arriving', NEW l \in DOMAIN Arriving',
             k < l, Arriving'[k].part = 1, Arriving'[l].part = 1
      PROVE  Arriving'[k].msg < Arriving'[l].msg
  <2>1. Len(inbox) + k < Len(inbox) + l
    BY <1>3, <1>5, <1>7
  <2> QED BY <1>5, <1>7, <2>1 DEF FifoInv
\* The job that is queued, if any: its header came before all that is to come.
<1>8. ASSUME NEW m, m = JobOf(inbox).msg, m # 0
      PROVE  /\ 1 \in DOMAIN Arriving /\ Arriving[1].part = 1 /\ Arriving[1].msg = m
             /\ \A k \in DOMAIN Arriving' : 1 < Len(inbox) + k
  <2>1. inbox # <<>> /\ inbox[1].part = 1 /\ inbox[1].msg = m
    BY <1>8 DEF JobOf, First, NoMessage
  <2>2. 1 \in 1..Len(inbox)
    BY <1>3, <2>1
  <2>3. \A k \in DOMAIN Arriving' : 1 < Len(inbox) + k
    BY <1>3, <1>5, <2>2
  <2> QED BY <2>1, <2>2, <2>3, ArrivingType
<1>9. /\ \A k \in DOMAIN queue : queue[k].msg # 0 /\ JobOf(inbox).msg # 0 => queue[k].msg < JobOf(inbox).msg
      /\ \A i \in Messages : Started(i) /\ JobOf(inbox).msg # 0 => i < JobOf(inbox).msg
      /\ JobOf(inbox).msg # 0 => JobOf(inbox).msg <= Len(sent)
      /\ \A l \in DOMAIN Arriving' :
           JobOf(inbox).msg # 0 /\ Arriving'[l].part = 1 => JobOf(inbox).msg < Arriving'[l].msg
  <2> SUFFICES ASSUME JobOf(inbox).msg # 0
               PROVE  /\ \A k \in DOMAIN queue : queue[k].msg # 0 => queue[k].msg < JobOf(inbox).msg
                      /\ \A i \in Messages : Started(i) => i < JobOf(inbox).msg
                      /\ JobOf(inbox).msg <= Len(sent)
                      /\ \A l \in DOMAIN Arriving' :
                           Arriving'[l].part = 1 => JobOf(inbox).msg < Arriving'[l].msg
    OBVIOUS
  <2>1. /\ 1 \in DOMAIN Arriving /\ Arriving[1].part = 1 /\ Arriving[1].msg = JobOf(inbox).msg
        /\ \A k \in DOMAIN Arriving' : 1 < Len(inbox) + k
    BY <1>8
  <2>2. \A l \in DOMAIN Arriving' : Arriving'[l].part = 1 => JobOf(inbox).msg < Arriving'[l].msg
    BY <1>5, <2>1 DEF FifoInv
  <2>3. \A k \in DOMAIN queue : queue[k].msg # 0 => queue[k].msg < JobOf(inbox).msg
    BY <2>1 DEF FifoInv
  <2>4. \A i \in Messages : Started(i) => i < JobOf(inbox).msg
    BY <2>1 DEF FifoInv
  <2>5. JobOf(inbox).msg <= Len(sent)
    BY <2>1 DEF FifoInv
  <2> QED BY <2>2, <2>3, <2>4, <2>5
<1>10. Len(sent) \in Nat /\ JobOf(inbox).msg \in Int
  <2>1. inbox # <<>> => inbox[1].msg \in Int
    BY <1>3, ArrivingType
  <2> QED BY <2>1 DEF TypeInv, TypeOK, JobOf, First, NoMessage
<1>11. ASSUME NEW k \in DOMAIN queue'
       PROVE  \/ k \in DOMAIN queue /\ queue'[k] = queue[k]
              \/ k = Len(queue) + 1 /\ queue'[k] = JobOf(inbox)
  <2>1. CASE queue' = queue
    BY <2>1
  <2>2. CASE queue' = Append(queue, JobOf(inbox))
    <3>1. DOMAIN queue' = 1..(Len(queue) + 1) /\ queue'[Len(queue) + 1] = JobOf(inbox)
          /\ \A h \in 1..Len(queue) : queue'[h] = queue[h]
      <4>1. queue \in Seq([msg : Messages \cup {0}, whole : BOOLEAN])
        BY DEF TypeInv, TypeOK
      <4> QED BY <2>2, <4>1
    <3>2. k \in 1..Len(queue) \/ k = Len(queue) + 1
      BY <3>1, QueueType
    <3> QED BY <3>1, <3>2, QueueType
  <2> QED BY <1>1, <2>1, <2>2
<1>12. ASSUME NEW k \in DOMAIN queue'
       PROVE  /\ queue'[k].msg <= Len(sent')
              /\ \A l \in DOMAIN queue' :
                   k < l /\ queue'[k].msg # 0 /\ queue'[l].msg # 0 => queue'[k].msg < queue'[l].msg
              /\ \A l \in DOMAIN Arriving' :
                   queue'[k].msg # 0 /\ Arriving'[l].part = 1 => queue'[k].msg < Arriving'[l].msg
  <2>1. queue'[k].msg <= Len(sent')
    BY <1>1, <1>9, <1>10, <1>11 DEF FifoInv
  <2>2. ASSUME NEW l \in DOMAIN queue', k < l, queue'[k].msg # 0, queue'[l].msg # 0
        PROVE  queue'[k].msg < queue'[l].msg
    <3>1. k \in DOMAIN queue /\ queue'[k] = queue[k]
      BY <1>11, <2>2, QueueType
    <3>2. CASE l \in DOMAIN queue /\ queue'[l] = queue[l]
      BY <2>2, <3>1, <3>2 DEF FifoInv
    <3>3. CASE queue'[l] = JobOf(inbox)
      BY <1>9, <2>2, <3>1, <3>3
    <3> QED BY <1>11, <3>2, <3>3
  <2>3. ASSUME NEW l \in DOMAIN Arriving', queue'[k].msg # 0, Arriving'[l].part = 1
        PROVE  queue'[k].msg < Arriving'[l].msg
    <3>1. CASE k \in DOMAIN queue /\ queue'[k] = queue[k]
      BY <1>5, <2>3, <3>1 DEF FifoInv
    <3>2. CASE queue'[k] = JobOf(inbox)
      BY <1>9, <2>3, <3>2
    <3> QED BY <1>11, <3>1, <3>2
  <2> QED BY <2>1, <2>2, <2>3
<1>13. ASSUME NEW i \in Messages, Started(i)'
       PROVE  /\ i <= Len(sent')
              /\ \A k \in DOMAIN queue' : queue'[k].msg # 0 => i < queue'[k].msg
              /\ \A l \in DOMAIN Arriving' : Arriving'[l].part = 1 => i < Arriving'[l].msg
  <2>1. Started(i)
    BY <1>2, <1>13
  <2>2. i <= Len(sent')
    BY <1>1, <2>1 DEF FifoInv
  <2>3. \A k \in DOMAIN queue' : queue'[k].msg # 0 => i < queue'[k].msg
    BY <1>9, <1>11, <2>1 DEF FifoInv
  <2>4. \A l \in DOMAIN Arriving' : Arriving'[l].part = 1 => i < Arriving'[l].msg
    BY <1>5, <2>1 DEF FifoInv
  <2> QED BY <2>2, <2>3, <2>4
<1> QED BY <1>6, <1>7, <1>12, <1>13 DEF FifoInv

\* The request a worker takes is the oldest there is, and younger than all that were taken.
LEMMA FifoTake ==
  ASSUME TypeInv, FifoInv, NEW w \in Workers, Take(w)
  PROVE  FifoInv'
<1> DEFINE j == Head(queue)
<1>1. /\ queue # <<>> /\ queue' = Tail(queue) /\ UNCHANGED <<sent, inbox, up, got, out, blocked>>
      /\ job' = [job EXCEPT ![w] = IF HandlerOf(j) = "idle" THEN NoMessage ELSE j]
  BY DEF Take, Start, client, received, arrival
<1>2. /\ 1 \in DOMAIN queue /\ j = queue[1] /\ Arriving' = Arriving
      /\ \A k \in DOMAIN queue' : k \in Nat \ {0} /\ k + 1 \in DOMAIN queue /\ queue'[k] = queue[k + 1]
  <2>1. queue \in Seq([msg : Messages \cup {0}, whole : BOOLEAN])
    BY DEF TypeInv, TypeOK
  <2> QED BY <1>1, <2>1 DEF Arriving
<1>3. ASSUME NEW i \in Messages, Started(i)'
      PROVE  Started(i) \/ (j.msg # 0 /\ i = j.msg)
  <2>1. CASE Working(i)'
    <3>1. PICK v \in Workers : job'[v].msg = i
      BY <2>1 DEF Working
    <3>2. job \in [Workers -> [msg : Messages \cup {0}, whole : BOOLEAN]]
      BY DEF TypeInv, TypeOK
    <3>3. i # 0
      BY DEF Messages
    <3>4. job'[v] = job[v] \/ job'[v] = NoMessage \/ job'[v] = j
      BY <1>1, <3>2
    <3> QED BY <3>1, <3>3, <3>4 DEF Started, Working, NoMessage
  <2>2. CASE ~Working(i)'
    BY <1>1, <1>3, <2>2 DEF Started, At, Stream
  <2> QED BY <2>1, <2>2
<1> HIDE DEF j
<1>4. /\ \A k \in DOMAIN Arriving' : Arriving'[k].msg <= Len(sent')
      /\ \A k, l \in DOMAIN Arriving' :
           k < l /\ Arriving'[k].part = 1 /\ Arriving'[l].part = 1 => Arriving'[k].msg < Arriving'[l].msg
  BY <1>1, <1>2 DEF FifoInv
<1>5. ASSUME NEW k \in DOMAIN queue'
      PROVE  /\ queue'[k].msg <= Len(sent')
             /\ \A l \in DOMAIN queue' :
                  k < l /\ queue'[k].msg # 0 /\ queue'[l].msg # 0 => queue'[k].msg < queue'[l].msg
             /\ \A l \in DOMAIN Arriving' :
                  queue'[k].msg # 0 /\ Arriving'[l].part = 1 => queue'[k].msg < Arriving'[l].msg
  <2>1. \A l \in DOMAIN queue' : k < l => k + 1 < l + 1
    BY <1>2
  <2> QED BY <1>1, <1>2, <2>1 DEF FifoInv
<1>6. ASSUME NEW i \in Messages, Started(i)'
      PROVE  /\ i <= Len(sent')
             /\ \A k \in DOMAIN queue' : queue'[k].msg # 0 => i < queue'[k].msg
             /\ \A l \in DOMAIN Arriving' : Arriving'[l].part = 1 => i < Arriving'[l].msg
  <2>1. CASE Started(i)
    BY <1>1, <1>2, <2>1 DEF FifoInv
  <2>2. CASE j.msg # 0 /\ i = j.msg
    <3>1. \A k \in DOMAIN queue' : 1 < k + 1
      BY <1>2
    <3> QED BY <1>1, <1>2, <2>2, <3>1 DEF FifoInv
  <2> QED BY <1>3, <1>6, <2>1, <2>2
<1> QED BY <1>4, <1>5, <1>6 DEF FifoInv

LEMMA FifoStep == ASSUME TypeInv, FifoInv, [Next]_vars PROVE FifoInv'
<1> USE DEF client, received, arrival, worker, history
<1>1. CASE Exit
  <2>1. \A i \in Messages : Started(i)' => Started(i)
    BY <1>1 DEF Exit, Started, Working, At, Stream
  <2> QED BY <1>1, <2>1, FifoKept DEF Exit, Arriving
<1>2. CASE ClientRecv
  <2>1. \A i \in Messages : Started(i)' <=> Started(i)
    BY <1>2, StreamKept DEF ClientRecv, Started, Working, At
  <2> QED BY <1>2, <2>1, FifoKept DEF ClientRecv, Arriving
<1>3. CASE Deliver
  <2>1. PICK k \in 1..Len(up) : inbox' = inbox \o SubSeq(up, 1, k) /\ up' = SubSeq(up, k + 1, Len(up))
    BY <1>3 DEF Deliver
  <2>2. inbox \in Seq(Parts) /\ up \in Seq(Parts)
    BY ArrivingType
  <2>3. (inbox \o SubSeq(up, 1, k)) \o SubSeq(up, k + 1, Len(up)) = inbox \o up
    BY <2>1, <2>2, Recut, Zenon
  <2>4. Arriving' = Arriving
    BY <2>1, <2>3 DEF Arriving
  <2>5. \A i \in Messages : Started(i)' <=> Started(i)
    BY <1>3 DEF Deliver, Started, Working, At, Stream
  <2> QED BY <1>3, <2>4, <2>5, FifoKept DEF Deliver
<1>4. CASE DeliverEnd \/ UNCHANGED vars
  <2>1. UNCHANGED <<inbox, up, sent, queue, job, got, out, blocked>>
    BY <1>4 DEF DeliverEnd, vars
  <2>2. \A i \in Messages : Started(i)' <=> Started(i)
    BY <2>1 DEF Started, Working, At, Stream
  <2> QED BY <2>1, <2>2, FifoKept DEF Arriving
<1>5. ASSUME NEW w \in Workers, Login(w) \/ WriteFails(w)
      PROVE  FifoInv'
  <2>1. UNCHANGED <<inbox, up, sent, queue, got, out, blocked>> /\ Done(w)
    BY <1>5 DEF Login, WriteFails
  <2>2. job \in [Workers -> [msg : Messages \cup {0}, whole : BOOLEAN]]
    BY DEF TypeInv, TypeOK
  <2>3. \A v \in Workers : job'[v] = job[v] \/ job'[v] = NoMessage
    BY <2>1, <2>2 DEF Done
  <2>4. \A i \in Messages : i # 0
    BY DEF Messages
  <2>5. \A i \in Messages : Started(i)' => Started(i)
    BY <2>1, <2>3, <2>4 DEF Started, Working, At, Stream, NoMessage
  <2> QED BY <2>1, <2>5, FifoKept DEF Arriving
<1>6. ASSUME NEW w \in Workers, Write(w)
      PROVE  FifoInv'
  <2>1. /\ UNCHANGED <<blocked, sent, inbox, up, queue>>
        /\ \A v \in Workers : job'[v] = job[v] \/ job'[v] = NoMessage
    BY <1>6, WriteEffect
  <2>2. \A i \in Messages : i # 0
    BY DEF Messages
  <2>3. ASSUME NEW i \in Messages, Started(i)' PROVE Started(i)
    <3>1. At(i)' # {} => At(i) # {} \/ i = job[w].msg
      BY <1>6, AtGrows
    <3> QED BY <2>1, <2>2, <2>3, <3>1 DEF Started, Working, NoMessage
  <2> QED BY <2>1, <2>3, FifoKept DEF Arriving
<1>7. ASSUME NEW w \in Workers, WouldBlock(w)
      PROVE  FifoInv'
  <2>1. UNCHANGED <<inbox, up, sent, queue, got, out, job>> /\ blocked' = [blocked EXCEPT ![job[w].msg] = @ + 1]
    BY <1>7 DEF WouldBlock
  <2>2. blocked \in [Messages -> 0..MaxRetries]
    BY DEF TypeInv, TypeOK
  <2>3. ASSUME NEW i \in Messages, Started(i)' PROVE Started(i)
    <3>1. CASE i = job[w].msg
      BY <3>1 DEF Started, Working
    <3>2. CASE i # job[w].msg
      <4>1. blocked'[i] = blocked[i]
        BY <2>1, <2>2, <3>2
      <4> QED BY <2>1, <2>3, <4>1 DEF Started, Working, At, Stream
    <3> QED BY <3>1, <3>2
  <2> QED BY <2>1, <2>3, FifoKept DEF Arriving
<1>8. ASSUME NEW w \in Workers, Worker(w) PROVE FifoInv'
  BY <1>5, <1>6, <1>7, <1>8, FifoTake DEF Worker
<1> QED BY <1>1, <1>2, <1>3, <1>4, <1>8, SideSteps, FifoSend, FifoReceive

(***************************************************************************)
(* A client that waits its turn.                                           *)
(***************************************************************************)

\* The first byte of a message has not been received.
Fresh == Arriving # <<>> /\ Arriving[1].part = 1

\* What has not been received of a paced client is the end of its last message ...
Alone(s) ==
    s # <<>> =>
      /\ sent # <<>> /\ Len(s) <= Size(sent[Len(sent)])
      /\ \A k \in DOMAIN s : /\ s[k].msg = Len(sent)
                             /\ s[k].part = Size(sent[Len(sent)]) - Len(s) + k

\* ... and if a part of it has arrived before the rest, TCP has divided it.
PacedInv ==
    /\ end => exited
    /\ paced =>
         /\ open \/ exited
         /\ Alone(Arriving)
         /\ \A i \in Messages : i > Len(sent) => fate[i] = "waiting"
         /\ open =>
              /\ Fresh /\ inbox # <<>> /\ up # <<>> => fate[Len(sent)] = "divided"
              /\ Fresh => fate[Len(sent)] \in {"waiting", "divided"}
              /\ \A i \in 1..Len(sent) :
                   ~(Fresh /\ i = Len(sent)) => fate[i] \in {"whole", "cut", "torn"}

\* The lengths and the sizes.
LEMMA SizeType ==
  ASSUME TypeInv
  PROVE  /\ sent \in Seq(Cmds) /\ Len(sent) \in Nat /\ 1..Len(sent) \subseteq Messages
         /\ \A c : Size(c) \in 2..3
         /\ sent # <<>> => Len(sent) \in 1..Len(sent)
         /\ DOMAIN fate = Messages
         /\ \A i \in Messages : i \in Nat
<1>1. sent \in Seq(Cmds) /\ Len(sent) <= MaxCommands + 2 /\ fate \in [Messages -> Fates]
  BY DEF TypeInv, TypeOK, Cmds, Fates
<1>2. \A c : Size(c) \in 2..3
  BY DEF Size
<1> QED BY <1>1, <1>2 DEF Messages

\* What is left when the first k units of a paced client have been received.
LEMMA RestIsAlone ==
  ASSUME TypeInv, Alone(Arriving)
  PROVE  /\ Alone(up) /\ Len(inbox) <= 3
         /\ \A k \in 2..Len(inbox) : inbox[k].part # 1
         /\ inbox # <<>> => inbox[1].msg = Len(sent) /\ inbox[1].part = Arriving[1].part
         /\ inbox # <<>> /\ up # <<>> => up[1].part # 1
         /\ First(inbox) /\ up = <<>> => Len(inbox) = Size(sent[Len(sent)])
<1> DEFINE z == Size(sent[Len(sent)])
           m == Len(sent)
<1>1. /\ inbox \in Seq(Parts) /\ up \in Seq(Parts) /\ Len(Arriving) = Len(inbox) + Len(up)
      /\ \A k \in 1..Len(inbox) : k \in DOMAIN Arriving /\ Arriving[k] = inbox[k]
      /\ \A k \in 1..Len(up) :
           Len(inbox) + k \in DOMAIN Arriving /\ Arriving[Len(inbox) + k] = up[k]
      /\ Len(inbox) \in Nat /\ Len(up) \in Nat /\ Arriving \in Seq(Parts)
  <2>1. inbox \in Seq(Parts) /\ up \in Seq(Parts) /\ Arriving \in Seq(Parts)
    BY ArrivingType
  <2>2. Len(inbox) \in Nat /\ Len(up) \in Nat
    BY <2>1
  <2> QED BY <2>1, <2>2, ArrivingType
<1>2. z \in 2..3
  BY SizeType
<1>3. CASE Arriving = <<>>
  <2>1. Len(inbox) = 0 /\ Len(up) = 0 /\ inbox = <<>> /\ up = <<>>
    BY <1>1, <1>3
  <2> QED BY <2>1 DEF Alone, First
<1>4. CASE Arriving # <<>>
  <2>1. /\ sent # <<>> /\ Len(Arriving) <= z
        /\ \A k \in DOMAIN Arriving : /\ Arriving[k].msg = m
                                      /\ Arriving[k].part = z - Len(Arriving) + k
    BY <1>4 DEF Alone
  <2> HIDE DEF z, m
  <2>2. \A k \in 1..Len(inbox) : inbox[k].msg = m /\ inbox[k].part = z - Len(inbox) - Len(up) + k
    <3>1. ASSUME NEW k \in 1..Len(inbox)
          PROVE  inbox[k].msg = m /\ inbox[k].part = z - Len(Arriving) + k
      BY <1>1, <2>1
    <3>2. z - Len(Arriving) = z - Len(inbox) - Len(up)
      BY <1>1, <1>2
    <3> QED BY <3>1, <3>2
  <2>3. \A k \in 1..Len(up) : up[k].msg = m /\ up[k].part = z - Len(up) + k
    <3>1. ASSUME NEW k \in 1..Len(up)
          PROVE  up[k].msg = m /\ up[k].part = z - Len(Arriving) + (Len(inbox) + k)
      BY <1>1, <2>1
    <3>2. \A k \in 1..Len(up) : z - Len(Arriving) + (Len(inbox) + k) = z - Len(up) + k
      BY <1>1, <1>2
    <3> QED BY <3>1, <3>2
  <2>4. Alone(up)
    <3>1. DOMAIN up = 1..Len(up) /\ Len(up) <= z
      BY <1>1, <1>2, <2>1
    <3> QED BY <2>1, <2>3, <3>1 DEF Alone, z, m
  <2>5. Len(inbox) <= 3 /\ \A k \in 2..Len(inbox) : inbox[k].part # 1
    BY <1>1, <1>2, <2>1, <2>2
  <2>6. inbox # <<>> => 1 \in 1..Len(inbox)
    BY <1>1
  <2>7. up # <<>> => 1 \in 1..Len(up)
    BY <1>1
  <2>8. inbox # <<>> => inbox[1].msg = m /\ inbox[1].part = Arriving[1].part
    BY <1>1, <2>2, <2>6
  <2>9. inbox # <<>> /\ up # <<>> => up[1].part # 1
    BY <1>1, <1>2, <2>1, <2>3, <2>6, <2>7
  <2>10. ASSUME First(inbox), up = <<>> PROVE Len(inbox) = z
    <3>1. Len(up) = 0 /\ 1 \in 1..Len(inbox) /\ inbox[1].part = 1
      BY <1>1, <2>6, <2>10 DEF First
    <3> QED BY <1>1, <1>2, <2>2, <3>1
  <2> QED BY <2>4, <2>5, <2>8, <2>9, <2>10 DEF z, m
<1> QED BY <1>3, <1>4

\* A message is sent: for a paced client there is nothing else.
LEMMA PacedSend ==
  ASSUME TypeInv, PacedInv, NEW c \in Cmds, SendMessage(c), Len(sent) <= MaxCommands + 1
  PROVE  PacedInv'
<1> DEFINE message == [p \in 1..Size(c) |-> [msg |-> Len(sent) + 1, part |-> p]]
<1>1. /\ sent' = Append(sent, c) /\ up' = up \o message
      /\ paced' = (paced /\ up = <<>> /\ inbox = <<>>)
      /\ UNCHANGED <<inbox, end, exited, fate, open>>
  BY DEF SendMessage
<1>2. /\ sent \in Seq(Cmds) /\ Len(sent) \in Nat /\ Size(c) \in 2..3
      /\ Len(sent') = Len(sent) + 1 /\ sent'[Len(sent')] = c /\ sent' # <<>>
      /\ \A i \in Messages : i \in Nat
  BY <1>1, SizeType
<1>3. Len(sent) + 1 \in Messages
  BY <1>2 DEF Messages
<1>4. SUFFICES ASSUME paced, up = <<>>, inbox = <<>> PROVE PacedInv'
  BY <1>1 DEF PacedInv
<1>5. /\ message \in Seq(Parts) /\ Len(message) = Size(c)
      /\ \A p \in 1..Size(c) : message[p].msg = Len(sent) + 1 /\ message[p].part = p
  <2>1. message \in [1..Size(c) -> Parts] /\ Size(c) \in Nat
    BY <1>2, <1>3 DEF Parts
  <2>2. \A p \in 1..Size(c) : message[p].msg = Len(sent) + 1 /\ message[p].part = p
    OBVIOUS
  <2> HIDE DEF message
  <2> QED BY <2>1, <2>2
<1> HIDE DEF message
<1>6. Arriving' = message /\ Arriving = <<>>
  <2>1. <<>> \o message = message /\ <<>> \o <<>> = <<>>
    BY <1>5, ConcatEmptySeq
  <2> QED BY <1>1, <1>4, <2>1 DEF Arriving
<1>7. Alone(Arriving)'
  BY <1>2, <1>5, <1>6 DEF Alone
<1>8. Fresh' /\ ~Fresh
  <2>1. 1 \in 1..Size(c) /\ message # <<>>
    BY <1>2, <1>5
  <2> QED BY <1>5, <1>6, <2>1 DEF Fresh
<1>9. \A i \in Messages : i > Len(sent') => fate'[i] = "waiting"
  BY <1>1, <1>2, <1>4 DEF PacedInv
<1>10. fate'[Len(sent')] = "waiting"
  BY <1>1, <1>2, <1>3, <1>4 DEF PacedInv
<1>11. ASSUME open', NEW i \in 1..Len(sent'), i # Len(sent')
       PROVE  fate'[i] \in {"whole", "cut", "torn"}
  <2>1. i \in 1..Len(sent)
    BY <1>2, <1>11
  <2> QED BY <1>1, <1>4, <1>8, <1>11, <2>1 DEF PacedInv
<1> QED BY <1>1, <1>4, <1>7, <1>8, <1>9, <1>10, <1>11 DEF PacedInv

\* What is delivered is still there, and what is delivered in parts is noted.
LEMMA PacedDeliver ==
  ASSUME TypeInv, PacedInv, Deliver
  PROVE  PacedInv'
<1>1. PICK k \in 1..Len(up) :
        /\ inbox' = inbox \o SubSeq(up, 1, k) /\ up' = SubSeq(up, k + 1, Len(up))
        /\ fate' = [i \in Messages |->
                      IF fate[i] = "waiting" /\ k < Len(up) /\ up[k].msg = i /\ up[k + 1].msg = i
                        THEN "divided" ELSE fate[i]]
  BY DEF Deliver
<1>2. UNCHANGED <<sent, end, exited, paced, open>>
  BY DEF Deliver, client
<1>3. inbox \in Seq(Parts) /\ up \in Seq(Parts)
  BY ArrivingType
<1>4. (inbox \o SubSeq(up, 1, k)) \o SubSeq(up, k + 1, Len(up)) = inbox \o up
  BY <1>1, <1>3, Recut, Zenon
<1>5. Arriving' = Arriving
  BY <1>1, <1>4 DEF Arriving
<1>6. SUFFICES ASSUME paced PROVE PacedInv'
  BY <1>2 DEF PacedInv
<1>7. Alone(Arriving) /\ Alone(up) /\ (inbox # <<>> /\ up # <<>> => up[1].part # 1)
  BY <1>6, RestIsAlone DEF PacedInv
<1>8. \A i \in Messages : i # Len(sent) => fate'[i] = fate[i]
  <2>1. k \in DOMAIN up /\ up # <<>>
    BY <1>1, <1>3
  <2>2. up[k].msg = Len(sent)
    BY <1>7, <2>1 DEF Alone
  <2> QED BY <1>1, <2>2
<1>9. Alone(Arriving)' /\ (Fresh' <=> Fresh)
  BY <1>2, <1>5, <1>7 DEF Alone, Fresh
<1>10. sent # <<>> => Len(sent) \in Messages
  BY SizeType
<1>11. Fresh => sent # <<>>
  BY <1>7 DEF Fresh, Alone
<1>12. ASSUME open, Fresh
       PROVE  /\ fate'[Len(sent)] \in {"waiting", "divided"}
              /\ up' # <<>> => fate'[Len(sent)] = "divided"
  <2>1. fate[Len(sent)] \in {"waiting", "divided"}
    BY <1>6, <1>12 DEF PacedInv
  <2>2. ASSUME up' # <<>> PROVE k < Len(up) /\ up[k].msg = Len(sent) /\ up[k + 1].msg = Len(sent)
    <3>1. k < Len(up)
      BY <1>1, <1>3, <2>2
    <3>2. k \in DOMAIN up /\ k + 1 \in DOMAIN up /\ up # <<>>
      BY <1>1, <1>3, <3>1
    <3> QED BY <1>7, <3>1, <3>2 DEF Alone
  <2> QED BY <1>1, <1>10, <1>11, <1>12, <2>1, <2>2
<1>13. \A i \in 1..Len(sent) : i \in Messages
  BY SizeType
<1>14. \A i \in Messages : i > Len(sent) => fate'[i] = "waiting"
  <2>1. Len(sent) \in Nat
    BY SizeType
  <2> QED BY <1>6, <1>8, <2>1, SizeType DEF PacedInv
<1>15. ASSUME open, NEW i \in 1..Len(sent), ~(Fresh /\ i = Len(sent))
       PROVE  fate'[i] \in {"whole", "cut", "torn"}
  <2>1. fate[i] \in {"whole", "cut", "torn"}
    BY <1>6, <1>15 DEF PacedInv
  <2> QED BY <1>1, <1>13, <2>1
<1> QED BY <1>2, <1>6, <1>9, <1>12, <1>14, <1>15 DEF PacedInv

\* A message comes first in what is received; it is whole, or it was divided.
LEMMA PacedReceive ==
  ASSUME TypeInv, PacedInv, open, Recv \/ DumpOverrun \/ RecvFails
  PROVE  PacedInv'
<1>1. inbox' = <<>> /\ UNCHANGED <<up, sent, end, exited, paced>>
  BY DEF Recv, DumpOverrun, RecvFails, client
<1>2. SUFFICES ASSUME paced PROVE PacedInv'
  BY <1>1 DEF PacedInv
<1>3. /\ Alone(Arriving) /\ Alone(up) /\ Len(inbox) <= 3 /\ Len(inbox) \in Nat
      /\ \A k \in 2..Len(inbox) : inbox[k].part # 1
      /\ inbox # <<>> => inbox[1].msg = Len(sent) /\ inbox[1].part = Arriving[1].part
      /\ inbox # <<>> /\ up # <<>> => up[1].part # 1
      /\ First(inbox) /\ up = <<>> => Len(inbox) = Size(sent[Len(sent)])
  BY <1>2, RestIsAlone, ArrivingType DEF PacedInv
<1>4. Arriving' = up
  <2>1. up \in Seq(Parts)
    BY ArrivingType
  <2>2. <<>> \o up = up
    BY <2>1, ConcatEmptySeq
  <2> QED BY <1>1, <2>2 DEF Arriving
<1>5. Alone(Arriving)'
  BY <1>1, <1>3, <1>4 DEF Alone
<1>6. CASE DumpOverrun \/ RecvFails
  <2>1. open' = FALSE /\ fate' = fate
    BY <1>6 DEF DumpOverrun, RecvFails
  <2>2. exited
    BY <1>2, <1>3, <1>6 DEF DumpOverrun, RecvFails, Full, PacedInv
  <2> QED BY <1>1, <1>2, <1>5, <2>1, <2>2 DEF PacedInv
<1>7. CASE Recv
  <2>1. /\ open' = open
        /\ fate' = [i \in Messages |-> IF i \in Behind(inbox) THEN "swallowed"
                                       ELSE IF First(inbox) /\ i = inbox[1].msg THEN FateOf(inbox)
                                       ELSE fate[i]]
    BY <1>7 DEF Recv
  <2>2. Behind(inbox) = {}
    BY <1>3 DEF Behind
  <2>3. \A i \in Messages : i # Len(sent) \/ ~First(inbox) => fate'[i] = fate[i]
    BY <1>3, <2>1, <2>2 DEF First
  <2>4. /\ 1..Len(sent) \subseteq Messages /\ Len(sent) \in Nat /\ \A i \in Messages : i \in Nat
        /\ sent # <<>> => Len(sent) \in 1..Len(sent)
        /\ Size(sent[Len(sent)]) \in 2..3
    BY SizeType
  <2>5. \A i \in Messages : i > Len(sent) => fate'[i] = "waiting"
    BY <1>2, <2>3, <2>4 DEF PacedInv
  <2>6. CASE inbox = <<>>
    <3>1. ~First(inbox) /\ Arriving' = Arriving
      <4>1. <<>> \o up = up
        BY ArrivingType, ConcatEmptySeq
      <4> QED BY <1>4, <2>6, <4>1 DEF First, Arriving
    <3>2. Fresh' <=> Fresh
      BY <3>1 DEF Fresh
    <3>3. Fresh => sent # <<>>
      BY <1>3 DEF Fresh, Alone
    <3>4. Fresh => fate'[Len(sent)] \in {"waiting", "divided"}
      BY <1>2, <2>3, <2>4, <3>1, <3>3 DEF PacedInv
    <3>5. ASSUME NEW i \in 1..Len(sent), ~(Fresh /\ i = Len(sent))
          PROVE  fate'[i] \in {"whole", "cut", "torn"}
      BY <1>2, <2>3, <2>4, <3>1, <3>5 DEF PacedInv
    <3> QED BY <1>1, <1>2, <1>5, <2>1, <2>5, <3>2, <3>4, <3>5 DEF PacedInv
  <2>7. CASE inbox # <<>>
    <3>1. ~Fresh'
      BY <1>3, <1>4, <2>7 DEF Fresh
    <3>2. Arriving # <<>> /\ sent # <<>> /\ (First(inbox) <=> Fresh)
      <4>1. 1 \in DOMAIN Arriving
        BY <2>7, ArrivingType
      <4>2. Arriving # <<>>
        BY <4>1
      <4> QED BY <1>3, <2>7, <4>2 DEF Alone, First, Fresh
    <3>3. ASSUME First(inbox) PROVE FateOf(inbox) \in {"whole", "cut", "torn"}
      <4>1. CASE up = <<>>
        <5>1. Len(inbox) > 1 /\ Len(inbox) = Size(sent[inbox[1].msg])
          BY <1>3, <2>4, <2>7, <3>3, <4>1
        <5>2. JobOf(inbox).whole = (Len(inbox) >= Size(sent[inbox[1].msg]))
          BY <3>3, <5>1 DEF JobOf
        <5>3. Len(inbox) >= Size(sent[inbox[1].msg])
          <6>1. Size(sent[inbox[1].msg]) \in 2..3
            BY SizeType
          <6> QED BY <5>1, <6>1
        <5>4. JobOf(inbox).whole
          BY <5>2, <5>3
        <5> QED BY <5>4 DEF FateOf
      <4>2. CASE up # <<>>
        <5>1. fate[inbox[1].msg] = "divided"
          BY <1>2, <1>3, <2>7, <3>2, <3>3, <4>2 DEF PacedInv
        <5> QED BY <5>1 DEF FateOf
      <4> QED BY <4>1, <4>2
    <3>4. ASSUME NEW i \in 1..Len(sent) PROVE fate'[i] \in {"whole", "cut", "torn"}
      <4>1. CASE First(inbox) /\ i = Len(sent)
        BY <1>3, <2>1, <2>2, <2>4, <2>7, <3>3, <4>1
      <4>2. CASE ~(First(inbox) /\ i = Len(sent))
        BY <1>2, <2>3, <2>4, <3>2, <4>2 DEF PacedInv
      <4> QED BY <4>1, <4>2
    <3> QED BY <1>1, <1>2, <1>5, <2>1, <2>5, <3>1, <3>4 DEF PacedInv
  <2> QED BY <2>6, <2>7
<1> QED BY <1>6, <1>7

LEMMA PacedStep == ASSUME TypeInv, PacedInv, [Next]_vars PROVE PacedInv'
<1> USE DEF client, received, arrival, worker, history
<1>1. CASE Exit \/ DeliverEnd
  <2>1. /\ UNCHANGED <<sent, paced, up, inbox, open, fate>> /\ exited'
    BY <1>1 DEF Exit, DeliverEnd
  <2> QED BY <2>1 DEF PacedInv, Alone, Fresh, Arriving
<1>2. CASE UNCHANGED <<sent, paced, up, inbox, end, open, fate, exited>>
  BY <1>2 DEF PacedInv, Alone, Fresh, Arriving
<1>3. CASE ClientRecv \/ UNCHANGED vars
  BY <1>2, <1>3 DEF ClientRecv, vars
<1>4. ASSUME NEW w \in Workers, Worker(w) PROVE PacedInv'
  BY <1>2, <1>4 DEF Worker, Take, Login, Write, WouldBlock, WriteFails
<1>5. open \/ UNCHANGED vars
  BY DEF Next
<1> QED BY <1>1, <1>3, <1>4, <1>5, SideSteps, PacedSend, PacedDeliver, PacedReceive

\* A client that waits its turn is not cut off, and each message of which the server has
\* received anything was received whole, or TCP has divided it (g_net_update.c:274, 291).
THEOREM PacedClientsAreHeard == Spec => []PacedClientIsHeard
<1>1. Init => PacedInv
  <2>1. <<>> \o <<>> = <<>> /\ Len(<<>>) = 0
    OBVIOUS
  <2> QED BY <2>1 DEF Init, PacedInv, Alone, Fresh, Arriving
<1>2. TypeInv /\ PacedInv => PacedClientIsHeard
  <2> SUFFICES ASSUME TypeInv, PacedInv, paced, open, NEW i \in (1..Len(sent)) \ Incoming
               PROVE  fate[i] \in {"whole", "cut", "torn"}
    BY DEF PacedClientIsHeard, PacedInv
  <2>1. Fresh => Arriving[1].msg = Len(sent) /\ 1 \in DOMAIN Arriving
    BY ArrivingType DEF PacedInv, Alone, Fresh
  <2>2. Fresh => Len(sent) \in Incoming
    BY <2>1 DEF Fresh, Incoming, Arriving
  <2> QED BY <2>2 DEF PacedInv
<1> QED BY <1>1, <1>2, TypeInvariant, PacedStep, PTL DEF Spec

(***************************************************************************)
(* Who works at which answer.                                              *)
(***************************************************************************)

\* A worker that takes a request is the first to have it.
LEMMA TakeEffect ==
  ASSUME TypeInv, FifoInv, NEW w \in Workers, Take(w)
  PROVE  /\ UNCHANGED <<Stream, cut, blocked, exited>> /\ overlapped \subseteq overlapped'
         /\ \A v \in Workers \ {w} : wpc'[v] = wpc[v] /\ job'[v] = job[v] /\ n'[v] = n[v]
         /\ wpc[w] = "idle" /\ job[w] = NoMessage
         /\ \/ wpc'[w] = "idle" /\ job'[w] = NoMessage
            \/ /\ wpc'[w] \in {"login", "sending"} /\ job'[w].msg \in Messages
               /\ ~Started(job'[w].msg)
               /\ \A i \in Messages : Started(i) => i < job'[w].msg
               /\ wpc'[w] = "sending" =>
                    /\ n'[w] = AnswerLen
                    /\ \A u \in Workers : wpc[u] = "sending" => {job'[w].msg, job[u].msg} \in overlapped'
<1> DEFINE j == Head(queue)
           h == HandlerOf(j)
           pairs == {{j.msg, job[v].msg} : v \in {u \in Workers : {h, wpc[u]} = {"sending"}}}
<1>1. /\ wpc \in [Workers -> {"idle", "login", "sending"}]
      /\ job \in [Workers -> [msg : Messages \cup {0}, whole : BOOLEAN]]
      /\ n \in [Workers -> 0..(AnswerLen + MaxRetries)] /\ HandInv(w)
  BY DEF TypeInv, TypeOK
<1>2. /\ wpc' = [wpc EXCEPT ![w] = h] /\ job' = [job EXCEPT ![w] = IF h = "idle" THEN NoMessage ELSE j]
      /\ n' = [n EXCEPT ![w] = IF h = "sending" THEN AnswerLen ELSE 0]
      /\ overlapped' = overlapped \cup pairs /\ wpc[w] = "idle" /\ queue # <<>>
      /\ UNCHANGED <<out, got, cut, blocked, exited>>
  BY DEF Take, Start, client, received
<1>3. j = queue[1] /\ 1 \in DOMAIN queue
  <2>1. queue \in Seq([msg : Messages \cup {0}, whole : BOOLEAN])
    BY DEF TypeInv, TypeOK
  <2> QED BY <1>2, <2>1
<1>4. j.msg \in Messages \cup {0}
  BY <1>3, QueueType
<1>5. h \in {"idle", "login", "sending"} /\ (h # "idle" => j.msg # 0)
  BY DEF HandlerOf
<1>6. h = "sending" => \A u \in Workers : wpc[u] = "sending" => {j.msg, job[u].msg} \in pairs
  OBVIOUS
<1> HIDE DEF j, h, pairs
<1>7. UNCHANGED Stream
  BY <1>2 DEF Stream
<1>8. job[w] = NoMessage
  BY <1>1, <1>2 DEF HandInv
<1>9. \A v \in Workers \ {w} : wpc'[v] = wpc[v] /\ job'[v] = job[v] /\ n'[v] = n[v]
  BY <1>1, <1>2
<1>10. /\ wpc'[w] = h /\ job'[w] = IF h = "idle" THEN NoMessage ELSE j
       /\ n'[w] = IF h = "sending" THEN AnswerLen ELSE 0
  BY <1>1, <1>2
<1>11. CASE h = "idle"
  BY <1>2, <1>7, <1>8, <1>9, <1>10, <1>11
<1>12. CASE h # "idle"
  <2>1. job'[w] = j /\ j.msg \in Messages /\ j.msg # 0
    BY <1>4, <1>5, <1>10, <1>12
  <2>2. \A i \in Messages : Started(i) => i < j.msg
    BY <1>3, <2>1 DEF FifoInv
  <2>3. ~Started(j.msg)
    <3>1. j.msg \in Int
      BY <2>1 DEF Messages
    <3>2. ~(j.msg < j.msg)
      BY <3>1
    <3> QED BY <2>1, <2>2, <3>2
  <2>4. h = "sending" =>
          /\ n'[w] = AnswerLen
          /\ \A u \in Workers : wpc[u] = "sending" => {j.msg, job[u].msg} \in overlapped'
    BY <1>2, <1>6, <1>10
  <2>5. wpc'[w] \in {"login", "sending"} /\ wpc'[w] = h
    BY <1>5, <1>10, <1>12
  <2> QED BY <1>2, <1>7, <1>8, <1>9, <2>1, <2>2, <2>3, <2>4, <2>5
<1> QED BY <1>11, <1>12

\* A login, or a write to a client that has gone.
LEMMA DoneEffect ==
  ASSUME TypeInv, NEW w \in Workers, Login(w) \/ WriteFails(w)
  PROVE  /\ UNCHANGED <<Stream, cut, blocked, overlapped, exited>>
         /\ \A v \in Workers \ {w} : wpc'[v] = wpc[v] /\ job'[v] = job[v] /\ n'[v] = n[v]
         /\ wpc'[w] = "idle" /\ job'[w] = NoMessage
         /\ wpc[w] = "login" \/ exited
<1>1. /\ wpc \in [Workers -> {"idle", "login", "sending"}]
      /\ job \in [Workers -> [msg : Messages \cup {0}, whole : BOOLEAN]]
      /\ n \in [Workers -> 0..(AnswerLen + MaxRetries)]
  BY DEF TypeInv, TypeOK
<1>2. /\ Done(w) /\ UNCHANGED <<got, out, cut, blocked, overlapped, exited>>
      /\ wpc[w] = "login" \/ exited
  BY DEF Login, WriteFails, client, received, history
<1> QED BY <1>1, <1>2 DEF Done, Stream

\* A write that would block: a unit more is left, and one more has been gone back by.
LEMMA WouldBlockEffect ==
  ASSUME TypeInv, NEW w \in Workers, WouldBlock(w)
  PROVE  /\ UNCHANGED <<Stream, wpc, job, overlapped, exited>> /\ wpc[w] = "sending" /\ ~exited
         /\ job[w].msg \in Messages /\ n[w] \in 1..(AnswerLen + blocked[job[w].msg])
         /\ n'[w] = n[w] + 1 /\ \A v \in Workers \ {w} : n'[v] = n[v]
         /\ blocked'[job[w].msg] = blocked[job[w].msg] + 1
         /\ \A i \in Messages \ {job[w].msg} : blocked'[i] = blocked[i]
         /\ cut' = cut \cup {job[w].msg}
<1>1. n \in [Workers -> 0..(AnswerLen + MaxRetries)] /\ blocked \in [Messages -> 0..MaxRetries] /\ HandInv(w)
  BY DEF TypeInv, TypeOK
<1>2. /\ UNCHANGED <<got, out, wpc, job, overlapped, exited>> /\ wpc[w] = "sending" /\ ~exited
      /\ n' = [n EXCEPT ![w] = n[w] + 1] /\ cut' = cut \cup {job[w].msg}
      /\ blocked' = [blocked EXCEPT ![job[w].msg] = blocked[job[w].msg] + 1]
  BY DEF WouldBlock, client, received
<1>3. job[w].msg \in Messages /\ n[w] \in 1..(AnswerLen + blocked[job[w].msg])
  BY <1>1, <1>2 DEF HandInv
<1> QED BY <1>1, <1>2, <1>3 DEF Stream

\* The client goes: the stream is of no use any more.
LEMMA ExitEffect ==
  ASSUME TypeInv, Exit
  PROVE  /\ exited' /\ Stream' = <<>> /\ \A i \in Messages : At(i)' = {}
         /\ UNCHANGED <<wpc, job, blocked>>
<1>1. exited' = TRUE /\ got' = <<>> /\ out' = <<>> /\ UNCHANGED <<wpc, job, blocked>>
  BY DEF Exit, worker
<1>2. <<>> \o <<>> = <<>>
  OBVIOUS
<1>3. Stream' = <<>>
  BY <1>1, <1>2 DEF Stream
<1>4. DOMAIN <<>> = {}
  OBVIOUS
<1> QED BY <1>1, <1>3, <1>4 DEF At

LEMMA OwnStep == ASSUME TypeInv, FifoInv, OwnInv, [Next]_vars PROVE OwnInv'
<1>1. CASE UNCHANGED Answers
  BY <1>1 DEF Answers, OwnInv, At
<1>2. CASE Exit
  <2>1. \A v \in Workers : wpc[v] = "login" => job[v].msg \in Messages
    BY DEF TypeInv, HandInv
  <2>2. \A v \in Workers : wpc'[v] = "login" => At(job[v].msg)' = {}
    BY <1>2, <2>1, ExitEffect
  <2> QED BY <1>2, <2>2, ExitEffect DEF OwnInv
<1>3. ASSUME NEW w \in Workers, Take(w) PROVE OwnInv'
  <2> DEFINE m == job'[w].msg
  <2>1. /\ UNCHANGED <<Stream, exited>> /\ job[w] = NoMessage
        /\ \A v \in Workers \ {w} : wpc'[v] = wpc[v] /\ job'[v] = job[v]
        /\ \/ wpc'[w] = "idle" /\ m = 0
           \/ m \in Messages /\ ~Started(m)
    BY <1>3, TakeEffect DEF NoMessage
  <2>2. \A v \in Workers : wpc[v] # "idle" => job[v].msg \in Messages /\ job[v].msg # 0
    BY DEF TypeInv, HandInv, Messages
  <2>3. m \in Messages /\ ~Started(m) => At(m) = {} /\ \A v \in Workers : job[v].msg # m
    BY DEF Started, Working
  <2> HIDE DEF m
  <2>4. ASSUME NEW v \in Workers, NEW u \in Workers, wpc'[v] # "idle", job'[v].msg = job'[u].msg
        PROVE  v = u
    <3>1. CASE v = w /\ u # w
      BY <2>1, <2>3, <2>4, <3>1 DEF m
    <3>2. CASE v # w /\ u = w
      BY <2>1, <2>2, <2>3, <2>4, <3>2 DEF m
    <3>3. CASE v # w /\ u # w
      BY <2>1, <2>4, <3>3 DEF OwnInv
    <3> QED BY <3>1, <3>2, <3>3
  <2>5. ASSUME NEW v \in Workers, wpc'[v] = "login" PROVE At(job[v].msg)' = {}
    <3>1. At(job[v].msg)' = At(job'[v].msg)
      BY <2>1 DEF At
    <3>2. CASE v = w
      BY <2>1, <2>3, <2>5, <3>1, <3>2 DEF m
    <3>3. CASE v # w
      BY <2>1, <2>5, <3>1, <3>3 DEF OwnInv
    <3> QED BY <3>2, <3>3
  <2> QED BY <2>1, <2>4, <2>5 DEF OwnInv
<1>4. ASSUME NEW w \in Workers, Login(w) \/ WriteFails(w) PROVE OwnInv'
  <2>1. /\ UNCHANGED <<Stream, exited>> /\ wpc'[w] = "idle" /\ job'[w].msg = 0
        /\ \A v \in Workers \ {w} : wpc'[v] = wpc[v] /\ job'[v] = job[v]
    BY <1>4, DoneEffect DEF NoMessage
  <2>2. \A v \in Workers : wpc[v] # "idle" => job[v].msg # 0
    BY DEF TypeInv, HandInv, Messages
  <2>3. ASSUME NEW v \in Workers, wpc'[v] = "login" PROVE At(job[v].msg)' = {}
    BY <2>1, <2>3 DEF At, OwnInv
  <2> QED BY <2>1, <2>2, <2>3 DEF OwnInv
<1>5. ASSUME NEW w \in Workers, WouldBlock(w) PROVE OwnInv'
  BY <1>5, WouldBlockEffect DEF OwnInv, At
<1>6. ASSUME NEW w \in Workers, Write(w) PROVE OwnInv'
  <2>1. /\ wpc[w] = "sending" /\ ~exited /\ exited' = exited
        /\ \A v \in Workers \ {w} : wpc'[v] = wpc[v] /\ job'[v] = job[v]
        /\ \/ wpc'[w] = "sending" /\ job'[w] = job[w]
           \/ wpc'[w] = "idle" /\ job'[w].msg = 0
    BY <1>6, WriteEffect DEF NoMessage
  <2>2. \A v \in Workers : wpc[v] # "idle" => job[v].msg \in Messages /\ job[v].msg # 0
    BY DEF TypeInv, HandInv, Messages
  <2>3. ASSUME NEW v \in Workers, wpc'[v] = "login" PROVE At(job[v].msg)' = {}
    <3>1. v # w /\ job'[v] = job[v] /\ wpc[v] = "login" /\ job[v].msg \in Messages
      BY <2>1, <2>2, <2>3
    <3>2. job[v].msg # job[w].msg /\ At(job[v].msg) = {}
      BY <3>1 DEF OwnInv
    <3>3. \A i \in Messages : i # job[w].msg => At(i)' = At(i)
      BY <1>6, AtGrows
    <3>4. \A i \in Messages : i = job'[v].msg => At(job[v].msg)' = At(i)'
      BY DEF At
    <3> QED BY <3>1, <3>2, <3>3, <3>4
  <2> QED BY <2>1, <2>2, <2>3 DEF OwnInv
<1> QED BY <1>1, <1>2, <1>3, <1>4, <1>5, <1>6, AnswerSteps

(***************************************************************************)
(* The order of the answers.                                               *)
(***************************************************************************)

\* A unit of the stream after a write is an old one, or one of the writer's.
LEMMA OldOrNew ==
  ASSUME TypeInv, NEW w \in Workers, Write(w)
  PROVE  /\ DOMAIN Stream \subseteq Nat \ {0} /\ DOMAIN Stream' \subseteq Nat \ {0}
         /\ \A k \in DOMAIN Stream' :
              \/ k \in DOMAIN Stream /\ Stream'[k] = Stream[k]
              \/ k > Len(Stream) /\ Stream'[k].msg = job[w].msg
         /\ \A k \in DOMAIN Stream : k <= Len(Stream) /\ k \in DOMAIN Stream' /\ Stream'[k] = Stream[k]
         /\ \A k \in DOMAIN Stream' : k <= Len(Stream) => k \in DOMAIN Stream
<1>1. Len(Stream) \in Nat /\ DOMAIN Stream = 1..Len(Stream)
  BY StreamType
<1>2. TypeInv'
  BY WorkerType DEF Worker
<1>3. DOMAIN Stream' = 1..Len(Stream')
  BY <1>2, StreamType
<1>4. Taken(w) \in 1..n[w] /\ n[w] \in Nat
  BY PieceType DEF Write
<1>5. DOMAIN Stream' = 1..(Len(Stream) + Taken(w))
  BY <1>3, StreamGrows
<1>6. \A k \in DOMAIN Stream' : k \in DOMAIN Stream \/ k \in (Len(Stream) + 1)..(Len(Stream) + Taken(w))
  BY <1>1, <1>4, <1>5
<1>7. /\ DOMAIN Stream \subseteq Nat \ {0} /\ DOMAIN Stream' \subseteq Nat \ {0}
      /\ \A k \in DOMAIN Stream : k <= Len(Stream) /\ k \in DOMAIN Stream'
      /\ \A k \in DOMAIN Stream' : k <= Len(Stream) => k \in DOMAIN Stream
      /\ \A k \in (Len(Stream) + 1)..(Len(Stream) + Taken(w)) : k > Len(Stream)
  BY <1>1, <1>4, <1>5
<1> QED BY <1>1, <1>6, <1>7, StreamGrows

LEMMA OrderStep == ASSUME TypeInv, FifoInv, OwnInv, OrderInv, [Next]_vars PROVE OrderInv'
<1>0. /\ DOMAIN Stream \subseteq Int /\ \A k \in DOMAIN Stream : Stream[k].msg \in Messages /\ k \in At(Stream[k].msg)
      /\ \A i \in Messages : i \in Int /\ i # 0
  BY StreamType DEF At, Messages
<1>1. CASE UNCHANGED Answers
  <2>1. UNCHANGED <<SwappedOnlyWhenOverlapping, MixedOnlyWhenCut>>
    BY <1>1 DEF Answers, SwappedOnlyWhenOverlapping, MixedOnlyWhenCut
  <2> QED BY <1>1, <2>1 DEF Answers, OrderInv, At
<1>2. CASE Exit
  <2>1. DOMAIN Stream' = {} /\ exited'
    BY <1>2, ExitEffect
  <2>2. \A v \in Workers : At(job[v].msg)' = {}
    BY <2>1 DEF At
  <2>3. SwappedOnlyWhenOverlapping' /\ MixedOnlyWhenCut'
    BY <2>1 DEF SwappedOnlyWhenOverlapping, MixedOnlyWhenCut
  <2> QED BY <2>1, <2>2, <2>3 DEF OrderInv
<1>3. ASSUME NEW w \in Workers, Take(w) PROVE OrderInv'
  <2> DEFINE m == job'[w].msg
  <2>1. /\ UNCHANGED <<Stream, cut, exited>> /\ overlapped \subseteq overlapped' /\ wpc[w] = "idle"
        /\ \A v \in Workers \ {w} : wpc'[v] = wpc[v] /\ job'[v] = job[v]
        /\ \/ wpc'[w] # "sending"
           \/ /\ m \in Messages /\ ~Started(m) /\ \A i \in Messages : Started(i) => i < m
              /\ \A u \in Workers : wpc[u] = "sending" => {m, job[u].msg} \in overlapped'
    BY <1>3, TakeEffect
  <2>2. m \in Messages /\ ~Started(m) => At(m) = {}
    BY DEF Started
  <2>3. \A k \in DOMAIN Stream : Started(Stream[k].msg)
    BY <1>0 DEF Started
  <2>4. \A v \in Workers : At(job[v].msg)' = At(job'[v].msg)
    BY <2>1 DEF At
  <2>5. At(job'[w].msg) = At(m)
    OBVIOUS
  <2> HIDE DEF m
  <2>6. ASSUME NEW v \in Workers, wpc'[v] = "sending", At(job[v].msg)' # {} PROVE job'[v].msg \in cut'
    <3>1. v # w
      BY <2>1, <2>2, <2>4, <2>5, <2>6
    <3> QED BY <2>1, <2>4, <2>6, <3>1 DEF OrderInv
  <2>7. ASSUME ~exited', NEW v \in Workers, NEW u \in Workers, v # u, wpc'[v] = "sending", wpc'[u] = "sending"
        PROVE  {job'[v].msg, job'[u].msg} \in overlapped'
    <3>1. CASE v = w
      BY <2>1, <2>7, <3>1 DEF m
    <3>2. CASE u = w
      <4>1. {m, job[v].msg} \in overlapped'
        BY <2>1, <2>7, <3>2
      <4>2. {job'[v].msg, job'[u].msg} = {m, job[v].msg}
        BY <2>1, <2>7, <3>2 DEF m
      <4> QED BY <4>1, <4>2
    <3>3. CASE v # w /\ u # w
      BY <2>1, <2>7, <3>3 DEF OrderInv
    <3> QED BY <3>1, <3>2, <3>3
  <2>8. ASSUME ~exited', NEW v \in Workers, NEW k \in DOMAIN Stream', wpc'[v] = "sending",
               At(job[v].msg)' = {}, job'[v].msg < Stream'[k].msg
        PROVE  {Stream'[k].msg, job'[v].msg} \in overlapped'
    <3>1. CASE v = w
      <4>1. Stream[k].msg \in Messages /\ Stream[k].msg < m /\ m < Stream[k].msg /\ m \in Messages
        BY <1>0, <2>1, <2>3, <2>8, <3>1 DEF m
      <4> QED BY <1>0, <4>1
    <3>2. CASE v # w
      <4>1. wpc[v] = "sending" /\ At(job[v].msg) = {} /\ job[v].msg < Stream[k].msg
        BY <2>1, <2>4, <2>8, <3>2
      <4> QED BY <2>1, <2>8, <3>2, <4>1 DEF OrderInv
    <3> QED BY <3>1, <3>2
  <2>9. SwappedOnlyWhenOverlapping' /\ MixedOnlyWhenCut'
    BY <2>1 DEF OrderInv, SwappedOnlyWhenOverlapping, MixedOnlyWhenCut
  <2> QED BY <2>6, <2>7, <2>8, <2>9 DEF OrderInv
<1>4. ASSUME NEW w \in Workers, Login(w) \/ WriteFails(w) PROVE OrderInv'
  <2>1. /\ UNCHANGED <<Stream, cut, overlapped, exited>> /\ wpc'[w] = "idle"
        /\ \A v \in Workers \ {w} : wpc'[v] = wpc[v] /\ job'[v] = job[v]
    BY <1>4, DoneEffect
  <2>2. \A v \in Workers : At(job[v].msg)' = At(job'[v].msg)
    BY <2>1 DEF At
  <2>3. SwappedOnlyWhenOverlapping' /\ MixedOnlyWhenCut'
    BY <2>1 DEF OrderInv, SwappedOnlyWhenOverlapping, MixedOnlyWhenCut
  <2> QED BY <2>1, <2>2, <2>3 DEF OrderInv
<1>5. ASSUME NEW w \in Workers, WouldBlock(w) PROVE OrderInv'
  <2>1. UNCHANGED <<Stream, wpc, job, overlapped, exited>> /\ cut \subseteq cut'
    BY <1>5, WouldBlockEffect
  <2>2. SwappedOnlyWhenOverlapping' /\ MixedOnlyWhenCut'
    BY <2>1 DEF OrderInv, SwappedOnlyWhenOverlapping, MixedOnlyWhenCut
  <2> QED BY <2>1, <2>2 DEF OrderInv, At
<1>6. ASSUME NEW w \in Workers, Write(w) PROVE OrderInv'
  <2> DEFINE m == job[w].msg
  <2>1. /\ wpc[w] = "sending" /\ ~exited /\ m \in Messages
        /\ UNCHANGED <<overlapped, exited>> /\ cut \subseteq cut'
        /\ \A v \in Workers \ {w} : wpc'[v] = wpc[v] /\ job'[v] = job[v]
        /\ wpc'[w] = "sending" => job'[w] = job[w] /\ m \in cut'
    BY <1>6, WriteEffect
  <2>2. \A v \in Workers \ {w} : wpc[v] = "sending" => job[v].msg \in Messages /\ job[v].msg # m
    BY <2>1 DEF OwnInv, TypeInv, HandInv
  <2>3. /\ \A i \in Messages : i # m => At(i)' = At(i)
        /\ \A i \in Messages : i = m => At(i)' # {}
    <3>1. Len(Stream) + 1 \in (Len(Stream) + 1)..(Len(Stream) + Taken(w))
      BY <1>6, StreamType, PieceType DEF Write
    <3> QED BY <1>6, <3>1, AtGrows
  <2>4. \A v \in Workers, i \in Messages : i = job'[v].msg => At(job[v].msg)' = At(i)'
    BY DEF At
  <2> HIDE DEF m
  <2>5. ASSUME NEW v \in Workers \ {w}, wpc'[v] = "sending"
        PROVE  /\ wpc[v] = "sending" /\ job'[v] = job[v] /\ At(job[v].msg)' = At(job[v].msg)
    BY <2>1, <2>2, <2>3, <2>4, <2>5
  <2>6. ASSUME NEW v \in Workers, wpc'[v] = "sending", At(job[v].msg)' # {} PROVE job'[v].msg \in cut'
    <3>1. CASE v = w
      BY <2>1, <2>6, <3>1 DEF m
    <3>2. CASE v # w
      BY <2>1, <2>5, <2>6, <3>2 DEF OrderInv
    <3> QED BY <3>1, <3>2
  <2>7. \A v, u \in Workers : v # u /\ wpc'[v] = "sending" /\ wpc'[u] = "sending" =>
          {job'[v].msg, job'[u].msg} \in overlapped'
    BY <2>1 DEF OrderInv
  <2>8. ASSUME NEW v \in Workers, NEW k \in DOMAIN Stream', wpc'[v] = "sending",
               At(job[v].msg)' = {}, job'[v].msg < Stream'[k].msg
        PROVE  {Stream'[k].msg, job'[v].msg} \in overlapped'
    <3>1. v # w
      BY <2>1, <2>3, <2>4, <2>8 DEF m
    <3>2. wpc[v] = "sending" /\ job'[v] = job[v] /\ At(job[v].msg) = {}
      BY <2>5, <2>8, <3>1
    <3>3. CASE k \in DOMAIN Stream /\ Stream'[k] = Stream[k]
      BY <2>1, <2>8, <3>2, <3>3 DEF OrderInv
    <3>4. CASE Stream'[k].msg = m
      BY <2>1, <3>1, <3>2, <3>4 DEF OrderInv, m
    <3> QED BY <1>6, <3>3, <3>4, OldOrNew DEF m
  <2>9. SwappedOnlyWhenOverlapping'
    <3> SUFFICES ASSUME NEW k \in DOMAIN Stream', NEW l \in DOMAIN Stream',
                        k < l, Stream'[k].msg > Stream'[l].msg,
                        \A j \in 1..(l - 1) : Stream'[j].msg # Stream'[l].msg
                 PROVE  {Stream'[k].msg, Stream'[l].msg} \in overlapped'
      BY DEF SwappedOnlyWhenOverlapping
    <3>1. CASE l \in DOMAIN Stream
      <4>1. l <= Len(Stream) /\ Stream'[l] = Stream[l] /\ k \in DOMAIN Stream /\ Stream'[k] = Stream[k]
            /\ \A j \in 1..(l - 1) : Stream'[j] = Stream[j]
        BY <1>6, <3>1, OldOrNew, StreamType
      <4> QED BY <2>1, <3>1, <4>1 DEF OrderInv, SwappedOnlyWhenOverlapping
    <3>2. CASE l > Len(Stream) /\ Stream'[l].msg = m
      <4>1. k \in DOMAIN Stream /\ Stream'[k] = Stream[k]
        <5>1. Stream'[k].msg # m
          BY <1>6, <3>2, OldOrNew
        <5> QED BY <1>6, <5>1, OldOrNew DEF m
      <4>2. At(m) = {}
        <5>1. ASSUME NEW j \in At(m) PROVE FALSE
          <6>1. j \in DOMAIN Stream /\ Stream[j].msg = m
            BY <5>1 DEF At
          <6>2. j \in 1..(l - 1) /\ Stream'[j] = Stream[j]
            BY <1>6, <3>2, <6>1, OldOrNew, StreamType
          <6> QED BY <3>2, <6>1, <6>2
        <5> QED BY <5>1
      <4>3. m < Stream[k].msg
        BY <1>0, <2>1, <3>2, <4>1
      <4> QED BY <2>1, <3>2, <4>1, <4>2, <4>3 DEF OrderInv, m
    <3> QED BY <1>6, <3>1, <3>2, OldOrNew DEF m
  <2>10. MixedOnlyWhenCut'
    <3> SUFFICES ASSUME NEW i \in DOMAIN Stream', NEW j \in DOMAIN Stream', NEW k \in DOMAIN Stream',
                        i < j, j < k, Stream'[i].msg = Stream'[k].msg, Stream'[j].msg # Stream'[i].msg
                 PROVE  Stream'[i].msg \in cut'
      BY DEF MixedOnlyWhenCut
    <3>1. CASE k \in DOMAIN Stream
      <4>1. /\ Stream'[k] = Stream[k] /\ i \in DOMAIN Stream /\ Stream'[i] = Stream[i]
            /\ j \in DOMAIN Stream /\ Stream'[j] = Stream[j]
        BY <1>6, <3>1, OldOrNew, StreamType
      <4> QED BY <2>1, <3>1, <4>1 DEF OrderInv, MixedOnlyWhenCut
    <3>2. CASE Stream'[k].msg = m
      <4>1. j \in DOMAIN Stream
        BY <1>6, <3>2, OldOrNew DEF m
      <4>2. i \in DOMAIN Stream /\ Stream'[i] = Stream[i]
        BY <1>6, <4>1, OldOrNew, StreamType
      <4>3. i \in At(m)
        BY <3>2, <4>2 DEF At
      <4> QED BY <2>1, <3>2, <4>3 DEF OrderInv, m
    <3> QED BY <1>6, <3>1, <3>2, OldOrNew DEF m
  <2> QED BY <2>6, <2>7, <2>8, <2>9, <2>10 DEF OrderInv
<1> QED BY <1>1, <1>2, <1>3, <1>4, <1>5, <1>6, AnswerSteps

(***************************************************************************)
(* What there is of an answer.                                             *)
(***************************************************************************)

\* Where an answer stands is a finite set of positions, and the places are numbers.
LEMMA AtType ==
  ASSUME TypeInv, NEW i \in Messages
  PROVE  /\ At(i) \subseteq 1..Len(Stream) /\ At(i) \subseteq Nat \ {0} /\ Len(Stream) \in Nat
         /\ IsFiniteSet(At(i)) /\ Cardinality(At(i)) \in Nat /\ blocked[i] \in Nat
         /\ \A k \in At(i) : Stream[k].place \in Int /\ Stream[k].place <= AnswerLen /\ k <= Len(Stream)
<1>1. /\ Len(Stream) \in Nat /\ DOMAIN Stream = 1..Len(Stream)
      /\ \A k \in 1..Len(Stream) : Stream[k].place \in Int /\ Stream[k].place <= AnswerLen
  BY StreamType
<1>2. At(i) \subseteq 1..Len(Stream)
  BY <1>1 DEF At
<1>3. IsFiniteSet(At(i)) /\ Cardinality(At(i)) \in Nat
  <2>1. IsFiniteSet(1..Len(Stream))
    BY <1>1, FS_Interval
  <2> QED BY <1>2, <2>1, FS_Subset, FS_CardinalityType
<1>4. blocked[i] \in Nat
  BY DEF TypeInv, TypeOK
<1> QED BY <1>1, <1>2, <1>3, <1>4

\* A step that sends nothing and gives no worker an answer keeps what there is.
LEMMA PiecesKept ==
  ASSUME TypeInv, PiecesInv, NEW w \in Workers,
         UNCHANGED <<Stream, blocked, exited>>, wpc'[w] # "sending",
         \A v \in Workers \ {w} : wpc'[v] = wpc[v] /\ job'[v] = job[v] /\ n'[v] = n[v],
         job[w].msg \in Messages => At(job[w].msg) = {}
  PROVE  PiecesInv'
<1> SUFFICES ASSUME ~exited, NEW i \in Messages
             PROVE  /\ NoGap(i)'
                    /\ \A v \in Workers : wpc'[v] = "sending" /\ job'[v].msg = i => Covered(i, n[v])'
                    /\ At(i)' # {} /\ ~Working(i)' => Covered(i, 0)'
  BY DEF PiecesInv
<1>1. At(i)' = At(i)
  BY DEF At
<1>2. NoGap(i)'
  BY <1>1 DEF PiecesInv, NoGap
<1>3. ASSUME NEW v \in Workers, wpc'[v] = "sending", job'[v].msg = i PROVE Covered(i, n[v])'
  <2>1. wpc[v] = "sending" /\ job[v].msg = i /\ n'[v] = n[v]
    BY <1>3
  <2> QED BY <1>1, <2>1 DEF PiecesInv, Covered
<1>4. ASSUME At(i)' # {}, ~Working(i)' PROVE Covered(i, 0)'
  <2>1. ~Working(i)
    BY <1>1, <1>4 DEF Working
  <2> QED BY <1>1, <1>4, <2>1 DEF PiecesInv, Covered
<1> QED BY <1>2, <1>3, <1>4

\* A request is taken: nothing of its answer has been sent, and all of it is left.
LEMMA PiecesTake ==
  ASSUME TypeInv, FifoInv, PiecesInv, NEW w \in Workers, Take(w)
  PROVE  PiecesInv'
<1>1. /\ UNCHANGED <<Stream, blocked, exited>> /\ wpc[w] = "idle" /\ job[w].msg = 0
      /\ \A v \in Workers \ {w} : wpc'[v] = wpc[v] /\ job'[v] = job[v] /\ n'[v] = n[v]
      /\ wpc'[w] = "sending" =>
           job'[w].msg \in Messages /\ ~Started(job'[w].msg) /\ n'[w] = AnswerLen
  BY TakeEffect DEF NoMessage
<1>2. CASE wpc'[w] # "sending"
  <2>1. job[w].msg \notin Messages
    BY <1>1 DEF Messages
  <2> QED BY <1>1, <1>2, <2>1, PiecesKept
<1>3. CASE wpc'[w] = "sending"
  <2> SUFFICES ASSUME ~exited, NEW i \in Messages
               PROVE  /\ NoGap(i)'
                      /\ \A v \in Workers : wpc'[v] = "sending" /\ job'[v].msg = i => Covered(i, n[v])'
                      /\ At(i)' # {} /\ ~Working(i)' => Covered(i, 0)'
    BY <1>1 DEF PiecesInv
  <2>1. At(i)' = At(i)
    BY <1>1 DEF At
  <2>2. job'[w].msg = i => At(i) = {} /\ blocked[i] = 0
    BY <1>1, <1>3, AtType DEF Started
  <2>3. NoGap(i)'
    BY <1>1, <2>1, <2>2 DEF PiecesInv, NoGap
  <2>4. ASSUME NEW v \in Workers, wpc'[v] = "sending", job'[v].msg = i PROVE Covered(i, n[v])'
    <3>1. CASE v = w
      <4>1. At(i)' = {} /\ blocked'[i] = 0 /\ n'[v] = AnswerLen
        BY <1>1, <1>3, <2>1, <2>2, <2>4, <3>1
      <4>2. Cardinality({}) = 0
        BY FS_EmptySet
      <4> QED BY <4>1, <4>2 DEF Covered
    <3>2. CASE v # w
      <4>1. wpc[v] = "sending" /\ job[v].msg = i /\ n'[v] = n[v]
        BY <1>1, <2>4, <3>2
      <4> QED BY <1>1, <2>1, <4>1 DEF PiecesInv, Covered
    <3> QED BY <3>1, <3>2
  <2>5. ASSUME At(i)' # {}, ~Working(i)' PROVE Covered(i, 0)'
    <3>1. i # 0
      BY DEF Messages
    <3>2. ~Working(i)
      BY <1>1, <2>5, <3>1 DEF Working
    <3> QED BY <1>1, <2>1, <2>5, <3>2 DEF PiecesInv, Covered
  <2> QED BY <2>3, <2>4, <2>5
<1> QED BY <1>2, <1>3

\* A write that would block: the unit before is to be sent again.
LEMMA PiecesWouldBlock ==
  ASSUME TypeInv, OwnInv, PiecesInv, NEW w \in Workers, WouldBlock(w)
  PROVE  PiecesInv'
<1> DEFINE m == job[w].msg
<1>1. /\ UNCHANGED <<Stream, wpc, job, exited>> /\ wpc[w] = "sending"
      /\ m \in Messages /\ n[w] \in 1..(AnswerLen + blocked[m])
      /\ n'[w] = n[w] + 1 /\ \A v \in Workers \ {w} : n'[v] = n[v]
      /\ blocked'[m] = blocked[m] + 1 /\ \A i \in Messages \ {m} : blocked'[i] = blocked[i]
  BY WouldBlockEffect
<1>2. \A v \in Workers \ {w} : job[v].msg # m
  BY <1>1 DEF OwnInv
<1> HIDE DEF m
<1> SUFFICES ASSUME ~exited, NEW i \in Messages
             PROVE  /\ NoGap(i)'
                    /\ \A v \in Workers : wpc'[v] = "sending" /\ job'[v].msg = i => Covered(i, n[v])'
                    /\ At(i)' # {} /\ ~Working(i)' => Covered(i, 0)'
  BY <1>1 DEF PiecesInv
<1>3. At(i)' = At(i) /\ (Working(i)' <=> Working(i))
  BY <1>1 DEF At, Working
<1>4. CASE i = m
  <2>1. n[w] \in Int /\ blocked[m] \in Int /\ Cardinality(At(m)) \in Int
        /\ \A k \in At(m) : Stream[k].place \in Int
    BY <1>1, AtType
  <2>2. NoGap(i)'
    <3>1. ASSUME NEW v \in Workers, NEW k \in At(i), wpc[v] = "sending", job[v].msg = i,
                 \A l \in At(i) : l <= k
          PROVE  AnswerLen - n'[v] <= Stream[k].place
      <4>1. AnswerLen - n[w] <= Stream[k].place /\ v = w
        BY <1>1, <1>2, <1>4, <3>1 DEF PiecesInv, NoGap, m
      <4> QED BY <1>1, <1>4, <2>1, <4>1
    <3>2. \A k, l \in At(i) : k < l /\ At(i) \cap (k + 1)..(l - 1) = {} =>
            Stream[l].place <= Stream[k].place + 1
      BY DEF PiecesInv, NoGap
    <3> QED BY <1>1, <1>3, <3>1, <3>2 DEF NoGap
  <2>3. ASSUME NEW v \in Workers, wpc'[v] = "sending", job'[v].msg = i PROVE Covered(i, n[v])'
    <3>1. v = w /\ Covered(m, n[w])
      BY <1>1, <1>2, <1>4, <2>3 DEF PiecesInv, m
    <3>2. Cardinality(At(m)) = AnswerLen + blocked'[m] - n'[w]
      BY <1>1, <2>1, <3>1 DEF Covered
    <3>3. \A p \in 1..(AnswerLen - n'[w]) : p \in 1..(AnswerLen - n[w])
      BY <1>1, <2>1
    <3>4. \A p \in 1..(AnswerLen - n'[w]) : \E k \in At(m) : Stream[k].place = p
      BY <3>1, <3>3 DEF Covered
    <3> QED BY <1>1, <1>3, <1>4, <3>1, <3>2, <3>4 DEF Covered
  <2>4. Working(i)
    BY <1>4 DEF Working, m
  <2> QED BY <1>3, <2>2, <2>3, <2>4
<1>5. CASE i # m
  <2>1. blocked'[i] = blocked[i] /\ \A v \in Workers : job[v].msg = i => n'[v] = n[v]
    BY <1>1, <1>5 DEF m
  <2>2. NoGap(i)'
    BY <1>1, <1>3, <2>1 DEF PiecesInv, NoGap
  <2> QED BY <1>1, <1>3, <2>1, <2>2 DEF PiecesInv, Covered
<1> QED BY <1>4, <1>5

\* A write: the piece goes on where the answer had come to.
LEMMA PiecesWrite ==
  ASSUME TypeInv, OwnInv, PiecesInv, NEW w \in Workers, Write(w)
  PROVE  PiecesInv'
<1> DEFINE m == job[w].msg
           t == Taken(w)
           L == Len(Stream)
<1>1. /\ wpc[w] = "sending" /\ ~exited /\ exited' = exited /\ m \in Messages
      /\ t \in 1..n[w] /\ n[w] \in 1..(AnswerLen + blocked[m]) /\ blocked' = blocked
      /\ \A v \in Workers \ {w} : wpc'[v] = wpc[v] /\ job'[v] = job[v] /\ n'[v] = n[v]
      /\ \/ t < n[w] /\ wpc'[w] = "sending" /\ job'[w].msg = m /\ n'[w] = n[w] - t
         \/ t = n[w] /\ wpc'[w] = "idle" /\ job'[w].msg = 0
  BY WriteEffect DEF NoMessage
<1>2. /\ L \in Nat /\ \A k \in 1..L : Stream'[k] = Stream[k]
      /\ \A k \in (L + 1)..(L + t) : Stream'[k].place = AnswerLen - n[w] + (k - L)
  BY StreamType, StreamGrows
<1>3. \A i \in Messages : At(i)' = IF i = m THEN At(i) \cup (L + 1)..(L + t) ELSE At(i)
  BY AtGrows
<1>4. \A v \in Workers \ {w} : job[v].msg # m
  BY <1>1 DEF OwnInv
<1>5. \A i \in Messages : i # 0
  BY DEF Messages
<1>6. /\ t \in Nat \ {0} /\ n[w] \in Nat /\ blocked[m] \in Nat
  BY <1>1, AtType
<1> HIDE DEF m, t, L
<1> SUFFICES ASSUME NEW i \in Messages
             PROVE  /\ NoGap(i)'
                    /\ \A v \in Workers : wpc'[v] = "sending" /\ job'[v].msg = i => Covered(i, n[v])'
                    /\ At(i)' # {} /\ ~Working(i)' => Covered(i, 0)'
  BY DEF PiecesInv
<1>7. At(i) \subseteq 1..L /\ \A k \in At(i) : Stream'[k] = Stream[k] /\ Stream[k].place \in Int /\ k \in Nat /\ k <= L
  BY <1>2, AtType DEF L
<1>8. CASE i # m
  <2>1. At(i)' = At(i) /\ \A k \in At(i) : Stream'[k] = Stream[k]
    BY <1>3, <1>7, <1>8
  <2>2. \A v \in Workers : job'[v].msg = i => v # w
    BY <1>1, <1>5, <1>8
  <2>3. Working(i)' <=> Working(i)
    BY <1>1, <1>8, <2>2 DEF Working, m
  <2>4. NoGap(i)'
    <3>1. \A k, l \in At(i) : k < l /\ At(i) \cap (k + 1)..(l - 1) = {} =>
            Stream'[l].place <= Stream'[k].place + 1
      BY <1>1, <2>1 DEF PiecesInv, NoGap
    <3>2. ASSUME NEW v \in Workers, NEW k \in At(i), wpc'[v] = "sending", job'[v].msg = i,
                 \A l \in At(i) : l <= k
          PROVE  AnswerLen - n'[v] <= Stream'[k].place
      <4>1. wpc[v] = "sending" /\ job[v].msg = i /\ n'[v] = n[v]
        BY <1>1, <2>2, <3>2
      <4> QED BY <1>1, <2>1, <3>2, <4>1 DEF PiecesInv, NoGap
    <3> QED BY <2>1, <3>1, <3>2 DEF NoGap
  <2>5. ASSUME NEW v \in Workers, wpc'[v] = "sending", job'[v].msg = i PROVE Covered(i, n[v])'
    <3>1. wpc[v] = "sending" /\ job[v].msg = i /\ n'[v] = n[v]
      BY <1>1, <2>2, <2>5
    <3> QED BY <1>1, <2>1, <3>1 DEF PiecesInv, Covered
  <2>6. At(i)' # {} /\ ~Working(i)' => Covered(i, 0)'
    BY <1>1, <2>1, <2>3 DEF PiecesInv, Covered
  <2> QED BY <2>4, <2>5, <2>6
<1>9. CASE i = m
  <2>1. At(i)' = At(i) \cup (L + 1)..(L + t)
    BY <1>3, <1>9
  <2>2. /\ \A k \in At(i) : Stream'[k] = Stream[k] /\ k <= L
        /\ \A k \in (L + 1)..(L + t) : Stream'[k].place = AnswerLen - n[w] + (k - L) /\ k > L /\ k \in Int
    BY <1>2, <1>6, <1>7
  <2>3. /\ \A k, l \in At(i) : k < l /\ At(i) \cap (k + 1)..(l - 1) = {} =>
             Stream[l].place <= Stream[k].place + 1
        /\ \A k \in At(i) : (\A l \in At(i) : l <= k) => AnswerLen - n[w] <= Stream[k].place
        /\ Covered(i, n[w])
    BY <1>1, <1>9 DEF PiecesInv, NoGap, m
  <2>4. \A v \in Workers : wpc'[v] = "sending" /\ job'[v].msg = i => v = w
    BY <1>1, <1>4, <1>9
  <2>5. ASSUME NEW k \in At(i)', NEW l \in At(i)', k < l, At(i)' \cap (k + 1)..(l - 1) = {}
        PROVE  Stream'[l].place <= Stream'[k].place + 1
    <3>1. \A h : h \in At(i)' => ~(h \in (k + 1)..(l - 1))
      BY <2>5
    <3>2. CASE l \in At(i)
      <4>1. k \in At(i)
        BY <1>2, <1>7, <2>1, <2>2, <2>5, <3>2
      <4>2. At(i) \cap (k + 1)..(l - 1) = {}
        BY <2>1, <3>1
      <4> QED BY <2>2, <2>3, <2>5, <3>2, <4>1, <4>2
    <3>3. CASE l \in (L + 1)..(L + t) /\ k \in At(i)
      <4>1. l = L + 1
        <5>1. CASE l > L + 1
          <6>1. L + 1 \in At(i)' /\ L + 1 \in (k + 1)..(l - 1)
            BY <1>2, <1>6, <1>7, <2>1, <2>2, <3>3, <5>1
          <6> QED BY <3>1, <6>1
        <5> QED BY <1>2, <1>6, <3>3, <5>1
      <4>2. \A h \in At(i) : h <= k
        <5> SUFFICES ASSUME NEW h \in At(i), h > k PROVE FALSE
          BY <1>7, <3>3
        <5>1. h \in (k + 1)..(l - 1) /\ h \in At(i)'
          BY <1>2, <1>7, <2>1, <3>3, <4>1
        <5> QED BY <3>1, <5>1
      <4>3. AnswerLen - n[w] <= Stream[k].place
        BY <2>3, <3>3, <4>2
      <4>4. Stream'[l].place = AnswerLen - n[w] + 1
        BY <1>2, <2>2, <3>3, <4>1
      <4> QED BY <1>6, <1>7, <2>2, <3>3, <4>3, <4>4
    <3>4. CASE l \in (L + 1)..(L + t) /\ k \in (L + 1)..(L + t)
      <4>1. l = k + 1
        <5>1. CASE l > k + 1
          <6>1. k + 1 \in (L + 1)..(L + t) /\ k + 1 \in (k + 1)..(l - 1)
            BY <1>2, <1>6, <3>4, <5>1
          <6> QED BY <2>1, <3>1, <6>1
        <5> QED BY <1>2, <1>6, <2>5, <3>4, <5>1
      <4> QED BY <1>2, <1>6, <2>2, <3>4, <4>1
    <3> QED BY <2>1, <3>2, <3>3, <3>4
  <2>6. ASSUME NEW v \in Workers, NEW k \in At(i)', wpc'[v] = "sending", job'[v].msg = i,
               \A l \in At(i)' : l <= k
        PROVE  AnswerLen - n'[v] <= Stream'[k].place
    <3>1. v = w /\ n'[w] = n[w] - t
      BY <1>1, <2>4, <2>6
    <3>2. L + t \in (L + 1)..(L + t)
      BY <1>2, <1>6
    <3>3. k = L + t
      BY <1>2, <1>6, <1>7, <2>1, <2>6, <3>2
    <3> QED BY <1>2, <1>6, <2>2, <3>1, <3>2, <3>3
  <2>7. NoGap(i)'
    BY <2>5, <2>6 DEF NoGap
  <2>8. Cardinality(At(i)') = Cardinality(At(i)) + t
    <3>1. IsFiniteSet(At(i)) /\ IsFiniteSet((L + 1)..(L + t)) /\ Cardinality((L + 1)..(L + t)) = t
      <4>1. L + 1 \in Int /\ L + t \in Int /\ ~(L + 1 > L + t) /\ (L + t) - (L + 1) + 1 = t
        BY <1>2, <1>6
      <4> QED BY <4>1, FS_Interval, AtType
    <3>2. At(i) \cap (L + 1)..(L + t) = {}
      BY <1>2, <1>7, <2>2
    <3>3. Cardinality(At(i) \cup (L + 1)..(L + t))
            = Cardinality(At(i)) + Cardinality((L + 1)..(L + t)) - Cardinality(At(i) \cap (L + 1)..(L + t))
      BY <3>1, FS_Union
    <3>4. Cardinality({}) = 0 /\ Cardinality(At(i)) \in Nat
      BY FS_EmptySet, AtType
    <3>5. Cardinality(At(i) \cup (L + 1)..(L + t)) = Cardinality(At(i)) + t
      <4>1. Cardinality(At(i) \cap (L + 1)..(L + t)) = 0
        BY <3>2, <3>4, Zenon
      <4>2. Cardinality((L + 1)..(L + t)) = t
        BY <3>1
      <4>3. \A a, b \in Nat : a + b - 0 = a + b
        OBVIOUS
      <4> QED BY <1>6, <3>3, <3>4, <4>1, <4>2, <4>3
    <3> QED BY <2>1, <3>5
  <2>9. ASSUME NEW p \in 1..(AnswerLen - (n[w] - t)) PROVE \E k \in At(i)' : Stream'[k].place = p
    <3>1. CASE p <= AnswerLen - n[w]
      <4>1. p \in 1..(AnswerLen - n[w])
        BY <1>6, <3>1
      <4> QED BY <2>1, <2>2, <2>3, <4>1 DEF Covered
    <3>2. CASE p > AnswerLen - n[w]
      <4> DEFINE k == L + (p - (AnswerLen - n[w]))
      <4>1. k \in (L + 1)..(L + t) /\ AnswerLen - n[w] + (k - L) = p
        BY <1>2, <1>6, <3>2
      <4> QED BY <2>1, <2>2, <4>1
    <3> QED BY <1>6, <3>1, <3>2
  <2>10. \A x \in Nat : x = n[w] - t => Covered(i, x)'
    <3>1. Cardinality(At(i)) = AnswerLen + blocked[i] - n[w] /\ blocked[i] \in Nat
      BY <2>3, AtType DEF Covered
    <3> QED BY <1>1, <1>6, <2>8, <2>9, <3>1 DEF Covered
  <2>11. ASSUME NEW v \in Workers, wpc'[v] = "sending", job'[v].msg = i PROVE Covered(i, n[v])'
    <3>1. v = w /\ n'[v] = n[w] - t /\ n[w] - t \in Nat
      BY <1>1, <1>6, <2>4, <2>11
    <3> QED BY <2>10, <3>1 DEF Covered
  <2>12. ASSUME ~Working(i)' PROVE Covered(i, 0)'
    <3>1. n[w] - t = 0
      BY <1>1, <1>6, <1>9, <2>12 DEF Working
    <3> QED BY <2>10, <3>1
  <2> QED BY <2>7, <2>11, <2>12
<1> QED BY <1>8, <1>9

LEMMA PiecesStep == ASSUME TypeInv, FifoInv, OwnInv, PiecesInv, [Next]_vars PROVE PiecesInv'
<1>1. CASE UNCHANGED Answers
  <2>1. \A i \in Messages : NoGap(i)' <=> NoGap(i)
    BY <1>1 DEF Answers, NoGap, At
  <2>2. \A i \in Messages : /\ At(i)' = At(i) /\ (Working(i)' <=> Working(i)) /\ (Covered(i, 0)' <=> Covered(i, 0))
                            /\ \A v \in Workers : Covered(i, n[v])' <=> Covered(i, n[v])
    BY <1>1 DEF Answers, Covered, Working, At
  <2> QED BY <1>1, <2>1, <2>2 DEF Answers, PiecesInv
<1>2. CASE Exit
  BY <1>2, ExitEffect DEF PiecesInv
<1>3. ASSUME NEW w \in Workers, Login(w) \/ WriteFails(w) PROVE PiecesInv'
  <2>1. CASE exited
    BY <1>3, <2>1, DoneEffect DEF PiecesInv
  <2>2. CASE wpc[w] = "login"
    <3>1. At(job[w].msg) = {}
      BY <2>2 DEF OwnInv
    <3> QED BY <1>3, <3>1, DoneEffect, PiecesKept
  <2> QED BY <1>3, <2>1, <2>2, DoneEffect
<1> QED BY <1>1, <1>2, <1>3, PiecesTake, PiecesWouldBlock, PiecesWrite, AnswerSteps

(***************************************************************************)
(* What the client makes of the answers.                                   *)
(***************************************************************************)

\* A step that sends nothing keeps the order of the units.
LEMMA UpwardsKept ==
  ASSUME UpwardsInv, UNCHANGED <<Stream, exited>>,
         \A i \in Messages : blocked'[i] = 0 =>
           /\ blocked[i] = 0
           /\ \A v \in Workers : wpc'[v] = "sending" /\ job'[v].msg = i =>
                At(i) = {} \/ (wpc[v] = "sending" /\ job[v].msg = i /\ n'[v] = n[v])
  PROVE  UpwardsInv'
<1>1. \A i \in Messages : At(i)' = At(i)
  BY DEF At
<1> QED BY <1>1 DEF UpwardsInv

\* A write goes on above what was sent, and starts with the first unit.
LEMMA UpwardsWrite ==
  ASSUME TypeInv, OwnInv, PiecesInv, UpwardsInv, NEW w \in Workers, Write(w)
  PROVE  UpwardsInv'
<1> DEFINE m == job[w].msg
           t == Taken(w)
           L == Len(Stream)
<1>1. /\ wpc[w] = "sending" /\ ~exited /\ exited' = exited /\ m \in Messages
      /\ t \in 1..n[w] /\ n[w] \in 1..(AnswerLen + blocked[m]) /\ blocked' = blocked
      /\ \A v \in Workers \ {w} : wpc'[v] = wpc[v] /\ job'[v] = job[v] /\ n'[v] = n[v]
      /\ wpc'[w] = "sending" => job'[w].msg = m /\ n'[w] = n[w] - t
  BY WriteEffect
<1>2. /\ L \in Nat /\ \A k \in 1..L : Stream'[k] = Stream[k]
      /\ \A k \in (L + 1)..(L + t) : Stream'[k].place = AnswerLen - n[w] + (k - L)
  BY StreamType, StreamGrows
<1>3. \A i \in Messages : At(i)' = IF i = m THEN At(i) \cup (L + 1)..(L + t) ELSE At(i)
  BY AtGrows
<1>4. \A v \in Workers \ {w} : job[v].msg # m
  BY <1>1 DEF OwnInv
<1>5. t \in Nat \ {0} /\ n[w] \in Nat
  BY <1>1, PieceType DEF Write
<1> HIDE DEF m, t, L
<1> SUFFICES ASSUME NEW i \in Messages, blocked[i] = 0
             PROVE  /\ \A k, l \in At(i)' : k < l => Stream'[k].place < Stream'[l].place
                    /\ \A k \in At(i)' : Stream'[k].place # 1 => \E l \in At(i)' : l < k /\ Stream'[l].place = 1
                    /\ \A v \in Workers, k \in At(i)' :
                         wpc'[v] = "sending" /\ job'[v].msg = i => Stream'[k].place <= AnswerLen - n'[v]
  BY <1>1 DEF UpwardsInv
<1>6. \A k \in At(i) : Stream'[k] = Stream[k] /\ Stream[k].place \in Int /\ k \in Nat /\ k <= L
  BY <1>2, AtType DEF L
<1>7. /\ \A k, l \in At(i) : k < l => Stream[k].place < Stream[l].place
      /\ \A k \in At(i) : Stream[k].place # 1 => \E l \in At(i) : l < k /\ Stream[l].place = 1
      /\ \A v \in Workers, k \in At(i) :
           wpc[v] = "sending" /\ job[v].msg = i => Stream[k].place <= AnswerLen - n[v]
  BY <1>1 DEF UpwardsInv
<1>8. CASE i # m
  <2>1. At(i)' = At(i)
    BY <1>3, <1>8
  <2>2. \A v \in Workers : wpc'[v] = "sending" /\ job'[v].msg = i =>
          wpc[v] = "sending" /\ job[v].msg = i /\ n'[v] = n[v]
    BY <1>1, <1>8
  <2> QED BY <1>6, <1>7, <2>1, <2>2
<1>9. CASE i = m
  <2>1. At(i)' = At(i) \cup (L + 1)..(L + t)
    BY <1>3, <1>9
  <2>2. /\ \A k \in At(i) : Stream'[k] = Stream[k] /\ k <= L /\ k \in Int /\ Stream[k].place \in Int
        /\ \A k \in (L + 1)..(L + t) : /\ Stream'[k].place = AnswerLen - n[w] + (k - L)
                                       /\ k > L /\ k \in Int
                                       /\ Stream'[k].place > AnswerLen - n[w]
                                       /\ Stream'[k].place <= AnswerLen - (n[w] - t)
        /\ L \in Int
    BY <1>2, <1>5, <1>6
  <2>3. \A k \in At(i) : Stream[k].place <= AnswerLen - n[w]
    BY <1>1, <1>7, <1>9 DEF m
  <2>4. ASSUME NEW k \in At(i)', NEW l \in At(i)', k < l
        PROVE  Stream'[k].place < Stream'[l].place
    <3>1. CASE k \in At(i) /\ l \in At(i)
      BY <1>7, <2>2, <2>4, <3>1
    <3>2. CASE k \in At(i) /\ l \in (L + 1)..(L + t)
      <4>1. Stream'[l].place \in Int
        BY <1>5, <2>2, <3>2
      <4> QED BY <1>5, <2>2, <2>3, <3>2, <4>1
    <3>3. CASE k \in (L + 1)..(L + t) /\ l \in (L + 1)..(L + t)
      <4>1. /\ Stream'[k].place = AnswerLen - n[w] + (k - L) /\ Stream'[l].place = AnswerLen - n[w] + (l - L)
            /\ k \in Int /\ l \in Int
        BY <2>2, <3>3
      <4> QED BY <1>5, <2>2, <2>4, <4>1
    <3>4. ~(k \in (L + 1)..(L + t) /\ l \in At(i))
      BY <2>2, <2>4
    <3> QED BY <2>1, <3>1, <3>2, <3>3, <3>4
  <2>5. ASSUME NEW k \in At(i)', Stream'[k].place # 1
        PROVE  \E l \in At(i)' : l < k /\ Stream'[l].place = 1
    <3>1. CASE k \in At(i)
      BY <1>7, <2>1, <2>2, <2>5, <3>1
    <3>2. CASE k \in (L + 1)..(L + t) /\ At(i) # {}
      <4>1. PICK h \in At(i) : TRUE
        BY <3>2
      <4>2. PICK l \in At(i) : Stream[l].place = 1
        BY <1>7, <4>1
      <4> QED BY <2>1, <2>2, <3>2, <4>2
    <3>3. CASE k \in (L + 1)..(L + t) /\ At(i) = {}
      <4>1. n[w] = AnswerLen
        <5>1. Cardinality(At(i)) = AnswerLen + blocked[i] - n[w]
          BY <1>1, <1>9 DEF PiecesInv, Covered, m
        <5>2. Cardinality(At(i)) = 0
          BY <3>3, FS_EmptySet
        <5>3. AnswerLen \in Nat
          OBVIOUS
        <5> QED BY <1>5, <5>1, <5>2, <5>3
      <4>2. L + 1 \in (L + 1)..(L + t) /\ Stream'[L + 1].place = 1
        BY <1>2, <1>5, <4>1
      <4>3. k # L + 1
        BY <2>5, <4>2
      <4>4. L + 1 < k
        BY <2>2, <3>3, <4>3
      <4> QED BY <2>1, <4>2, <4>4
    <3> QED BY <2>1, <3>1, <3>2, <3>3
  <2>6. ASSUME NEW v \in Workers, NEW k \in At(i)', wpc'[v] = "sending", job'[v].msg = i
        PROVE  Stream'[k].place <= AnswerLen - n'[v]
    <3>1. v = w /\ n'[v] = n[w] - t
      BY <1>1, <1>4, <1>9, <2>6
    <3>2. CASE k \in At(i)
      BY <1>5, <2>2, <2>3, <3>1, <3>2
    <3>3. CASE k \in (L + 1)..(L + t)
      BY <2>2, <3>1, <3>3
    <3> QED BY <2>1, <3>2, <3>3
  <2> QED BY <2>4, <2>5, <2>6
<1> QED BY <1>8, <1>9

LEMMA UpwardsStep ==
  ASSUME TypeInv, FifoInv, OwnInv, PiecesInv, UpwardsInv, [Next]_vars
  PROVE  UpwardsInv'
<1>1. CASE UNCHANGED Answers
  BY <1>1, UpwardsKept DEF Answers
<1>2. CASE Exit
  BY <1>2, ExitEffect DEF UpwardsInv
<1>3. ASSUME NEW w \in Workers, Take(w) PROVE UpwardsInv'
  <2>1. /\ UNCHANGED <<Stream, blocked, exited>>
        /\ \A v \in Workers \ {w} : wpc'[v] = wpc[v] /\ job'[v] = job[v] /\ n'[v] = n[v]
        /\ wpc'[w] = "sending" => job'[w].msg \in Messages /\ ~Started(job'[w].msg)
    BY <1>3, TakeEffect
  <2>2. wpc'[w] = "sending" => At(job'[w].msg) = {}
    BY <2>1 DEF Started
  <2> QED BY <2>1, <2>2, UpwardsKept
<1>4. ASSUME NEW w \in Workers, Login(w) \/ WriteFails(w) PROVE UpwardsInv'
  BY <1>4, DoneEffect, UpwardsKept
<1>5. ASSUME NEW w \in Workers, WouldBlock(w) PROVE UpwardsInv'
  <2>1. /\ UNCHANGED <<Stream, wpc, job, exited>> /\ job[w].msg \in Messages
        /\ \A v \in Workers \ {w} : n'[v] = n[v]
        /\ blocked'[job[w].msg] = blocked[job[w].msg] + 1
        /\ \A i \in Messages \ {job[w].msg} : blocked'[i] = blocked[i]
    BY <1>5, WouldBlockEffect
  <2>2. blocked'[job[w].msg] # 0
    BY <2>1, AtType
  <2>3. ASSUME NEW i \in Messages, blocked'[i] = 0
        PROVE  /\ blocked[i] = 0
               /\ \A v \in Workers : wpc'[v] = "sending" /\ job'[v].msg = i =>
                    wpc[v] = "sending" /\ job[v].msg = i /\ n'[v] = n[v]
    BY <2>1, <2>2, <2>3
  <2> QED BY <2>1, <2>3, UpwardsKept
<1> QED BY <1>1, <1>2, <1>3, <1>4, <1>5, UpwardsWrite, AnswerSteps

\* What the client takes for a header is one, as long as it has received whole answers and
\* none has repeats: the unit before the others of its answer has come before.
LEMMA ReadStep == ASSUME TypeInv, UpwardsInv, ReadInv, [Next]_vars PROVE ReadInv'
<1>1. CASE Exit
  <2>1. misread' = FALSE /\ parts' = FALSE /\ got' = <<>>
    BY <1>1 DEF Exit
  <2>2. DOMAIN <<>> = {}
    OBVIOUS
  <2> QED BY <2>1, <2>2 DEF ReadInv, MisreadNeedsParts, Incomplete
<1>2. CASE ClientRecv /\ (misread' = misread \/ misread' = (misread \/ out[1].place # 1))
  <2>1. PICK k \in 1..Len(out) : TRUE
    BY <1>2 DEF ClientRecv
  <2>2. /\ ~exited /\ parts' = (parts \/ Incomplete(got')) /\ blocked' = blocked
    BY <1>2 DEF ClientRecv, history
  <2>3. ASSUME out[1].place # 1, ~parts, \A i \in Messages : ~(blocked[i] > 0)
        PROVE  FALSE
    <3> DEFINE h == Len(got) + 1
    <3>1. /\ got \in Seq(Units) /\ out \in Seq(Units) /\ Len(got) \in Nat /\ Len(out) \in Nat
      BY DEF TypeInv, TypeOK
    <3>2. /\ Len(Stream) = Len(got) + Len(out) /\ 1 \in 1..Len(out) /\ DOMAIN Stream = 1..Len(Stream)
          /\ \A l \in 1..Len(got) : Stream[l] = got[l]
          /\ \A l \in 1..Len(out) : Stream[Len(got) + l] = out[l]
      <4>1. 1 \in 1..Len(out)
        BY <2>1, <3>1
      <4> QED BY <3>1, <4>1, Concatenation, StreamType DEF Stream
    <3>3. h \in 1..Len(Stream) /\ Stream[h] = out[1]
      BY <3>1, <3>2
    <3> HIDE DEF h
    <3>4. PICK i \in Messages : Stream[h].msg = i
      BY <3>3, StreamType
    <3>5. h \in At(i) /\ blocked[i] = 0
      <4>1. h \in At(i)
        BY <3>2, <3>3, <3>4 DEF At
      <4>2. blocked[i] \in Nat /\ ~(blocked[i] > 0)
        BY <2>3, AtType
      <4> QED BY <4>1, <4>2
    <3>6. /\ \A a, b \in At(i) : a < b => Stream[a].place < Stream[b].place
          /\ \E l \in At(i) : l < h /\ Stream[l].place = 1
      BY <2>2, <2>3, <3>3, <3>5 DEF UpwardsInv
    <3>7. PICK l \in At(i) : l < h
      BY <3>6
    <3>8. l \in DOMAIN got /\ got[l].msg = i
      <4>1. l \in Nat \ {0} /\ l <= Len(got)
        BY <3>1, <3>7, AtType DEF h
      <4>2. l \in 1..Len(got) /\ Stream[l].msg = i
        BY <3>1, <4>1 DEF At
      <4> QED BY <3>1, <3>2, <4>2
    <3>9. PICK e \in DOMAIN got : got[e].msg = i /\ got[e].place = AnswerLen
      <4>1. ~Incomplete(got)
        BY <2>3 DEF ReadInv
      <4> QED BY <3>8, <4>1 DEF Incomplete
    <3>10. e \in At(i) /\ e < h /\ Stream[e].place = AnswerLen
      <4>1. e \in 1..Len(got) /\ e \in 1..Len(Stream)
        BY <3>1, <3>2
      <4> QED BY <3>1, <3>2, <3>9, <4>1 DEF At, h
    <3>11. AnswerLen < Stream[h].place
      BY <3>5, <3>6, <3>10
    <3> QED BY <3>5, <3>11, AtType
  <2>4. MisreadNeedsParts'
    BY <1>2, <2>2, <2>3 DEF ReadInv, MisreadNeedsParts
  <2> QED BY <2>2, <2>4 DEF ReadInv
<1>3. ASSUME UNCHANGED <<got, misread, parts>>,
             \A i \in Messages : blocked[i] > 0 => blocked'[i] > 0
      PROVE  ReadInv'
  BY <1>3 DEF ReadInv, MisreadNeedsParts, Incomplete
<1>4. ASSUME NEW w \in Workers, Worker(w) PROVE ReadInv'
  <2>1. UNCHANGED <<got, misread, parts>>
    BY <1>4 DEF Worker, Take, Login, Write, WouldBlock, WriteFails, received
  <2>2. CASE WouldBlock(w)
    <3>1. \A i \in Messages : blocked'[i] = blocked[i] \/ blocked'[i] = blocked[i] + 1
      BY <2>2, WouldBlockEffect
    <3>2. \A i \in Messages : blocked[i] > 0 => blocked'[i] > 0
      BY <3>1, AtType
    <3> QED BY <1>3, <2>1, <3>2
  <2>3. CASE ~WouldBlock(w)
    BY <1>3, <1>4, <2>1, <2>3 DEF Worker, Take, Login, Write, WriteFails, history
  <2> QED BY <2>2, <2>3
<1>5. CASE \/ \E c \in Cmds : SendMessage(c)
           \/ Deliver \/ DeliverEnd \/ Recv \/ DumpOverrun \/ RecvFails \/ UNCHANGED vars
  <2>1. UNCHANGED <<got, misread, parts, blocked>>
    BY <1>5 DEF SendMessage, Deliver, DeliverEnd, Recv, DumpOverrun, RecvFails, vars, received, history
  <2> QED BY <1>3, <2>1
<1> QED BY <1>1, <1>2, <1>4, <1>5, SideSteps

(***************************************************************************)
(* The theorems about the answers.                                         *)
(***************************************************************************)

SessionInv == TypeInv /\ FifoInv /\ OwnInv /\ OrderInv /\ PiecesInv /\ UpwardsInv /\ ReadInv

LEMMA SessionInvariant == Spec => []SessionInv
<1>1. Init /\ TypeInv => SessionInv
  <2> SUFFICES ASSUME Init, TypeInv PROVE SessionInv
    OBVIOUS
  <2>1. /\ queue = <<>> /\ inbox = <<>> /\ up = <<>> /\ got = <<>> /\ out = <<>> /\ exited = FALSE
        /\ misread = FALSE /\ \A w \in Workers : wpc[w] = "idle" /\ job[w].msg = 0
        /\ \A i \in Messages : blocked[i] = 0 /\ i # 0
    BY DEF Init, NoMessage, Messages
  <2>2. <<>> \o <<>> = <<>> /\ DOMAIN <<>> = {}
    OBVIOUS
  <2>3. Arriving = <<>> /\ Stream = <<>>
    BY <2>1, <2>2 DEF Arriving, Stream
  <2>4. \A i \in Messages : At(i) = {} /\ ~Started(i)
    BY <2>1, <2>2, <2>3 DEF At, Started, Working
  <2>5. FifoInv
    BY <2>1, <2>2, <2>3, <2>4 DEF FifoInv
  <2>6. OwnInv
    BY <2>1 DEF OwnInv
  <2>7. OrderInv
    BY <2>1, <2>2, <2>3 DEF OrderInv, SwappedOnlyWhenOverlapping, MixedOnlyWhenCut
  <2>8. PiecesInv
    BY <2>1, <2>4 DEF PiecesInv, NoGap
  <2>9. UpwardsInv
    BY <2>4 DEF UpwardsInv
  <2>10. ReadInv
    BY <2>1, <2>2 DEF ReadInv, Incomplete, MisreadNeedsParts
  <2> QED BY <2>5, <2>6, <2>7, <2>8, <2>9, <2>10 DEF SessionInv
<1>2. SessionInv /\ [Next]_vars /\ TypeInv' => SessionInv'
  BY FifoStep, OwnStep, OrderStep, PiecesStep, UpwardsStep, ReadStep DEF SessionInv
<1> QED BY <1>1, <1>2, TypeInvariant, PTL DEF Spec

\* Answers come in the order of their requests, but for requests that two workers had at one
\* time: there is one queue, and only the workers overtake each other (thread_pool.c:161).
THEOREM OrderOfAnswers == Spec => []SwappedOnlyWhenOverlapping
<1>1. SessionInv => SwappedOnlyWhenOverlapping
  BY DEF SessionInv, OrderInv
<1> QED BY <1>1, SessionInvariant, PTL

\* The units of two answers mix only where send_buffer_to_fd's loop went round more than once
\* (g_net_update.c:316).
THEOREM AnswersMixOnlyWhenCut == Spec => []MixedOnlyWhenCut
<1>1. SessionInv => MixedOnlyWhenCut
  BY DEF SessionInv, OrderInv
<1> QED BY <1>1, SessionInvariant, PTL

\* An answer that has ended is whole, a unit longer for each write that would have blocked
\* (g_net_update.c:318, 334).
THEOREM AnswersAreWhole == Spec => []CompleteWithRepeats
<1>1. SessionInv => CompleteWithRepeats
  <2> SUFFICES ASSUME SessionInv, NEW i \in Messages, At(i) # {}, ~Working(i), ~exited
               PROVE  /\ Cardinality(At(i)) = AnswerLen + blocked[i]
                      /\ \A k, l \in At(i) : k < l /\ At(i) \cap (k + 1)..(l - 1) = {} =>
                           Stream[l].place <= Stream[k].place + 1
                      /\ \A p \in 1..AnswerLen : \E k \in At(i) : Stream[k].place = p
    BY DEF CompleteWithRepeats
  <2>1. NoGap(i) /\ Covered(i, 0)
    BY DEF SessionInv, PiecesInv
  <2>2. blocked[i] \in Nat
    BY AtType DEF SessionInv
  <2>3. AnswerLen + blocked[i] - 0 = AnswerLen + blocked[i] /\ AnswerLen - 0 = AnswerLen
    BY <2>2
  <2> QED BY <2>1, <2>3 DEF NoGap, Covered
<1> QED BY <1>1, SessionInvariant, PTL

\* recv_func takes no bytes for a header that are none as long as it has received whole
\* answers, and the server has written none with repeats (Win32ClientTest.cpp:24).
THEOREM HeadersAreHeaders == Spec => []MisreadNeedsParts
<1>1. SessionInv => MisreadNeedsParts
  BY DEF SessionInv, ReadInv
<1> QED BY <1>1, SessionInvariant, PTL
=============================================================================
