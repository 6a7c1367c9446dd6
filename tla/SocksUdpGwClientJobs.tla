------------------------ MODULE SocksUdpGwClientJobs ------------------------
(***************************************************************************)
(* The inductive invariant of the UDP relay, what it needs to know of      *)
(* stacks of jobs, and that every job of a connection and every event on   *)
(* its socket keep it.                                                     *)
(*                                                                         *)
(* RelayInv says of each connection, in terms of its pending jobs, where   *)
(* the packet that is written next, the packet that is sent next and the   *)
(* buffer for what is received are: each in one place. It says of the      *)
(* stack that the one job of the device is at the bottom, so that the jobs *)
(* of the connections run between two packets of the device; and of        *)
(* first_job that nothing but the two jobs connection_init sets after it   *)
(* is above it.                                                            *)
(***************************************************************************)
EXTENDS SocksUdpGwClient, FiniteSetTheorems, SequenceTheorems, TLAPS

Rng(q) == {q[i] : i \in DOMAIN q}

Distinct(q) == \A i, j \in DOMAIN q : q[i] = q[j] => i = j

\* The names of the jobs of connection c on the stack q.
Pend(q, c) == {n \in ConJobs : ConJob(n, c) \in Rng(q)}

\* A queue of datagrams that are right, at most n of them.
Queue(q, n) ==
    /\ q \in Seq(Datagram) /\ Len(q) <= n
    /\ \A i \in DOMAIN q : q[i].right

\* The sending half of a connection o with pending jobs p: the packet that is
\* written next is in one place, and so is the packet that is sent next.
SendInv(o, p) ==
    /\ Queue(o.buf, BufSize) /\ Queue(o.written, 1)
    /\ o.written /= <<>> <=> "writer_done" \in p
    /\ room(o.buf) <=> o.out_have \/ "writer_recv" \in p \/ "writer_done" \in p
    /\ ~(o.out_have /\ "writer_recv" \in p)
    /\ ~(o.out_have /\ "writer_done" \in p)
    /\ ~("writer_recv" \in p /\ "writer_done" \in p)
    /\ o.buf /= <<>> <=> "send" \in p \/ o.sending \/ "send_done" \in p
    /\ ~("send" \in p /\ o.sending)
    /\ ~("send" \in p /\ "send_done" \in p)
    /\ ~(o.sending /\ "send_done" \in p)
    /\ "send_job" \in p => o.sending /\ "write" \notin o.wait
    /\ "write" \in o.wait => o.sending
    /\ o.sending => o.failed \/ "send_job" \in p \/ "write" \in o.wait

\* The receiving half: the one packet of its buffer is in one place.
RecvInv(o, p) ==
    LET at(n) == n \in p IN
    /\ o.receiving \/ at("recv") \/ at("recv_done") \/ at("rx") \/ at("rx_done")
    /\ o.receiving => ~at("recv") /\ ~at("recv_done") /\ ~at("rx") /\ ~at("rx_done")
    /\ at("recv") => ~at("recv_done") /\ ~at("rx") /\ ~at("rx_done")
    /\ at("recv_done") => ~at("rx") /\ ~at("rx_done")
    /\ at("rx") => ~at("rx_done")
    /\ at("recv_job") => o.receiving /\ o.started
    /\ "read" \in o.wait => o.started
    /\ o.receiving /\ o.started => o.failed \/ at("recv_job") \/ "read" \in o.wait

\* The first packet is kept until first_job has run.
FirstInv(o, p) ==
    /\ o.first /= <<>> <=> "first" \in p
    /\ Len(o.first) <= 1

ConInv(o, p) == SendInv(o, p) /\ RecvInv(o, p) /\ FirstInv(o, p)

\* The one job of the device is at the bottom of the stack q, and q has it.
Good(q) ==
    /\ q \in Seq(Job) /\ Distinct(q)
    /\ \A i \in DOMAIN q : q[i].con = NoCon => i = Len(q)

Bottom(q) == q /= <<>> /\ q[Len(q)].con = NoCon

\* The device has a job unless it waits, and a job is of a connection there is.
StackInv ==
    /\ Good(jobs)
    /\ \A c \in Con : Pend(jobs, c) /= {} => c \in live
    /\ dev.state = "idle" <=> Bottom(jobs)

\* first_job and what is above it on the stack.
FirstStack(c) ==
    {<<ConJob("first", c), DevJob("dev_done")>>,
     <<ConJob("writer_recv", c), ConJob("first", c), DevJob("dev_done")>>,
     <<ConJob("recv", c), ConJob("writer_recv", c), ConJob("first", c), DevJob("dev_done")>>}

\* Until first_job of a connection has run, nothing but what connection_init
\* left behind runs, and the buffer of the device is not read into.
FirstJobInv ==
    \A c \in live : cons[c].first /= <<>> =>
        /\ jobs \in FirstStack(c)
        /\ ~cons[c].started /\ cons[c].buf = <<>>
        /\ cons[c].first[1].data = dev.data
        /\ cons[c].first[1].remote = cons[c].remote
        /\ cons[c].first[1].is_dns = cons[c].is_dns

TableInv ==
    /\ Distinct(list) /\ Rng(list) = live /\ IsFiniteSet(live)
    /\ num = Len(list) /\ num = Cardinality(live) /\ num = fds /\ num <= max_connections
    /\ \A c, d \in live : cons[c].local = cons[d].local => c = d

ConsInv == \A c \in live : ConInv(cons[c], Pend(jobs, c))

RelayInv == TypeOK /\ ConsInv /\ StackInv /\ FirstJobInv /\ TableInv

-----------------------------------------------------------------------------
(* The stack. *)

\* Only the empty sequence has length zero.
LEMMA LenZero ==
    ASSUME NEW S, NEW q \in Seq(S)
    PROVE  Len(q) \in Nat /\ (q = <<>> <=> Len(q) = 0)
BY EmptySeq

\* A sequence of at most one element that is not empty has one.
LEMMA LenOne ==
    ASSUME NEW S, NEW q \in Seq(S), q /= <<>>, Len(q) <= 1
    PROVE  Len(q) = 1
BY LenZero

\* What a list without repetition holds without its first element.
LEMMA RngTail ==
    ASSUME NEW S, NEW q \in Seq(S), q /= <<>>, Distinct(q)
    PROVE  Distinct(Tail(q)) /\ Rng(Tail(q)) = Rng(q) \ {Head(q)}
<1>1. Distinct(Tail(q))
  BY DEF Distinct
<1>2. ASSUME NEW x \in Rng(Tail(q)) PROVE x \in Rng(q) \ {Head(q)}
  BY DEF Rng, Distinct
<1>3. ASSUME NEW x \in Rng(q) \ {Head(q)} PROVE x \in Rng(Tail(q))
  <2>1. PICK i \in DOMAIN q : x = q[i]
    BY DEF Rng
  <2>2. i - 1 \in DOMAIN Tail(q) /\ Tail(q)[i - 1] = x
    BY <2>1
  <2> QED
    BY <2>2 DEF Rng
<1> QED
  BY <1>1, <1>2, <1>3

\* What it holds with a new element in front.
LEMMA RngPush ==
    ASSUME NEW S, NEW q \in Seq(S), NEW j \in S, j \notin Rng(q), Distinct(q)
    PROVE  Distinct(<<j>> \o q) /\ Rng(<<j>> \o q) = Rng(q) \cup {j}
<1>1. Distinct(<<j>> \o q)
  BY DEF Distinct, Rng
<1>2. ASSUME NEW x \in Rng(<<j>> \o q) PROVE x \in Rng(q) \cup {j}
  BY DEF Rng
<1>3. ASSUME NEW x \in Rng(q) PROVE x \in Rng(<<j>> \o q)
  <2>1. PICK i \in DOMAIN q : x = q[i]
    BY DEF Rng
  <2>2. i + 1 \in DOMAIN (<<j>> \o q) /\ (<<j>> \o q)[i + 1] = x
    BY <2>1
  <2> QED
    BY <2>2 DEF Rng
<1>4. 1 \in DOMAIN (<<j>> \o q) /\ (<<j>> \o q)[1] = j
  OBVIOUS
<1> QED
  BY <1>1, <1>2, <1>3, <1>4, Zenon DEF Rng

\* Jobs are told apart by their name and owner, and a job of a connection is
\* no job of the device.
LEMMA JobNames ==
    /\ \A m, n, c, d : ConJob(m, c) = ConJob(n, d) <=> m = n /\ c = d
    /\ \A n \in ConJobs, c \in Con : ConJob(n, c) \in Job /\ ConJob(n, c).con /= NoCon
    /\ \A j \in Job : j.con = NoCon \/ (j.con \in Con /\ j.job \in ConJobs /\ j = ConJob(j.job, j.con))
    /\ \A n \in DevJobs : DevJob(n) \in Job /\ DevJob(n).con = NoCon
    /\ \A n \in DevJobs, m, c \in Con : DevJob(n) /= ConJob(m, c)
BY RelayAssumption DEF ConJob, DevJob, Job

\* A job of a connection is taken off the stack.
LEMMA Pop ==
    ASSUME NEW q, Good(q), q /= <<>>, NEW n \in ConJobs, NEW c \in Con, Head(q) = ConJob(n, c)
    PROVE  /\ Good(Tail(q)) /\ (Bottom(Tail(q)) <=> Bottom(q))
           /\ \A d \in Con : Pend(Tail(q), d) = IF d = c THEN Pend(q, d) \ {n} ELSE Pend(q, d)
           /\ n \in Pend(q, c)
<1>1. /\ q \in Seq(Job) /\ Distinct(q) /\ q[1].con /= NoCon
      /\ \A i \in DOMAIN q : q[i].con = NoCon => i = Len(q)
  BY JobNames DEF Good
<1>2. Distinct(Tail(q)) /\ Rng(Tail(q)) = Rng(q) \ {ConJob(n, c)}
  BY <1>1, RngTail
<1>3. Good(Tail(q))
  BY <1>1, <1>2 DEF Good
<1>4. Bottom(Tail(q)) <=> Bottom(q)
  <2>1. Len(q) \in Nat /\ Len(q) /= 0
    BY <1>1, LenZero
  <2>2. Tail(q) \in Seq(Job) /\ Len(Tail(q)) = Len(q) - 1
    BY <1>1, <2>1
  <2>3. Tail(q) = <<>> <=> Len(q) = 1
    BY <2>1, <2>2, LenZero
  <2> QED
    BY <1>1, <2>1, <2>2, <2>3 DEF Bottom
<1>5. ConJob(n, c) \in Rng(q)
  BY <1>1 DEF Rng
<1> QED
  BY <1>2, <1>3, <1>4, <1>5, JobNames DEF Pend

\* A job of a connection is set.
LEMMA Push ==
    ASSUME NEW q, Good(q), NEW n \in ConJobs, NEW c \in Con, n \notin Pend(q, c)
    PROVE  LET r == BPending_Set(q, ConJob(n, c)) IN
           /\ Good(r) /\ (Bottom(r) <=> Bottom(q))
           /\ \A d \in Con : Pend(r, d) = IF d = c THEN Pend(q, d) \cup {n} ELSE Pend(q, d)
<1> DEFINE j == ConJob(n, c)
<1>1. q \in Seq(Job) /\ j \in Job /\ j.con /= NoCon /\ j \notin Rng(q) /\ Distinct(q)
  BY JobNames DEF Good, Pend
<1>2. Distinct(<<j>> \o q) /\ Rng(<<j>> \o q) = Rng(q) \cup {j}
  BY <1>1, RngPush
<1>3. \A i \in DOMAIN (<<j>> \o q) : (<<j>> \o q)[i].con = NoCon => i = Len(<<j>> \o q)
  BY <1>1 DEF Good
<1>4. Bottom(<<j>> \o q) <=> Bottom(q)
  BY <1>1 DEF Bottom
<1>5. Good(<<j>> \o q)
  BY <1>1, <1>2, <1>3 DEF Good
<1> QED
  BY <1>2, <1>4, <1>5, JobNames DEF Pend, BPending_Set

\* A job of the device is the only one when it is the next.
LEMMA DeviceNext ==
    ASSUME NEW q, Good(q), q /= <<>>, Head(q).con = NoCon
    PROVE  Len(q) = 1 /\ Tail(q) = <<>> /\ Bottom(q) /\ \A c \in Con : Pend(q, c) = {}
<1>0. q \in Seq(Job) /\ Len(q) \in Nat /\ Len(q) >= 1 /\ DOMAIN q = 1..Len(q)
  BY DEF Good
<1>1. q \in Seq(Job) /\ Len(q) = 1 /\ q[1].con = NoCon
  BY <1>0 DEF Good
<1>2. Tail(q) = <<>>
  <2>1. Tail(q) \in Seq(Job) /\ Len(Tail(q)) = 0
    BY <1>1
  <2> QED
    BY <2>1, LenZero, Zenon
<1>3. \A c \in Con : Pend(q, c) = {}
  BY <1>1, JobNames DEF Pend, Rng
<1> QED
  BY <1>1, <1>2, <1>3 DEF Bottom

\* The stack with just a job of the device.
LEMMA DeviceSet ==
    ASSUME NEW n \in DevJobs
    PROVE  LET r == BPending_Set(<<>>, DevJob(n)) IN
           r = <<DevJob(n)>> /\ Good(r) /\ Bottom(r) /\ \A c \in Con : Pend(r, c) = {}
<1>1. BPending_Set(<<>>, DevJob(n)) = <<DevJob(n)>>
  BY DEF BPending_Set
<1>2. Good(<<DevJob(n)>>)
  BY JobNames DEF Good, Distinct
<1> QED
  BY <1>1, <1>2, DeviceNext, JobNames

\* The empty stack.
LEMMA Empty ==
    Good(<<>>) /\ ~Bottom(<<>>) /\ \A c \in Con : Pend(<<>>, c) = {}
BY DEF Good, Bottom, Pend, Distinct, Rng

-----------------------------------------------------------------------------
(* One connection. *)

\* The list r holds what the list q, without repetition, holds.
Same(q, r) == Distinct(r) /\ Rng(r) = Rng(q)

\* A place that is free is no connection.
LEMMA FreedIsNone == Freed \notin Connection
BY DEF Freed, Connection

\* A step of connection c that keeps its invariant keeps the others.
LEMMA Frame ==
    ASSUME RelayInv, NEW c \in live, NEW o \in Connection,
           cons' = [cons EXCEPT ![c] = o], o.local = cons[c].local,
           list' \in Seq(Con), Len(list') = Len(list), Same(list, list'),
           UNCHANGED <<num, fds, dev>>,
           Good(jobs'), Bottom(jobs') <=> Bottom(jobs),
           \A d \in Con : d /= c => Pend(jobs', d) = Pend(jobs, d),
           ConInv(o, Pend(jobs', c)),
           FirstJobInv'
    PROVE  RelayInv'
<1>1. c \in Con /\ cons[c] \in Connection /\ cons \in [Con -> Connection \cup {Freed}]
  BY DEF RelayInv, TypeOK, live
<1>2. /\ cons' \in [Con -> Connection \cup {Freed}] /\ live' = live /\ cons'[c] = o
      /\ \A d \in Con : d /= c => cons'[d] = cons[d]
  BY <1>1, FreedIsNone DEF live
<1>3. TypeOK'
  BY <1>2 DEF RelayInv, TypeOK, Good
<1>4. StackInv'
  BY <1>1, <1>2 DEF RelayInv, StackInv
<1>5. ConsInv'
  <2> SUFFICES ASSUME NEW d \in live PROVE ConInv(cons'[d], Pend(jobs', d))
    BY <1>2 DEF ConsInv
  <2> QED
    BY <1>2 DEF RelayInv, ConsInv, live
<1>6. TableInv'
  BY ZenonT(30), <1>1, <1>2 DEF RelayInv, TableInv, Same, live
<1> QED
  BY <1>3, <1>4, <1>5, <1>6 DEF RelayInv

\* A job that connection_init does not leave runs only when no first packet is
\* waiting.
LEMMA NoFirst ==
    ASSUME RelayInv,
           jobs /= <<>> => Head(jobs).job \notin {"first", "recv", "writer_recv"}
    PROVE  \A c \in live : cons[c].first = <<>>
<1> SUFFICES ASSUME NEW c \in live, cons[c].first /= <<>> PROVE FALSE
  OBVIOUS
<1>1. jobs \in FirstStack(c)
  BY DEF RelayInv, FirstJobInv
<1>2. jobs /= <<>> /\ Head(jobs).job \in {"first", "recv", "writer_recv"}
  BY <1>1, SMTT(30), Z3T(30) DEF FirstStack, ConJob, DevJob
<1> QED
  BY <1>2

\* The same with nobody's first packet waiting.
LEMMA FrameNoFirst ==
    ASSUME RelayInv, NEW c \in live, NEW o \in Connection,
           cons' = [cons EXCEPT ![c] = o], o.local = cons[c].local,
           list' \in Seq(Con), Len(list') = Len(list), Same(list, list'),
           UNCHANGED <<num, fds, dev>>,
           Good(jobs'), Bottom(jobs') <=> Bottom(jobs),
           \A d \in Con : d /= c => Pend(jobs', d) = Pend(jobs, d),
           ConInv(o, Pend(jobs', c)),
           jobs /= <<>> => Head(jobs).job \notin {"first", "recv", "writer_recv"},
           o.first = cons[c].first
    PROVE  RelayInv'
<1>1. \A d \in live : cons[d].first = <<>>
  BY NoFirst
<1>2. cons \in [Con -> Connection \cup {Freed}]
  BY DEF RelayInv, TypeOK
<1>3. FirstJobInv'
  BY <1>1, <1>2, FreedIsNone DEF FirstJobInv, live
<1> QED
  BY <1>3, Frame, Zenon

-----------------------------------------------------------------------------
(* The jobs of a connection. *)

\* The stack r is q but for connection c, whose pending jobs on r are p.
Stack(q, r, c, p) ==
    /\ Good(r) /\ (Bottom(r) <=> Bottom(q))
    /\ Pend(r, c) = p
    /\ \A d \in Con : d /= c => Pend(r, d) = Pend(q, d)

\* Setting a job of connection c.
LEMMA StackSet ==
    ASSUME NEW q, NEW r, NEW c \in Con, NEW p, Stack(q, r, c, p), NEW n \in ConJobs, n \notin p
    PROVE  Stack(q, BPending_Set(r, ConJob(n, c)), c, p \cup {n})
BY Push DEF Stack

\* The job n of connection c is next.
Ready(n, c) == RelayInv /\ c \in live /\ jobs /= <<>> /\ Head(jobs) = ConJob(n, c)

\* It runs.
Runs(n, c) == Ready(n, c) /\ UNCHANGED <<list, num, fds, dev>>

\* What the invariant says of a connection whose job is next.
LEMMA Known ==
    ASSUME NEW n \in ConJobs, NEW c, Ready(n, c)
    PROVE  /\ c \in Con /\ cons[c] \in Connection
           /\ ConInv(cons[c], Pend(jobs, c)) /\ n \in Pend(jobs, c)
           /\ Stack(jobs, Tail(jobs), c, Pend(jobs, c) \ {n})
           /\ cons \in [Con -> Connection \cup {Freed}]
<1>1. RelayInv /\ c \in live /\ jobs /= <<>> /\ Head(jobs) = ConJob(n, c)
  BY DEF Ready
<1>2. /\ c \in Con /\ cons[c] \in Connection /\ ConInv(cons[c], Pend(jobs, c)) /\ Good(jobs)
      /\ cons \in [Con -> Connection \cup {Freed}]
  BY <1>1 DEF RelayInv, TypeOK, live, ConsInv, StackInv
<1> QED
  BY <1>1, <1>2, Pop DEF Stack

\* Nobody's first packet waits.
Quiet(c) ==
    /\ RelayInv /\ c \in live /\ UNCHANGED <<list, num, fds, dev>>
    /\ jobs /= <<>> => Head(jobs).job \notin {"first", "recv", "writer_recv"}

\* A job connection_init does not leave.
LEMMA RunsQuiet ==
    ASSUME NEW n, n \notin {"first", "recv", "writer_recv"}, NEW c, Runs(n, c)
    PROVE  Quiet(c)
BY DEF Runs, Ready, Quiet, ConJob

\* A step of connection c alone, in such a state, that keeps the connection's
\* own invariant.
LEMMA Done ==
    ASSUME NEW c, Quiet(c),
           NEW o \in Connection, cons' = [cons EXCEPT ![c] = o],
           o.local = cons[c].local, o.first = cons[c].first,
           NEW p, Stack(jobs, jobs', c, p), ConInv(o, p)
    PROVE  RelayInv'
<1>1. RelayInv /\ UNCHANGED <<list, num, fds, dev>>
  BY DEF Quiet
<1>2. list' \in Seq(Con) /\ Len(list') = Len(list) /\ Same(list, list')
  BY <1>1, Zenon DEF RelayInv, TypeOK, TableInv, Same
<1> QED
  BY <1>1, <1>2, FrameNoFirst, Zenon DEF Stack, Quiet

\* The empty queue has room.
LEMMA QueueEmpty == Queue(<<>>, BufSize) /\ Queue(<<>>, 1) /\ room(<<>>)
BY RelayAssumption DEF Queue, room

\* PacketBuffer takes what was written.
LEMMA QueueAppend ==
    ASSUME NEW q, Queue(q, BufSize), room(q), NEW w, Queue(w, 1), w /= <<>>
    PROVE  Queue(Append(q, w[1]), BufSize) /\ Append(q, w[1]) /= <<>>
<1>1. q \in Seq(Datagram) /\ w \in Seq(Datagram) /\ Len(q) \in Nat /\ Len(q) < BufSize
  BY DEF Queue, room
<1>2. Len(w) = 1
  <2>1. Len(w) <= 1
    BY DEF Queue
  <2> QED
    BY <1>1, <2>1, LenOne
<1>3. w[1] \in Datagram /\ w[1].right
  BY <1>1, <1>2 DEF Queue
<1>4. /\ Append(q, w[1]) \in Seq(Datagram) /\ Len(Append(q, w[1])) = Len(q) + 1
      /\ Append(q, w[1]) /= <<>>
  BY <1>1, <1>3
<1>5. Len(q) + 1 <= BufSize
  BY <1>1, RelayAssumption
<1>6. \A i \in DOMAIN Append(q, w[1]) : Append(q, w[1])[i].right
  BY <1>1, <1>3 DEF Queue
<1> QED
  BY <1>4, <1>5, <1>6 DEF Queue

\* PacketBuffer gives up what was sent, and has room then.
LEMMA QueueTail ==
    ASSUME NEW q, Queue(q, BufSize), q /= <<>>
    PROVE  Queue(Tail(q), BufSize) /\ room(Tail(q))
<1>1. q \in Seq(Datagram) /\ Len(q) \in Nat /\ Len(q) /= 0 /\ Len(q) <= BufSize
  BY LenZero DEF Queue
<1>2. Tail(q) \in Seq(Datagram) /\ Len(Tail(q)) = Len(q) - 1
  BY <1>1
<1>3. Len(q) - 1 < BufSize /\ Len(q) - 1 <= BufSize
  BY <1>1, RelayAssumption
<1>4. \A i \in DOMAIN Tail(q) : Tail(q)[i].right
  BY <1>1, <1>2 DEF Queue
<1> QED
  BY <1>2, <1>3, <1>4 DEF Queue, room

\* PacketBuffer.c:input_handler_done keeps the invariant: the packet moves on
\* to the buffer, and the send that starts with the first packet is not set
\* twice.
LEMMA WriterDone ==
    ASSUME NEW c, Runs("writer_done", c), writer_done(c)
    PROVE  RelayInv'
<1>1. PICK o, p, b, o2, p1, p2, q :
        /\ o = cons[c] /\ p = Pend(jobs, c)
        /\ b = Append(o.buf, o.written[1])
        /\ o2 = [o EXCEPT !.buf = b, !.written = <<>>]
        /\ p1 = IF room(b) THEN (p \ {"writer_done"}) \cup {"writer_recv"} ELSE p \ {"writer_done"}
        /\ p2 = IF o.buf = <<>> THEN p1 \cup {"send"} ELSE p1
        /\ q = SetJob(Tail(jobs), "writer_recv", c, room(b))
  BY Zenon
<1>2. /\ c \in Con /\ o \in Connection /\ "writer_done" \in p
      /\ SendInv(o, p) /\ RecvInv(o, p) /\ FirstInv(o, p)
      /\ Stack(jobs, Tail(jobs), c, p \ {"writer_done"})
  BY <1>1, Known DEF Runs, ConJobs, ConInv
<1>3. /\ "writer_recv" \notin p /\ (o.buf = <<>> => "send" \notin p1)
      /\ room(o.buf) /\ o.written /= <<>> /\ Queue(o.buf, BufSize) /\ Queue(o.written, 1)
  BY <1>1, <1>2 DEF SendInv
<1>4. Queue(b, BufSize) /\ b /= <<>>
  BY <1>1, <1>3, QueueAppend
<1>5. b \in Seq(Datagram) /\ <<>> \in Seq(Datagram)
  BY <1>4 DEF Queue
<1>6. /\ o2 \in Connection /\ o2.local = o.local /\ o2.first = o.first
      /\ o2.buf = b /\ o2.written = <<>> /\ o2.out_have = o.out_have /\ o2.sending = o.sending
      /\ o2.wait = o.wait /\ o2.failed = o.failed /\ o2.receiving = o.receiving /\ o2.started = o.started
  BY <1>1, <1>2, <1>5, Zenon DEF Connection
<1>7. ConInv(o2, p2)
  <2>1. SendInv(o2, p2)
    BY <1>1, <1>2, <1>3, <1>4, <1>6, QueueEmpty, SMTT(30), Z3T(30) DEF SendInv
  <2>2. RecvInv(o2, p2) /\ FirstInv(o2, p2)
    BY SMTT(30), Z3T(30), <1>1, <1>2, <1>6 DEF RecvInv, FirstInv
  <2> QED
    BY <2>1, <2>2, SMTT(30), Z3T(30) DEF ConInv
<1>8. Stack(jobs, q, c, p1)
  BY ZenonT(30), <1>1, <1>2, <1>3, StackSet DEF SetJob, ConJobs
<1>9. Stack(jobs, jobs', c, p2)
  <2>1. jobs' = IF o.buf = <<>> THEN BPending_Set(q, ConJob("send", c)) ELSE q
    BY <1>1 DEF writer_done, SetJob
  <2> QED
    BY <1>1, <1>2, <1>3, <1>8, <2>1, StackSet, Zenon DEF ConJobs
<1>10. cons' = [cons EXCEPT ![c] = o2]
  BY <1>1, <1>2, Zenon DEF writer_done, Connection
<1> QED
  BY <1>1, <1>6, <1>7, <1>9, <1>10, RunsQuiet, Done, Zenon

\* send_if_handler_send keeps the invariant.
LEMMA Send ==
    ASSUME NEW c, Runs("send", c), send(c)
    PROVE  RelayInv'
<1>1. PICK o, p, o2, p2 :
        /\ o = cons[c] /\ p = Pend(jobs, c)
        /\ o2 = [o EXCEPT !.sending = TRUE]
        /\ p2 = (p \ {"send"}) \cup {"send_job"}
  BY Zenon
<1>2. /\ c \in Con /\ o \in Connection /\ "send" \in p
      /\ SendInv(o, p) /\ RecvInv(o, p) /\ FirstInv(o, p)
      /\ Stack(jobs, Tail(jobs), c, p \ {"send"})
      /\ cons \in [Con -> Connection \cup {Freed}]
  BY <1>1, Known, Zenon DEF Runs, ConJobs, ConInv
<1>3. o2 \in Connection /\ o2.local = o.local /\ o2.first = o.first
  BY ZenonT(30), <1>1, <1>2 DEF Connection
<1>4. "send_job" \notin p
  BY <1>2 DEF SendInv, RecvInv
<1>5. ConInv(o2, p2)
  <2>1. SendInv(o2, p2)
    BY <1>1, <1>2 DEF SendInv, Connection
  <2>2. RecvInv(o2, p2) /\ FirstInv(o2, p2)
    BY <1>1, <1>2, SMTT(30), Z3T(30) DEF RecvInv, FirstInv, Connection
  <2> QED
    BY <2>1, <2>2 DEF ConInv
<1>6. Stack(jobs, jobs', c, p2)
  <2>1. jobs' = BPending_Set(Tail(jobs), ConJob("send_job", c))
    BY DEF send
  <2> QED
    BY <1>1, <1>2, <1>4, <2>1, StackSet, Zenon DEF ConJobs
<1>7. cons' = [cons EXCEPT ![c] = o2]
  BY <1>1, <1>2 DEF send
<1> QED
  BY <1>1, <1>3, <1>5, <1>6, <1>7, RunsQuiet, Done, Zenon

\* SinglePacketBuffer.c:input_handler_done keeps it.
LEMMA RecvDone ==
    ASSUME NEW c, Runs("recv_done", c), recv_done(c)
    PROVE  RelayInv'
<1>1. PICK o, p, o2, p2 :
        /\ o = cons[c] /\ p = Pend(jobs, c)
        /\ o2 = o
        /\ p2 = (p \ {"recv_done"}) \cup {"rx"}
  BY Zenon
<1>2. /\ c \in Con /\ o \in Connection /\ "recv_done" \in p
      /\ SendInv(o, p) /\ RecvInv(o, p) /\ FirstInv(o, p)
      /\ Stack(jobs, Tail(jobs), c, p \ {"recv_done"})
      /\ cons \in [Con -> Connection \cup {Freed}]
  BY <1>1, Known, Zenon DEF Runs, ConJobs, ConInv
<1>3. o2 \in Connection /\ o2.local = o.local /\ o2.first = o.first
  BY <1>1, <1>2 DEF Connection
<1>4. "rx" \notin p
  BY <1>2 DEF SendInv, RecvInv
<1>5. ConInv(o2, p2)
  <2>1. SendInv(o2, p2)
    BY <1>1, <1>2 DEF SendInv, Connection
  <2>2. RecvInv(o2, p2) /\ FirstInv(o2, p2)
    BY SMTT(30), Z3T(30), <1>1, <1>2 DEF RecvInv, FirstInv, Connection
  <2> QED
    BY <2>1, <2>2 DEF ConInv
<1>6. Stack(jobs, jobs', c, p2)
  <2>1. jobs' = BPending_Set(Tail(jobs), ConJob("rx", c))
    BY DEF recv_done
  <2> QED
    BY <1>1, <1>2, <1>4, <2>1, StackSet, Zenon DEF ConJobs
<1>7. cons' = [cons EXCEPT ![c] = o2]
  BY <1>1, <1>2 DEF recv_done
<1> QED
  BY <1>1, <1>3, <1>5, <1>6, <1>7, RunsQuiet, Done, Zenon

\* dgram_handler_received keeps it.
LEMMA Received ==
    ASSUME NEW c, Runs("rx", c), NEW r \in Remotes, dgram_handler_received(c, r)
    PROVE  RelayInv'
<1>1. PICK o, p, o2, p2 :
        /\ o = cons[c] /\ p = Pend(jobs, c)
        /\ o2 = [o EXCEPT !.remote = r]
        /\ p2 = (p \ {"rx"}) \cup {"rx_done"}
  BY Zenon
<1>2. /\ c \in Con /\ o \in Connection /\ "rx" \in p
      /\ SendInv(o, p) /\ RecvInv(o, p) /\ FirstInv(o, p)
      /\ Stack(jobs, Tail(jobs), c, p \ {"rx"})
      /\ cons \in [Con -> Connection \cup {Freed}]
  BY <1>1, Known, Zenon DEF Runs, ConJobs, ConInv
<1>3. o2 \in Connection /\ o2.local = o.local /\ o2.first = o.first
  BY <1>1, <1>2, Zenon DEF Connection
<1>4. "rx_done" \notin p
  BY <1>2 DEF SendInv, RecvInv
<1>5. ConInv(o2, p2)
  <2>1. SendInv(o2, p2)
    BY <1>1, <1>2 DEF SendInv, Connection
  <2>2. RecvInv(o2, p2) /\ FirstInv(o2, p2)
    BY SMTT(30), Z3T(30), <1>1, <1>2 DEF RecvInv, FirstInv, Connection
  <2> QED
    BY <2>1, <2>2 DEF ConInv
<1>6. Stack(jobs, jobs', c, p2)
  <2>1. jobs' = BPending_Set(Tail(jobs), ConJob("rx_done", c))
    BY DEF dgram_handler_received
  <2> QED
    BY <1>1, <1>2, <1>4, <2>1, StackSet, Zenon DEF ConJobs
<1>7. cons' = [cons EXCEPT ![c] = o2]
  BY <1>1, <1>2 DEF dgram_handler_received
<1> QED
  BY <1>1, <1>3, <1>5, <1>6, <1>7, RunsQuiet, Done, Zenon

\* SinglePacketBuffer.c:output_handler_done keeps it.
LEMMA RxDone ==
    ASSUME NEW c, Runs("rx_done", c), rx_done(c)
    PROVE  RelayInv'
<1>1. PICK o, p, o2, p2 :
        /\ o = cons[c] /\ p = Pend(jobs, c)
        /\ o2 = o
        /\ p2 = (p \ {"rx_done"}) \cup {"recv"}
  BY Zenon
<1>2. /\ c \in Con /\ o \in Connection /\ "rx_done" \in p
      /\ SendInv(o, p) /\ RecvInv(o, p) /\ FirstInv(o, p)
      /\ Stack(jobs, Tail(jobs), c, p \ {"rx_done"})
      /\ cons \in [Con -> Connection \cup {Freed}]
  BY <1>1, Known, Zenon DEF Runs, ConJobs, ConInv
<1>3. o2 \in Connection /\ o2.local = o.local /\ o2.first = o.first
  BY <1>1, <1>2, SMTT(30), Z3T(30) DEF Connection
<1>4. "recv" \notin p
  BY <1>2 DEF SendInv, RecvInv
<1>5. ConInv(o2, p2)
  <2>1. SendInv(o2, p2)
    BY <1>1, <1>2, SMTT(30), Z3T(30) DEF SendInv, Connection
  <2>2. RecvInv(o2, p2) /\ FirstInv(o2, p2)
    BY SMTT(30), Z3T(30), <1>1, <1>2 DEF RecvInv, FirstInv, Connection
  <2> QED
    BY <2>1, <2>2, SMTT(30), Z3T(30) DEF ConInv
<1>6. Stack(jobs, jobs', c, p2)
  <2>1. jobs' = BPending_Set(Tail(jobs), ConJob("recv", c))
    BY DEF rx_done
  <2> QED
    BY <1>1, <1>2, <1>4, <2>1, StackSet, Zenon DEF ConJobs
<1>7. cons' = [cons EXCEPT ![c] = o2]
  BY <1>1, <1>2 DEF rx_done
<1> QED
  BY <1>1, <1>3, <1>5, <1>6, <1>7, RunsQuiet, Done, Zenon

\* PacketBuffer.c:output_handler_done keeps it: a buffer that was full asks
\* for the next packet, one that holds more sends on.
LEMMA SendDone ==
    ASSUME NEW c, Runs("send_done", c), send_done(c)
    PROVE  RelayInv'
<1>1. PICK o, p, b, o2, p1, p2, q :
        /\ o = cons[c] /\ p = Pend(jobs, c)
        /\ b = Tail(o.buf)
        /\ o2 = [o EXCEPT !.buf = b]
        /\ p1 = IF ~room(o.buf) THEN (p \ {"send_done"}) \cup {"writer_recv"} ELSE p \ {"send_done"}
        /\ p2 = IF b /= <<>> THEN p1 \cup {"send"} ELSE p1
        /\ q = SetJob(Tail(jobs), "writer_recv", c, ~room(o.buf))
  BY Zenon
<1>2. /\ c \in Con /\ o \in Connection /\ "send_done" \in p
      /\ SendInv(o, p) /\ RecvInv(o, p) /\ FirstInv(o, p)
      /\ Stack(jobs, Tail(jobs), c, p \ {"send_done"})
      /\ cons \in [Con -> Connection \cup {Freed}]
  BY <1>1, Known, Zenon DEF Runs, ConJobs, ConInv
<1>3. /\ ~room(o.buf) => "writer_recv" \notin p
      /\ "send" \notin p1 /\ o.buf /= <<>> /\ Queue(o.buf, BufSize)
  BY <1>1, <1>2 DEF SendInv
<1>4. Queue(b, BufSize) /\ room(b)
  BY <1>1, <1>3, QueueTail
<1>5. b \in Seq(Datagram)
  BY <1>4 DEF Queue
<1>6. /\ o2 \in Connection /\ o2.local = o.local /\ o2.first = o.first
      /\ o2.buf = b /\ o2.written = o.written /\ o2.out_have = o.out_have /\ o2.sending = o.sending
      /\ o2.wait = o.wait /\ o2.failed = o.failed /\ o2.receiving = o.receiving /\ o2.started = o.started
  BY <1>1, <1>2, <1>5, Zenon DEF Connection
<1>7. ConInv(o2, p2)
  <2>1. SendInv(o2, p2)
    BY <1>1, <1>2, <1>3, <1>4, <1>6, SMTT(30), Z3T(30) DEF SendInv
  <2>2. RecvInv(o2, p2) /\ FirstInv(o2, p2)
    BY SMTT(30), Z3T(30), <1>1, <1>2, <1>6 DEF RecvInv, FirstInv
  <2> QED
    BY <2>1, <2>2 DEF ConInv
<1>8. Stack(jobs, q, c, p1)
  BY ZenonT(30), <1>1, <1>2, <1>3, StackSet DEF SetJob, ConJobs
<1>9. Stack(jobs, jobs', c, p2)
  <2>1. jobs' = IF b /= <<>> THEN BPending_Set(q, ConJob("send", c)) ELSE q
    BY <1>1 DEF send_done, SetJob
  <2> QED
    BY <1>1, <1>2, <1>3, <1>8, <2>1, StackSet, Zenon DEF ConJobs
<1>10. cons' = [cons EXCEPT ![c] = o2]
  BY <1>1, <1>2 DEF send_done
<1> QED
  BY <1>1, <1>6, <1>7, <1>9, <1>10, RunsQuiet, Done, Zenon

\* do_send, called with wait_events w and the stack q, on which p is pending.
LEMMA DoSend ==
    ASSUME NEW c, Quiet(c), NEW q, NEW p, Stack(jobs, q, c, p),
           NEW w \in SUBSET {"read", "write"}, NEW out \in Outcome,
           NEW o, o = [cons[c] EXCEPT !.wait = w],
           SendInv([o EXCEPT !.failed = TRUE], p), RecvInv(o, p), FirstInv(o, p),
           o.sending, "send_job" \notin p, out = "error" \/ "write" \notin w,
           do_send(c, w, q, out)
    PROVE  RelayInv'
<1>1. /\ c \in Con /\ cons[c] \in Connection /\ cons \in [Con -> Connection \cup {Freed}]
      /\ o \in Connection
  <2>1. /\ c \in Con /\ cons[c] \in Connection
        /\ cons \in [Con -> Connection \cup {Freed}]
    BY DEF Quiet, RelayInv, TypeOK, live
  <2> QED
    BY <2>1, Zenon DEF Connection
<1>2. CASE out = "again"
  <2>0. PICK o2 : o2 = [cons[c] EXCEPT !.wait = w \cup {"write"}]
    BY Zenon
  <2>1. o2 = [o EXCEPT !.wait = w \cup {"write"}]
    BY <1>1, <2>0, Zenon DEF Connection
  <2>2. jobs' = q /\ cons' = [cons EXCEPT ![c] = o2]
    BY <1>1, <1>2, <2>0 DEF do_send
  <2>3. o2 \in Connection /\ o2.local = cons[c].local /\ o2.first = cons[c].first
    BY <1>1, <2>1, Zenon DEF Connection
  <2>4. SendInv(o2, p)
    BY <1>1, <2>1 DEF SendInv, Connection
  <2>5. RecvInv(o2, p) /\ FirstInv(o2, p)
    BY <1>1, <2>1, SMTT(30), Z3T(30) DEF RecvInv, FirstInv, Connection
  <2> QED
    BY <2>2, <2>3, <2>4, <2>5, Done, Zenon DEF ConInv
<1>3. CASE out = "error"
  <2>1. PICK o2 : o2 = [o EXCEPT !.failed = TRUE]
    OBVIOUS
  <2>2. jobs' = q /\ cons' = [cons EXCEPT ![c] = o2]
    BY <1>1, <1>3, <2>1, Zenon DEF do_send, Connection
  <2>3. o2 \in Connection /\ o2.local = cons[c].local /\ o2.first = cons[c].first
    BY <1>1, <2>1, Zenon DEF Connection
  <2>4. SendInv(o2, p)
    BY <2>1
  <2>5. RecvInv(o2, p) /\ FirstInv(o2, p)
    BY <1>1, <2>1 DEF RecvInv, FirstInv, Connection
  <2> QED
    BY <2>2, <2>3, <2>4, <2>5, Done, Zenon DEF ConInv
<1>4. CASE out = "done"
  <2>1. PICK o2, p1, p2, r :
          /\ o2 = [o EXCEPT !.started = TRUE, !.sending = FALSE]
          /\ r = SetJob(q, "recv_job", c, ~cons[c].started /\ cons[c].receiving)
          /\ p1 = IF ~cons[c].started /\ cons[c].receiving THEN p \cup {"recv_job"} ELSE p
          /\ p2 = p1 \cup {"send_done"}
    BY Zenon
  <2>2. jobs' = BPending_Set(r, ConJob("send_done", c)) /\ cons' = [cons EXCEPT ![c] = o2]
    BY <1>1, <1>4, <2>1, Zenon DEF do_send, Connection
  <2>3. o2 \in Connection /\ o2.local = cons[c].local /\ o2.first = cons[c].first
    BY ZenonT(30), <1>1, <2>1 DEF Connection
  <2>4. /\ ~cons[c].started => "recv_job" \notin p
        /\ "send_done" \notin p1
    BY <1>1, <2>1, SMTT(30), Z3T(30) DEF SendInv, RecvInv, Connection
  <2>5. Stack(jobs, r, c, p1)
    BY <1>1, <2>1, <2>4, StackSet, ZenonT(30) DEF SetJob, ConJobs
  <2>6. Stack(jobs, jobs', c, p2)
    BY <1>1, <2>1, <2>2, <2>4, <2>5, StackSet, Zenon DEF ConJobs
  <2>7. SendInv(o2, p2)
    BY <1>1, <1>4, <2>1 DEF SendInv, Connection
  <2>8. RecvInv(o2, p2) /\ FirstInv(o2, p2)
    BY <1>1, <2>1 DEF RecvInv, FirstInv, Connection
  <2> QED
    BY <2>2, <2>3, <2>6, <2>7, <2>8, Done, Zenon DEF ConInv
<1> QED
  BY <1>2, <1>3, <1>4 DEF Outcome

\* do_recv, in the same way.
LEMMA DoRecv ==
    ASSUME NEW c, Quiet(c), NEW q, NEW p, Stack(jobs, q, c, p),
           NEW w \in SUBSET {"read", "write"}, NEW out \in Outcome,
           NEW o, o = [cons[c] EXCEPT !.wait = w],
           SendInv(o, p), RecvInv([o EXCEPT !.failed = TRUE], p), FirstInv(o, p),
           o.receiving, o.started, "recv_job" \notin p,
           do_recv(c, w, q, out)
    PROVE  RelayInv'
<1>1. /\ c \in Con /\ cons[c] \in Connection /\ cons \in [Con -> Connection \cup {Freed}]
      /\ o \in Connection
  <2>1. /\ c \in Con /\ cons[c] \in Connection
        /\ cons \in [Con -> Connection \cup {Freed}]
    BY DEF Quiet, RelayInv, TypeOK, live
  <2> QED
    BY <2>1, Zenon DEF Connection
<1>2. CASE out = "again"
  <2>0. PICK o2 : o2 = [cons[c] EXCEPT !.wait = w \cup {"read"}]
    BY Zenon
  <2>1. o2 = [o EXCEPT !.wait = w \cup {"read"}]
    BY <1>1, <2>0, Zenon DEF Connection
  <2>2. jobs' = q /\ cons' = [cons EXCEPT ![c] = o2]
    BY <1>1, <1>2, <2>0 DEF do_recv
  <2>3. o2 \in Connection /\ o2.local = cons[c].local /\ o2.first = cons[c].first
    BY <1>1, <2>1, Zenon DEF Connection
  <2>4. SendInv(o2, p)
    BY <1>1, <2>1 DEF SendInv, Connection
  <2>5. RecvInv(o2, p) /\ FirstInv(o2, p)
    BY <1>1, <2>1, SMTT(30), Z3T(30) DEF RecvInv, FirstInv, Connection
  <2> QED
    BY <2>2, <2>3, <2>4, <2>5, Done, Zenon DEF ConInv
<1>3. CASE out = "error"
  <2>1. PICK o2 : o2 = [o EXCEPT !.failed = TRUE]
    OBVIOUS
  <2>2. jobs' = q /\ cons' = [cons EXCEPT ![c] = o2]
    BY <1>1, <1>3, <2>1, Zenon DEF do_recv, Connection
  <2>3. o2 \in Connection /\ o2.local = cons[c].local /\ o2.first = cons[c].first
    BY <1>1, <2>1, Zenon DEF Connection
  <2>4. SendInv(o2, p)
    BY <1>1, <2>1 DEF SendInv, Connection
  <2>5. RecvInv(o2, p) /\ FirstInv(o2, p)
    BY <1>1, <2>1 DEF FirstInv, Connection
  <2> QED
    BY <2>2, <2>3, <2>4, <2>5, Done, Zenon DEF ConInv
<1>4. CASE out = "done"
  <2>1. PICK o2, p2 :
          /\ o2 = [o EXCEPT !.receiving = FALSE]
          /\ p2 = p \cup {"recv_done"}
    BY Zenon
  <2>2. jobs' = BPending_Set(q, ConJob("recv_done", c)) /\ cons' = [cons EXCEPT ![c] = o2]
    BY <1>1, <1>4, <2>1 DEF do_recv, Connection
  <2>3. o2 \in Connection /\ o2.local = cons[c].local /\ o2.first = cons[c].first
    BY <1>1, <2>1, Zenon DEF Connection
  <2>4. "recv_done" \notin p
    BY <1>1 DEF RecvInv, Connection
  <2>5. Stack(jobs, jobs', c, p2)
    BY <1>1, <2>1, <2>2, <2>4, StackSet, Zenon DEF ConJobs
  <2>6. SendInv(o2, p2)
    BY <1>1, <2>1 DEF SendInv, Connection
  <2>7. RecvInv(o2, p2) /\ FirstInv(o2, p2)
    BY <1>1, <2>1 DEF RecvInv, FirstInv, Connection
  <2> QED
    BY <2>2, <2>3, <2>5, <2>6, <2>7, Done, Zenon DEF ConInv
<1> QED
  BY <1>2, <1>3, <1>4 DEF Outcome

\* send_job_handler keeps it.
LEMMA SendJob ==
    ASSUME NEW c, Runs("send_job", c), NEW out \in Outcome,
           do_send(c, cons[c].wait, Tail(jobs), out)
    PROVE  RelayInv'
<1>1. PICK o, p, p0, w : /\ o = [cons[c] EXCEPT !.wait = w] /\ w = cons[c].wait
                         /\ p = Pend(jobs, c) /\ p0 = p \ {"send_job"}
  BY Zenon
<1>2. /\ c \in Con /\ cons[c] \in Connection /\ "send_job" \in p
      /\ SendInv(cons[c], p) /\ RecvInv(cons[c], p) /\ FirstInv(cons[c], p)
      /\ Stack(jobs, Tail(jobs), c, p0)
  BY <1>1, Known, Zenon DEF Runs, ConJobs, ConInv
<1>3. o = cons[c] /\ w \in SUBSET {"read", "write"}
  BY <1>1, <1>2 DEF Connection
<1>4. SendInv([o EXCEPT !.failed = TRUE], p0) /\ o.sending /\ "write" \notin w
  BY <1>1, <1>2, <1>3 DEF SendInv, Connection
<1>5. RecvInv(o, p0) /\ FirstInv(o, p0) /\ "send_job" \notin p0
  BY <1>1, <1>2, <1>3 DEF RecvInv, FirstInv
<1>6. Quiet(c)
  BY RunsQuiet
<1> QED
  BY <1>1, <1>2, <1>3, <1>4, <1>5, <1>6, DoSend, Zenon

\* recv_job_handler keeps it.
LEMMA RecvJob ==
    ASSUME NEW c, Runs("recv_job", c), NEW out \in Outcome,
           do_recv(c, cons[c].wait, Tail(jobs), out)
    PROVE  RelayInv'
<1>1. PICK o, p, p0, w : /\ o = [cons[c] EXCEPT !.wait = w] /\ w = cons[c].wait
                         /\ p = Pend(jobs, c) /\ p0 = p \ {"recv_job"}
  BY Zenon
<1>2. /\ c \in Con /\ cons[c] \in Connection /\ "recv_job" \in p
      /\ SendInv(cons[c], p) /\ RecvInv(cons[c], p) /\ FirstInv(cons[c], p)
      /\ Stack(jobs, Tail(jobs), c, p0)
  BY <1>1, Known DEF Runs, ConJobs, ConInv
<1>3. o = cons[c] /\ w \in SUBSET {"read", "write"}
  BY <1>1, <1>2 DEF Connection
<1>4. RecvInv([o EXCEPT !.failed = TRUE], p0) /\ o.receiving /\ o.started
  BY <1>1, <1>2, <1>3 DEF RecvInv, Connection
<1>5. SendInv(o, p0) /\ FirstInv(o, p0) /\ "recv_job" \notin p0
  BY <1>1, <1>2, <1>3 DEF SendInv, FirstInv
<1>6. Quiet(c)
  BY RunsQuiet
<1> QED
  BY <1>1, <1>2, <1>3, <1>4, <1>5, <1>6, DoRecv, Zenon

\* An event on a socket, when nothing is pending.
LEMMA Event ==
    ASSUME RelayInv, jobs = <<>>, NEW c \in live, NEW out \in Outcome,
           NEW events \in SUBSET (cons[c].wait \cup {"error"}), events /= {},
           fd_handler(c, events, out), UNCHANGED <<list, num, fds, dev>>
    PROVE  RelayInv'
<1>1. PICK o, w, o1, have_send, have_recv :
        /\ o = cons[c] /\ w = o.wait \ events
        /\ o1 = [o EXCEPT !.wait = w]
        /\ have_send = ("write" \in events \/ ("error" \in events /\ o.sending))
        /\ have_recv = ("read" \in events \/ ("error" \in events /\ o.receiving /\ o.started))
  BY Zenon
<1>2. /\ c \in Con /\ o \in Connection /\ cons \in [Con -> Connection \cup {Freed}]
      /\ ConInv(o, Pend(jobs, c)) /\ Good(jobs)
  BY <1>1 DEF RelayInv, TypeOK, live, ConsInv, StackInv
<1>3. Stack(jobs, jobs, c, {})
  BY <1>2, Empty DEF Stack
<1>4. SendInv(o, {}) /\ RecvInv(o, {}) /\ FirstInv(o, {})
  BY <1>2, <1>3, Zenon DEF Stack, ConInv
<1>5. Quiet(c)
  BY DEF Quiet
<1>6. w \in SUBSET {"read", "write"} /\ o1 \in Connection /\ o1.first = o.first
  BY <1>1, <1>2, Zenon DEF Connection
<1>7. "error" \in events => out = "error"
  BY DEF fd_handler
<1>8. CASE "write" \in events \/ ("error" \in events /\ o.sending)
  <2>1. PICK p, q :
          /\ p = IF have_recv THEN {"recv_job"} ELSE {}
          /\ q = IF have_recv THEN BPending_Set(jobs, ConJob("recv_job", c)) ELSE jobs
    BY Zenon
  <2>2. do_send(c, w, q, out)
    BY <1>1, <1>8, <2>1, Zenon DEF fd_handler, SetJob
  <2>3. Stack(jobs, q, c, p)
    <3>1. Stack(jobs, BPending_Set(jobs, ConJob("recv_job", c)), c, {} \cup {"recv_job"})
      BY <1>2, <1>3, StackSet, Zenon DEF ConJobs
    <3> QED
      BY SMTT(30), Z3T(30), <1>3, <2>1, <3>1
  <2>4. o.sending /\ o1.sending
    BY <1>1, <1>2, <1>4, <1>8 DEF SendInv, Connection
  <2>5. out = "error" \/ "write" \notin w
    BY <1>1, <1>7, <1>8
  <2>6. SendInv([o1 EXCEPT !.failed = TRUE], p) /\ "send_job" \notin p
    BY <1>1, <1>2, <1>4, <2>1, <2>4, SMTT(30), Z3T(30) DEF SendInv, Connection
  <2>7. RecvInv(o1, p)
    BY <1>1, <1>2, <1>4, <2>1 DEF RecvInv, Connection
  <2>8. FirstInv(o1, p)
    BY <1>1, <1>4, <1>6, <2>1 DEF FirstInv
  <2> QED
    BY <1>1, <1>5, <1>6, <2>2, <2>3, <2>4, <2>5, <2>6, <2>7, <2>8, DoSend, Zenon
<1>9. CASE /\ ~("write" \in events \/ ("error" \in events /\ o.sending))
           /\ "read" \in events \/ ("error" \in events /\ o.receiving /\ o.started)
  <2>1. do_recv(c, w, jobs, out)
    BY <1>1, <1>9 DEF fd_handler
  <2>2. o1.receiving /\ o1.started
    BY <1>1, <1>2, <1>4, <1>9 DEF RecvInv, Connection
  <2>3. RecvInv([o1 EXCEPT !.failed = TRUE], {})
    BY <1>1, <1>2, <1>4, <2>2 DEF RecvInv, Connection
  <2>4. SendInv(o1, {})
    BY <1>1, <1>2, <1>4, <1>9 DEF SendInv, Connection
  <2>5. FirstInv(o1, {})
    BY <1>4, <1>6 DEF FirstInv
  <2> QED
    BY <1>1, <1>3, <1>5, <1>6, <2>1, <2>2, <2>3, <2>4, <2>5, DoRecv, Zenon
<1>10. CASE /\ ~("write" \in events \/ ("error" \in events /\ o.sending))
            /\ ~("read" \in events \/ ("error" \in events /\ o.receiving /\ o.started))
  <2>1. PICK o2 : o2 = [o EXCEPT !.wait = w, !.failed = TRUE]
    OBVIOUS
  <2>2. jobs' = jobs /\ cons' = [cons EXCEPT ![c] = o2]
    BY ZenonT(30), <1>1, <1>2, <1>10, <2>1 DEF fd_handler, Connection
  <2>3. o2 \in Connection /\ o2.local = o.local /\ o2.first = o.first
    BY <1>2, <1>6, <2>1, Zenon DEF Connection
  <2>4. SendInv(o2, {})
    BY <1>1, <1>2, <1>4, <1>10, <2>1, SMTT(30), Z3T(30) DEF SendInv, Connection
  <2>5. RecvInv(o2, {}) /\ FirstInv(o2, {})
    BY SMTT(30), Z3T(30), <1>1, <1>2, <1>4, <1>10, <2>1 DEF RecvInv, FirstInv, Connection
  <2> QED
    BY <1>1, <1>3, <1>5, <2>2, <2>3, <2>4, <2>5, Done, Zenon DEF ConInv
<1> QED
  BY <1>8, <1>9, <1>10

-----------------------------------------------------------------------------
(* The jobs that connection_init leaves. *)

\* While the first packet of a connection waits, only jobs of that connection
\* run.
LEMMA FrameFirst ==
    ASSUME NEW n, NEW c, Runs(n, c),
           NEW o \in Connection, cons' = [cons EXCEPT ![c] = o], o.local = cons[c].local,
           NEW p, Stack(jobs, jobs', c, p), ConInv(o, p),
           o.first /= <<>> => /\ jobs' \in FirstStack(c)
                              /\ ~o.started /\ o.buf = <<>>
                              /\ o.first[1].data = dev.data
                              /\ o.first[1].remote = o.remote
                              /\ o.first[1].is_dns = o.is_dns
    PROVE  RelayInv'
<1>1. /\ RelayInv /\ c \in live /\ UNCHANGED <<list, num, fds, dev>> /\ Head(jobs) = ConJob(n, c)
      /\ cons \in [Con -> Connection \cup {Freed}]
  BY DEF Runs, Ready, RelayInv, TypeOK
<1>2. ASSUME NEW d \in live, d /= c, cons[d].first /= <<>> PROVE FALSE
  <2>1. jobs \in FirstStack(d)
    BY <1>1, <1>2 DEF RelayInv, FirstJobInv
  <2>2. Head(jobs).con = d
    BY <2>1 DEF FirstStack, ConJob, DevJob
  <2> QED
    BY <1>1, <1>2, <2>2, SMTT(30), Z3T(30) DEF ConJob
<1>3. FirstJobInv'
  <2> SUFFICES ASSUME NEW d \in live', cons'[d].first /= <<>>
               PROVE  /\ jobs' \in FirstStack(d)
                      /\ ~cons'[d].started /\ cons'[d].buf = <<>>
                      /\ cons'[d].first[1].data = dev'.data
                      /\ cons'[d].first[1].remote = cons'[d].remote
                      /\ cons'[d].first[1].is_dns = cons'[d].is_dns
    BY DEF FirstJobInv, FirstStack
  <2>1. d = c
    BY <1>1, <1>2 DEF live
  <2>2. cons'[d] = o /\ dev' = dev
    BY <1>1, <2>1 DEF live
  <2> QED
    BY <2>1, <2>2, SMTT(30), Z3T(30)
<1>4. list' \in Seq(Con) /\ Len(list') = Len(list) /\ Same(list, list')
  BY <1>1, Zenon DEF RelayInv, TypeOK, TableInv, Same
<1> QED
  BY <1>1, <1>3, <1>4, Frame, Zenon DEF Stack

\* Which of the jobs above first_job is next, and what is left without it.
LEMMA FirstStackTail ==
    ASSUME NEW c, NEW q \in FirstStack(c)
    PROVE  \/ /\ Head(q) = ConJob("first", c) /\ Tail(q) = <<DevJob("dev_done")>>
              /\ q = <<ConJob("first", c), DevJob("dev_done")>>
           \/ Head(q) = ConJob("writer_recv", c) /\ Tail(q) \in FirstStack(c)
           \/ Head(q) = ConJob("recv", c) /\ Tail(q) \in FirstStack(c)
<1>1. PICK j1, j2, j3, j4 : /\ j1 = ConJob("recv", c) /\ j2 = ConJob("writer_recv", c)
                            /\ j3 = ConJob("first", c) /\ j4 = DevJob("dev_done")
  OBVIOUS
<1>3. FirstStack(c) = {<<j3, j4>>, <<j2, j3, j4>>, <<j1, j2, j3, j4>>}
  BY <1>1 DEF FirstStack
<1>4. /\ Tail(<<j3, j4>>) = <<j4>> /\ Tail(<<j2, j3, j4>>) = <<j3, j4>>
      /\ Tail(<<j1, j2, j3, j4>>) = <<j2, j3, j4>>
      /\ Head(<<j3, j4>>) = j3 /\ Head(<<j2, j3, j4>>) = j2 /\ Head(<<j1, j2, j3, j4>>) = j1
  OBVIOUS
<1> QED
  BY <1>1, <1>3, <1>4, Zenon

\* recv_if_handler_recv keeps it, also as the first of the jobs
\* connection_init leaves.
LEMMA Recv ==
    ASSUME NEW c, Runs("recv", c), recv(c)
    PROVE  RelayInv'
<1>1. PICK o, p, o2, p2 :
        /\ o = cons[c] /\ p = Pend(jobs, c)
        /\ o2 = [o EXCEPT !.receiving = TRUE]
        /\ p2 = IF o.started THEN (p \ {"recv"}) \cup {"recv_job"} ELSE p \ {"recv"}
  BY Zenon
<1>2. /\ c \in Con /\ o \in Connection /\ "recv" \in p
      /\ SendInv(o, p) /\ RecvInv(o, p) /\ FirstInv(o, p)
      /\ Stack(jobs, Tail(jobs), c, p \ {"recv"})
      /\ cons \in [Con -> Connection \cup {Freed}]
  BY SMTT(30), Z3T(30), <1>1, Known DEF Runs, ConJobs, ConInv
<1>3. o2 \in Connection /\ o2.local = o.local /\ o2.first = o.first
  BY <1>1, <1>2, ZenonT(30) DEF Connection
<1>4. "recv_job" \notin p
  BY <1>2 DEF RecvInv
<1>5. ConInv(o2, p2)
  <2>1. SendInv(o2, p2)
    BY <1>1, <1>2 DEF SendInv, Connection
  <2>2. RecvInv(o2, p2) /\ FirstInv(o2, p2)
    BY <1>1, <1>2 DEF RecvInv, FirstInv, Connection
  <2> QED
    BY <2>1, <2>2 DEF ConInv
<1>6. jobs' = IF o.started THEN BPending_Set(Tail(jobs), ConJob("recv_job", c)) ELSE Tail(jobs)
  BY SMTT(30), Z3T(30), <1>1 DEF recv, SetJob
<1>7. Stack(jobs, jobs', c, p2)
  BY <1>1, <1>2, <1>4, <1>6, StackSet, Zenon DEF ConJobs
<1>8. cons' = [cons EXCEPT ![c] = o2]
  BY <1>1, <1>2 DEF recv
<1>9. ASSUME o2.first /= <<>>
      PROVE  /\ jobs' \in FirstStack(c)
             /\ ~o2.started /\ o2.buf = <<>>
             /\ o2.first[1].data = dev.data
             /\ o2.first[1].remote = o2.remote
             /\ o2.first[1].is_dns = o2.is_dns
  <2>1. /\ jobs \in FirstStack(c) /\ Head(jobs) = ConJob("recv", c)
        /\ ~o.started /\ o.buf = <<>> /\ o.first[1].data = dev.data
        /\ o.first[1].remote = o.remote /\ o.first[1].is_dns = o.is_dns
    BY <1>1, <1>3, <1>9 DEF Runs, Ready, RelayInv, FirstJobInv
  <2>2. Tail(jobs) \in FirstStack(c)
    BY <2>1, FirstStackTail DEF ConJob
  <2> QED
    BY <1>1, <1>2, <1>6, <2>1, <2>2, SMTT(30), Z3T(30) DEF Connection
<1> QED
  BY <1>1, <1>3, <1>5, <1>7, <1>8, <1>9, FrameFirst, Zenon

\* BufferWriter.c:output_handler_recv keeps it, also as the second of them.
LEMMA WriterRecv ==
    ASSUME NEW c, Runs("writer_recv", c), writer_recv(c)
    PROVE  RelayInv'
<1>1. PICK o, p, o2, p2 :
        /\ o = cons[c] /\ p = Pend(jobs, c)
        /\ o2 = [o EXCEPT !.out_have = TRUE]
        /\ p2 = p \ {"writer_recv"}
  BY Zenon
<1>2. /\ c \in Con /\ o \in Connection /\ "writer_recv" \in p
      /\ SendInv(o, p) /\ RecvInv(o, p) /\ FirstInv(o, p)
      /\ Stack(jobs, Tail(jobs), c, p2)
      /\ cons \in [Con -> Connection \cup {Freed}]
  BY <1>1, Known, Zenon DEF Runs, ConJobs, ConInv
<1>3. o2 \in Connection /\ o2.local = o.local /\ o2.first = o.first
  BY <1>1, <1>2, Zenon DEF Connection
<1>4. ConInv(o2, p2)
  <2>1. SendInv(o2, p2)
    BY <1>1, <1>2 DEF SendInv, Connection
  <2>2. RecvInv(o2, p2) /\ FirstInv(o2, p2)
    BY <1>1, <1>2 DEF RecvInv, FirstInv, Connection
  <2> QED
    BY <2>1, <2>2 DEF ConInv
<1>5. jobs' = Tail(jobs) /\ cons' = [cons EXCEPT ![c] = o2]
  BY <1>1, <1>2 DEF writer_recv
<1>6. ASSUME o2.first /= <<>>
      PROVE  /\ jobs' \in FirstStack(c)
             /\ ~o2.started /\ o2.buf = <<>>
             /\ o2.first[1].data = dev.data
             /\ o2.first[1].remote = o2.remote
             /\ o2.first[1].is_dns = o2.is_dns
  <2>1. /\ jobs \in FirstStack(c) /\ Head(jobs) = ConJob("writer_recv", c)
        /\ ~o.started /\ o.buf = <<>> /\ o.first[1].data = dev.data
        /\ o.first[1].remote = o.remote /\ o.first[1].is_dns = o.is_dns
    BY <1>1, <1>3, <1>6 DEF Runs, Ready, RelayInv, FirstJobInv
  <2>2. Tail(jobs) \in FirstStack(c)
    BY <2>1, FirstStackTail DEF ConJob
  <2> QED
    BY <1>1, <1>2, <1>5, <2>1, <2>2, SMTT(30), Z3T(30) DEF Connection
<1> QED
  BY <1>1, <1>2, <1>3, <1>4, <1>5, <1>6, FrameFirst, Zenon

\* first_job is the last but one on the stack, finds a place to write to, and
\* the packet still in the buffer of the device.
LEMMA FirstFound ==
    ASSUME NEW c, Ready("first", c)
    PROVE  /\ cons[c].first /= <<>> /\ cons[c].out_have /\ cons[c].buf = <<>>
           /\ jobs = <<ConJob("first", c), DevJob("dev_done")>>
           /\ Pend(jobs, c) = {"first"}
           /\ cons[c].first[1].data = dev.data
           /\ cons[c].first[1].remote = cons[c].remote
           /\ cons[c].first[1].is_dns = cons[c].is_dns
<1>1. PICK o, p : o = cons[c] /\ p = Pend(jobs, c)
  OBVIOUS
<1>2. /\ c \in Con /\ o \in Connection /\ "first" \in p
      /\ SendInv(o, p) /\ FirstInv(o, p)
      /\ Stack(jobs, Tail(jobs), c, p \ {"first"})
  BY SMTT(30), Z3T(30), <1>1, Known DEF ConJobs, ConInv
<1>3. o.first /= <<>>
  BY <1>2 DEF FirstInv
<1>4. /\ jobs \in FirstStack(c) /\ Head(jobs) = ConJob("first", c)
      /\ o.buf = <<>> /\ o.first[1].data = dev.data
      /\ o.first[1].remote = o.remote /\ o.first[1].is_dns = o.is_dns
  BY <1>1, <1>3 DEF Ready, RelayInv, FirstJobInv
<1>5. jobs = <<ConJob("first", c), DevJob("dev_done")>> /\ Tail(jobs) = <<DevJob("dev_done")>>
  BY <1>4, FirstStackTail DEF ConJob
<1>6. Pend(Tail(jobs), c) = {}
  BY <1>2, <1>5, DeviceSet DEF DevJobs
<1>7. p = {"first"}
  BY <1>2, <1>6 DEF Stack
<1>8. o.out_have
  BY <1>2, <1>4, <1>7, QueueEmpty DEF SendInv
<1> QED
  BY <1>1, <1>3, <1>4, <1>5, <1>7, <1>8, SMTT(30), Z3T(30)

\* connection_first_job_handler keeps it: what it writes is right.
LEMMA First ==
    ASSUME NEW c, Runs("first", c), first(c)
    PROVE  RelayInv'
<1>1. PICK o, p, d, o2 :
        /\ o = cons[c] /\ p = Pend(jobs, c)
        /\ d = <<[is_dns |-> o.is_dns, right |-> TRUE]>>
        /\ o2 = [o EXCEPT !.out_have = FALSE, !.written = d, !.first = <<>>]
  BY Zenon
<1>2. /\ c \in Con /\ o \in Connection
      /\ SendInv(o, p) /\ RecvInv(o, p) /\ FirstInv(o, p)
      /\ Stack(jobs, Tail(jobs), c, p \ {"first"})
      /\ cons \in [Con -> Connection \cup {Freed}]
  BY <1>1, Known, Zenon DEF Runs, ConJobs, ConInv
<1>3. /\ o.out_have /\ o.buf = <<>> /\ p = {"first"}
      /\ o.first[1].data = dev.data /\ o.first[1].remote = o.remote
      /\ o.first[1].is_dns = o.is_dns
  BY <1>1, FirstFound DEF Runs
<1>4. Queue(d, 1) /\ d \in Seq(Datagram) /\ d /= <<>>
  BY <1>1, <1>2 DEF Queue, Datagram, Connection
<1>5. /\ o2 \in Connection /\ o2.local = o.local /\ o2.first = <<>>
      /\ o2.buf = o.buf /\ o2.written = d /\ o2.out_have = FALSE /\ o2.sending = o.sending
      /\ o2.wait = o.wait /\ o2.failed = o.failed /\ o2.receiving = o.receiving /\ o2.started = o.started
  <2>1. <<>> \in Seq(Packet)
    OBVIOUS
  <2> QED
    BY <1>1, <1>2, <1>4, <2>1, Zenon DEF Connection
<1>6. ConInv(o2, {"writer_done"})
  <2>1. SendInv(o2, {"writer_done"})
    BY <1>2, <1>3, <1>4, <1>5, SMTT(30), Z3T(30) DEF SendInv
  <2>2. RecvInv(o2, {"writer_done"}) /\ FirstInv(o2, {"writer_done"})
    BY <1>2, <1>3, <1>5 DEF RecvInv, FirstInv
  <2> QED
    BY <2>1, <2>2, SMTT(30), Z3T(30) DEF ConInv
<1>7. jobs' = BPending_Set(Tail(jobs), ConJob("writer_done", c))
  BY <1>1, <1>3 DEF first, SetJob
<1>8. Stack(jobs, jobs', c, {"writer_done"})
  <2>1. Stack(jobs, Tail(jobs), c, {})
    BY <1>2, <1>3, Zenon
  <2>2. Stack(jobs, jobs', c, {} \cup {"writer_done"})
    BY <1>2, <1>7, <2>1, StackSet, Zenon DEF ConJobs
  <2> QED
    BY <2>2
<1>9. cons' = [cons EXCEPT ![c] = o2]
  <2>1. [connection_send(o, dev.data, o.first[1]) EXCEPT !.first = <<>>] = o2
    BY <1>1, <1>2, <1>3 DEF connection_send, Connection
  <2> QED
    BY <1>1, <1>2, <2>1, Zenon DEF first
<1> QED
  BY <1>1, <1>5, <1>6, <1>8, <1>9, FrameFirst, Zenon
=============================================================================
