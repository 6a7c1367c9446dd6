------------------------- MODULE SocksUdpGwClient -------------------------
(***************************************************************************)
(* The UDP relay of tun2socks as it is built for Android                   *)
(* (tun2socks/SocksUdpGwClient.c): one socket for each local address that  *)
(* sends, at most max_connections of them, the least recently used making  *)
(* room for a new one.  A DNS query goes to the DNS gateway as it is,      *)
(* anything else to the SOCKS server behind a header.                      *)
(*                                                                         *)
(* The reactor (system/BReactor_badvpn.c) runs a pending job whenever      *)
(* there is one and looks at the file descriptors when there is none.      *)
(* Pending jobs are a stack (base/BPending.c), and the relay leans on it:  *)
(* connection_init keeps a pointer into the one buffer the device is read  *)
(* into, to be followed by a job it leaves on that stack.  So every job of *)
(* the chain from the device to the socket is a step here, as is every     *)
(* job of the chain back.                                                  *)
(*                                                                         *)
(* Packets have one size: a buffer of BufSize packets is full when it      *)
(* holds BufSize.  A packet carries one bit of payload, different from     *)
(* that of the packet before, so that a buffer that was overwritten shows. *)
(***************************************************************************)
EXTENDS Naturals, Sequences, FiniteSets

CONSTANTS
    Con,              \* addresses malloc gives to connections
    NoCon,            \* no connection: the owner of the jobs of the device
    Locals,           \* local addresses of the applications
    Remotes,          \* addresses they send to
    max_connections,
    BufSize           \* CONNECTION_UDP_BUFFER_SIZE

ASSUME RelayAssumption ==
    /\ max_connections \in Nat \ {0} /\ BufSize \in Nat \ {0}
    /\ NoCon \notin Con

VARIABLES
    cons,   \* the connections by their address, Freed where there is none
    list,   \* connections_list, least recently used first
    num,    \* num_connections
    fds,    \* number of sockets open
    dev,    \* the device, and the data in the buffer it is read into
    jobs    \* the pending jobs, the next one first

vars == <<cons, list, num, fds, dev, jobs>>

Packet == [local : Locals, remote : Remotes, is_dns : BOOLEAN, data : {0, 1}]

\* A datagram on its way out.  right: it is the packet it was made for, data,
\* destination and kind of header.
Datagram == [is_dns : BOOLEAN, right : BOOLEAN]

Freed == [local |-> "freed"]

Connection == [local : Locals, remote : Remotes, is_dns : BOOLEAN,
    to : {"dnsgw", "socks"},        \* BDatagram_SetSendAddrs
    first : Seq(Packet),            \* the packet first_job is to send
    out_have : BOOLEAN,             \* BufferWriter has a place to write to
    written : Seq(Datagram),        \* written there, not yet submitted
    buf : Seq(Datagram),            \* PacketBuffer
    sending : BOOLEAN,              \* BDatagram send.busy
    receiving : BOOLEAN,            \* BDatagram recv.busy
    started : BOOLEAN,              \* BDatagram recv.started
    wait : SUBSET {"read", "write"},\* BDatagram wait_events
    failed : BOOLEAN]               \* BDATAGRAM_EVENT_ERROR was reported

live == {c \in Con : cons[c] /= Freed}

DevJobs == {"dev_recv", "dev_recv_done", "dev_send", "dev_done"}
ConJobs == {"first", "writer_recv", "writer_done", "send", "send_job",
            "send_done", "recv", "recv_job", "recv_done", "rx", "rx_done"}
Job == [job : DevJobs, con : {NoCon}] \cup [job : ConJobs, con : Con]

\* Every variable has its type.
TypeOK ==
    /\ cons \in [Con -> Connection \cup {Freed}]
    /\ list \in Seq(Con) /\ num \in Nat /\ fds \in Nat
    /\ dev \in [state : {"idle", "waiting", "closed"}, data : {0, 1}]
    /\ jobs \in Seq(Job)

-----------------------------------------------------------------------------
(* Jobs. *)

\* BSmallPending_Set: in front.  None is set twice (JobsLive).
BPending_Set(q, j) == <<j>> \o q

DevJob(n) == [job |-> n, con |-> NoCon]
ConJob(n, c) == [job |-> n, con |-> c]

\* Sets job n of connection c if it is wanted.
SetJob(q, n, c, wanted) == IF wanted THEN BPending_Set(q, ConJob(n, c)) ELSE q

-----------------------------------------------------------------------------
(* The sending half: BufferWriter, PacketBuffer, BDatagram. *)

room(b) == Len(b) < BufSize

\* connection_send.  Without a place to write to the packet is dropped.
connection_send(o, data, p) ==
    IF ~o.out_have THEN o
    ELSE [o EXCEPT !.out_have = FALSE,
                   !.written = <<[is_dns |-> o.is_dns,
                        right |-> /\ data = p.data
                                  /\ o.remote = p.remote
                                  /\ o.is_dns = p.is_dns]>>]

\* BufferWriter.c:output_handler_recv
writer_recv(c) ==
    /\ cons' = [cons EXCEPT ![c].out_have = TRUE]
    /\ jobs' = Tail(jobs)

\* PacketBuffer.c:input_handler_done
writer_done(c) ==
    LET b == Append(cons[c].buf, cons[c].written[1]) IN
    /\ cons' = [cons EXCEPT ![c].buf = b, ![c].written = <<>>]
    /\ jobs' = SetJob(SetJob(Tail(jobs), "writer_recv", c, room(b)),
                      "send", c, cons[c].buf = <<>>)

\* BDatagram_unix.c:send_if_handler_send.  The addresses are set from the start.
send(c) ==
    /\ cons' = [cons EXCEPT ![c].sending = TRUE]
    /\ jobs' = BPending_Set(Tail(jobs), ConJob("send_job", c))

\* do_send, after which q is pending.  A call over the limit of the reactor
\* waits like one the socket has no room for.
do_send(c, wait, q, out) ==
    LET o == cons[c] IN
    CASE out = "again" ->
            /\ cons' = [cons EXCEPT ![c].wait = wait \cup {"write"}]
            /\ jobs' = q
      [] out = "error" ->
            /\ cons' = [cons EXCEPT ![c].wait = wait, ![c].failed = TRUE]
            /\ jobs' = q
      [] out = "done" ->
            /\ cons' = [cons EXCEPT ![c].wait = wait, ![c].started = TRUE,
                                    ![c].sending = FALSE]
            /\ jobs' = BPending_Set(SetJob(q, "recv_job", c, ~o.started /\ o.receiving),
                                    ConJob("send_done", c))

\* Mutant: a full buffer asks for the next packet only when it is empty again.
send_doneLazy(c) ==
    LET b == Tail(cons[c].buf) IN
    /\ cons' = [cons EXCEPT ![c].buf = b]
    /\ jobs' = SetJob(SetJob(Tail(jobs), "writer_recv", c, ~room(cons[c].buf) /\ b = <<>>),
                      "send", c, b /= <<>>)

\* PacketBuffer.c:output_handler_done
send_done(c) ==
    LET b == Tail(cons[c].buf) IN
    /\ cons' = [cons EXCEPT ![c].buf = b]
    /\ jobs' = SetJob(SetJob(Tail(jobs), "writer_recv", c, ~room(cons[c].buf)),
                      "send", c, b /= <<>>)

-----------------------------------------------------------------------------
(* The receiving half: BDatagram, SinglePacketBuffer, the handler. *)

\* recv_if_handler_recv
recv(c) ==
    /\ cons' = [cons EXCEPT ![c].receiving = TRUE]
    /\ jobs' = SetJob(Tail(jobs), "recv_job", c, cons[c].started)

do_recv(c, wait, q, out) ==
    CASE out = "again" ->
            /\ cons' = [cons EXCEPT ![c].wait = wait \cup {"read"}]
            /\ jobs' = q
      [] out = "error" ->
            /\ cons' = [cons EXCEPT ![c].wait = wait, ![c].failed = TRUE]
            /\ jobs' = q
      [] out = "done" ->
            /\ cons' = [cons EXCEPT ![c].wait = wait, ![c].receiving = FALSE]
            /\ jobs' = BPending_Set(q, ConJob("recv_done", c))

\* SinglePacketBuffer.c:input_handler_done
recv_done(c) ==
    /\ jobs' = BPending_Set(Tail(jobs), ConJob("rx", c))
    /\ UNCHANGED cons

\* dgram_handler_received.  A datagram with a header that can be read becomes
\* the remote address; r is that address, or the one there is if the datagram
\* is an answer of the gateway or is dropped.
dgram_handler_received(c, r) ==
    /\ cons[c].is_dns => r = cons[c].remote
    /\ cons' = [cons EXCEPT ![c].remote = r]
    /\ jobs' = BPending_Set(Tail(jobs), ConJob("rx_done", c))

\* SinglePacketBuffer.c:output_handler_done
rx_done(c) ==
    /\ jobs' = BPending_Set(Tail(jobs), ConJob("recv", c))
    /\ UNCHANGED cons

\* BDatagram_unix.c:fd_handler.  An error event means that the next call on
\* the socket returns the error.
fd_handler(c, events, out) ==
    LET o == cons[c]
        have_send == "write" \in events \/ ("error" \in events /\ o.sending)
        have_recv == \/ "read" \in events
                     \/ "error" \in events /\ o.receiving /\ o.started
        w == o.wait \ events
    IN  /\ "error" \in events => out = "error"
        /\ IF have_send
           THEN do_send(c, w, SetJob(jobs, "recv_job", c, have_recv), out)
           ELSE IF have_recv THEN do_recv(c, w, jobs, out)
           ELSE /\ cons' = [cons EXCEPT ![c].wait = w, ![c].failed = TRUE]
                /\ UNCHANGED jobs

-----------------------------------------------------------------------------
(* The table of connections. *)

\* find_connection: the connections with this local address.  The test of
\* is_dns behind !con is never reached.
find_connection(p) == {c \in live : cons[c].local = p.local}

\* LinkedList1_Remove of connection c
without(c) ==
    LET i == CHOOSE i \in DOMAIN list : list[i] = c
    IN  SubSeq(list, 1, i - 1) \o SubSeq(list, i + 1, Len(list))

\* connection_free: the jobs of the interfaces go, first_job is not among them.
jobs_without(q, c) ==
    LET kept == {i \in DOMAIN q : q[i].con /= c \/ q[i].job = "first"}
        nth(k) == CHOOSE i \in kept : Cardinality({j \in kept : j <= i}) = k
    IN  [k \in 1..Cardinality(kept) |-> q[nth(k)]]

\* What connection_init makes.
NewConnection(p) ==
    [local |-> p.local, remote |-> p.remote, is_dns |-> p.is_dns,
     to |-> IF p.is_dns THEN "dnsgw" ELSE "socks", first |-> <<p>>,
     out_have |-> FALSE, written |-> <<>>, buf |-> <<>>, sending |-> FALSE,
     receiving |-> FALSE, started |-> FALSE, wait |-> {}, failed |-> FALSE]

\* Mutant: first_job is set once the rest is in place.
InitJobsFirstLast(q, c) ==
    BPending_Set(BPending_Set(BPending_Set(q, ConJob("writer_recv", c)),
                              ConJob("recv", c)),
                 ConJob("first", c))

\* The jobs connection_init sets: first_job, then the receive of PacketBuffer
\* and that of SinglePacketBuffer.
InitJobs(q, c) ==
    BPending_Set(BPending_Set(BPending_Set(q, ConJob("first", c)),
                              ConJob("writer_recv", c)),
                 ConJob("recv", c))

\* Mutant: the connection that makes room keeps its socket.
evictedLeaks ==
    LET c == list[1] IN
    [cons |-> [cons EXCEPT ![c] = Freed], list |-> Tail(list), num |-> num - 1,
     fds |-> fds, jobs |-> jobs_without(jobs, c)]

\* The table after remove_lru_connection.
evicted ==
    LET c == list[1] IN
    [cons |-> [cons EXCEPT ![c] = Freed], list |-> Tail(list), num |-> num - 1,
     fds |-> fds - 1, jobs |-> jobs_without(jobs, c)]

current == [cons |-> cons, list |-> list, num |-> num, fds |-> fds, jobs |-> jobs]

\* Mutant: the packet of the device is accepted after it was handled.
connection_initAcceptsLate(p, c, ok) ==
    LET w == IF num = max_connections THEN evicted ELSE current IN
    /\ w.cons[c] = Freed /\ ok
    /\ cons' = [w.cons EXCEPT ![c] = NewConnection(p)]
    /\ list' = Append(w.list, c)
    /\ num' = w.num + 1 /\ fds' = w.fds + 1
    /\ jobs' = BPending_Set(InitJobs(Tail(w.jobs), c), DevJob("dev_done"))

\* A new connection at c; with ok = FALSE one of the calls of connection_init
\* fails, and what it had made is undone.
connection_init(p, c, ok) ==
    LET w == IF num = max_connections THEN evicted ELSE current
        q == BPending_Set(Tail(w.jobs), DevJob("dev_done")) IN
    /\ w.cons[c] = Freed
    /\ IF ok
       THEN /\ cons' = [w.cons EXCEPT ![c] = NewConnection(p)]
            /\ list' = Append(w.list, c)
            /\ num' = w.num + 1 /\ fds' = w.fds + 1
            /\ jobs' = InitJobs(q, c)
       ELSE /\ cons' = w.cons /\ list' = w.list /\ num' = w.num /\ fds' = w.fds
            /\ jobs' = q

\* A packet of a connection there is: reset_connection, connection_send.
submit(p, c) ==
    LET q == BPending_Set(Tail(jobs), DevJob("dev_done"))
        o == [cons[c] EXCEPT !.remote = p.remote, !.is_dns = p.is_dns] IN
    /\ cons' = [cons EXCEPT ![c] = connection_send(o, dev.data, p)]
    /\ list' = IF o.out_have THEN Append(without(c), c) ELSE list
    /\ jobs' = SetJob(q, "writer_done", c, o.out_have)
    /\ UNCHANGED <<num, fds>>

\* device_read_handler_send, process_device_udp_packet and
\* SocksUdpGwClient_SubmitPacket: the packet is accepted, which sets a job,
\* and handled.
device_read_handler_send(p, c, ok) ==
    LET found == find_connection(p) IN
    /\ p.data = dev.data
    /\ IF found = {} THEN connection_init(p, c, ok)
                     ELSE c \in found /\ submit(p, c)
    /\ UNCHANGED dev

\* connection_first_job_handler
first(c) ==
    /\ cons' = [cons EXCEPT ![c] =
                    [connection_send(@, dev.data, @.first[1]) EXCEPT !.first = <<>>]]
    /\ jobs' = SetJob(Tail(jobs), "writer_done", c, cons[c].out_have)

-----------------------------------------------------------------------------
(* The device: BTap and its SinglePacketBuffer. *)

\* BTap.c:output_handler_recv: reads at once, or waits.
dev_recv ==
    \/ /\ dev' = [dev EXCEPT !.data = 1 - @]
       /\ jobs' = BPending_Set(Tail(jobs), DevJob("dev_recv_done"))
    \/ /\ dev' = [dev EXCEPT !.state = "waiting"]
       /\ jobs' = Tail(jobs)

\* BTap.c:fd_handler
dev_fd_handler ==
    /\ jobs = <<>> /\ dev.state = "waiting"
    /\ dev' = [state |-> "idle", data |-> 1 - dev.data]
    /\ jobs' = BPending_Set(jobs, DevJob("dev_recv_done"))
    /\ UNCHANGED <<cons, list, num, fds>>

-----------------------------------------------------------------------------

Init ==
    /\ cons = [c \in Con |-> Freed] /\ list = <<>> /\ num = 0 /\ fds = 0
    /\ dev = [state |-> "idle", data |-> 0]
    /\ jobs = <<DevJob("dev_recv")>>

next(n) == jobs /= <<>> /\ Head(jobs).job = n

\* A job of the device.  A packet that is not UDP goes to lwIP.
DeviceJob ==
    \/ /\ next("dev_recv") /\ dev_recv
       /\ UNCHANGED <<cons, list, num, fds>>
    \/ /\ next("dev_recv_done")
       /\ jobs' = BPending_Set(Tail(jobs), DevJob("dev_send"))
       /\ UNCHANGED <<cons, list, num, fds, dev>>
    \/ /\ next("dev_send")
       /\ \E p \in Packet, c \in Con, ok \in BOOLEAN : device_read_handler_send(p, c, ok)
    \/ /\ next("dev_send")
       /\ jobs' = BPending_Set(Tail(jobs), DevJob("dev_done"))
       /\ UNCHANGED <<cons, list, num, fds, dev>>
    \/ /\ next("dev_done")
       /\ jobs' = BPending_Set(Tail(jobs), DevJob("dev_recv"))
       /\ UNCHANGED <<cons, list, num, fds, dev>>

Outcome == {"done", "again", "error"}

\* A job of a connection.
ConnectionJob ==
    /\ jobs /= <<>> /\ Head(jobs).con \in live
    /\ LET c == Head(jobs).con IN
       \/ next("first") /\ first(c)
       \/ next("writer_recv") /\ writer_recv(c)
       \/ next("writer_done") /\ writer_done(c)
       \/ next("send") /\ send(c)
       \/ next("send_job") /\ \E out \in Outcome : do_send(c, cons[c].wait, Tail(jobs), out)
       \/ next("send_done") /\ send_done(c)
       \/ next("recv") /\ recv(c)
       \/ next("recv_job") /\ \E out \in Outcome : do_recv(c, cons[c].wait, Tail(jobs), out)
       \/ next("recv_done") /\ recv_done(c)
       \/ next("rx") /\ \E r \in Remotes : dgram_handler_received(c, r)
       \/ next("rx_done") /\ rx_done(c)
    /\ UNCHANGED <<list, num, fds, dev>>

\* Events on a socket, once no job is pending.
SocketEvent ==
    /\ jobs = <<>>
    /\ \E c \in live, out \in Outcome :
          \E events \in (SUBSET (cons[c].wait \cup {"error"})) \ {{}} :
             fd_handler(c, events, out)
    /\ UNCHANGED <<list, num, fds, dev>>

\* The end of the process: SocksUdpGwClient_Free.
SocksUdpGwClient_Free ==
    /\ jobs = <<>> /\ dev.state = "waiting"
    /\ cons' = [c \in Con |-> Freed] /\ list' = <<>>
    /\ num' = num - Len(list) /\ fds' = fds - Len(list)
    /\ dev' = [dev EXCEPT !.state = "closed"]
    /\ UNCHANGED jobs

Next == DeviceJob \/ ConnectionJob \/ dev_fd_handler \/ SocketEvent \/ SocksUdpGwClient_Free

Spec == Init /\ [][Next]_vars

-----------------------------------------------------------------------------

\* What goes out is what came in: a datagram holds the data of the packet it
\* was made for and names its destination, also the first of a connection,
\* which a later job copies from the buffer the device is read into; and that
\* job always finds a place in the connection's buffer to copy it to.
RightDatagram ==
    /\ \A c \in live : LET all == cons[c].written \o cons[c].buf IN
                       \A i \in DOMAIN all : all[i].right
    /\ next("first") => cons[Head(jobs).con].out_have

\* No job is left behind by a connection that was freed, although
\* connection_free does not free first_job: neither one of a connection that is
\* gone, nor one that a new connection in its place would find set already; and
\* the first packet of a connection is kept exactly until its first_job has run.
JobsLive ==
    /\ \A i \in DOMAIN jobs : jobs[i].con \in live \cup {NoCon}
    /\ \A i, j \in DOMAIN jobs : jobs[i] = jobs[j] => i = j
    /\ \A c \in live : cons[c].first /= <<>> <=> \E i \in DOMAIN jobs : jobs[i] = ConJob("first", c)

\* The tree, the list, the counter and the open sockets are of the same
\* connections, at most max_connections, and no two have one local address.
TableIsExact ==
    /\ num = Len(list) /\ num = Cardinality(live) /\ num = fds
    /\ {list[i] : i \in DOMAIN list} = live
    /\ num <= max_connections
    /\ \A c, d \in live : cons[c].local = cons[d].local => c = d

\* When the reactor goes to sleep, no connection waits for something it did not
\* ask for: there is a place to write to unless the buffer is full, and unless
\* the socket failed what is in the buffer is being sent and waits for the
\* socket, and a receive is under way.  Nor is an event asked for whose
\* handler would find nothing to do.
NoLostWakeup ==
    jobs = <<>> =>
        \A c \in live :
            LET o == cons[c] IN
            /\ o.out_have <=> room(o.buf)
            /\ "write" \in o.wait => o.sending
            /\ "read" \in o.wait => o.receiving /\ o.started
            /\ o.failed \/ (/\ o.sending <=> o.buf /= <<>>
                            /\ o.sending => "write" \in o.wait
                            /\ o.receiving
                            /\ o.started => "read" \in o.wait)

\* Only DNS queries are sent to the DNS gateway: anything else to its port is
\* not intercepted.
NotIntercepted ==
    \A c \in live : cons[c].to = "dnsgw" =>
        \A i \in DOMAIN cons[c].buf : cons[c].buf[i].is_dns
=============================================================================
