-------------------------- MODULE Tun2socksClient --------------------------
(***************************************************************************)
(* A TCP connection through tun2socks: the struct tcp_client between the   *)
(* pcb that lwIP keeps for an app's connection and a SOCKS connection to   *)
(* the local proxy. Everything runs on one thread, but not one thing after *)
(* the other: lwIP calls tun2socks from the middle of tcp_input, and three *)
(* of those callbacks run the jobs of the SOCKS connection to their end    *)
(* before they return (SYNC_COMMIT). pc says where tcp_input is; while it  *)
(* is in a callback, the SOCKS connection may send, receive, fail or close *)
(* and free the pcb and the client under the callback.                     *)
(*                                                                         *)
(* The app sends the bytes 1, 2, ...; so does the server. A connection     *)
(* that is over leaves room for the next one.                              *)
(***************************************************************************)
EXTENDS LwipTcp, BSocksClient

CONSTANTS RECV_BUF,     \* CLIENT_SOCKS_RECV_BUF_SIZE
          MaxUp,        \* bound on the bytes an app sends
          MaxDown       \* bound on the bytes a server sends
ASSUME SizeAssumption == RECV_BUF \in Nat \ {0} /\ MaxUp \in Nat /\ MaxDown \in Nat

VARIABLES
    client,     \* struct tcp_client
    pcb,        \* client->pcb; lwIP's memory
    socks,      \* client->socks_client: state, bytes given to the send interface, a receive pending
    pc,         \* where tcp_input is; "idle" when it does not run
    seg,        \* the segment tcp_input works on: bytes acknowledged, data, FIN
    dead,       \* badvpn__dead of the callback that runs
    hist        \* what went in and came out, and who ended the connection

vars == <<client, pcb, socks, pc, seg, dead, hist>>

NoClient == [alloc |-> FALSE, aborted |-> FALSE, client_closed |-> FALSE, buf |-> <<>>,
             socks_up |-> FALSE, socks_closed |-> FALSE, rbuf |-> <<>>, tcp_pending |-> 0]
NoSocks == [state |-> "FREED", sending |-> 0, receiving |-> FALSE]
NoSeg == [acked |-> 0, data |-> <<>>, fin |-> FALSE]
NoHist == [up |-> 0, down |-> 0, toSocks |-> <<>>, toApp |-> <<>>,
           appEnded |-> FALSE, socksEnded |-> FALSE]

\* rbuf is the part of socks_recv_buf not yet queued; it is empty when socks_recv_buf_used is -1.
Client == [alloc : BOOLEAN, aborted : BOOLEAN, client_closed : BOOLEAN, buf : Seq(Nat),
           socks_up : BOOLEAN, socks_closed : BOOLEAN, rbuf : Seq(Nat), tcp_pending : Nat]
Socks == [state : Handshake \cup {"UP", "FREED"}, sending : Nat, receiving : BOOLEAN]
Segment == [acked : Nat, data : Seq(Nat), fin : BOOLEAN]
Hist == [up : Nat, down : Nat, toSocks : Seq(Nat), toApp : Seq(Nat),
         appEnded : BOOLEAN, socksEnded : BOOLEAN]

\* Inside these, SYNC_COMMIT runs the jobs of the SOCKS connection.
Callbacks == {"inAccept", "inSent", "inRecv"}

TypeOK ==
    /\ client \in Client /\ pcb \in Pcb /\ socks \in Socks /\ seg \in Segment /\ hist \in Hist
    /\ pc \in {"idle", "sent", "data", "fin"} \cup Callbacks
    /\ dead \in {"null", "no", "aborted", "freed"}

Init ==
    /\ client = NoClient /\ pcb = FreedPcb /\ socks = NoSocks
    /\ pc = "idle" /\ seg = NoSeg /\ dead = "null" /\ hist = NoHist

Bytes(from, len) == [i \in 1..len |-> from + i]
Drop(s, n) == SubSeq(s, n + 1, Len(s))

-----------------------------------------------------------------------------
(* The functions of tun2socks.c that end a connection, on what they change. *)

World == [client |-> client, pcb |-> pcb, socks |-> socks, dead |-> dead]
Becomes(w) == client' = w.client /\ pcb' = w.pcb /\ socks' = w.socks /\ dead' = w.dead

DEAD_KILL_WITH(w, value) == [w EXCEPT !.dead = IF @ = "null" THEN @ ELSE value]

\* Mutant: that the client was freed hides that its pcb was aborted.
client_deallocAlways(w) == [DEAD_KILL_WITH(w, "freed") EXCEPT !.client = NoClient]

client_dealloc(w) ==
    [IF w.client.aborted THEN w ELSE DEAD_KILL_WITH(w, "freed") EXCEPT !.client = NoClient]

client_abort_pcb(w) ==
    DEAD_KILL_WITH([w EXCEPT !.pcb = tcp_abort(@), !.client.aborted = TRUE], "aborted")

\* client_free_client up to client_handle_freed_client; tcp_close does not fail here.
ClosePcb(w) == [w EXCEPT !.pcb = tcp_close(RemoveCallbacks(@)), !.client.client_closed = TRUE]

\* Mutant: data that lwIP holds but the app has not acknowledged is not waited for.
client_free_socksEarly(w) ==
    LET c == w.client
        freed == [w EXCEPT !.socks = NoSocks, !.client.socks_closed = TRUE,
                           !.pcb.recv = @ /\ ~(c.socks_up /\ ~c.client_closed)]
    IN  IF c.socks_up /\ c.rbuf # <<>> /\ ~c.client_closed THEN freed
        ELSE client_dealloc(IF c.client_closed THEN freed ELSE ClosePcb(freed))

\* Mutant: the receive callback stays on the pcb.
client_free_socksReceives(w) ==
    LET c == w.client
        freed == [w EXCEPT !.socks = NoSocks, !.client.socks_closed = TRUE]
    IN  IF c.socks_up /\ (c.rbuf # <<>> \/ c.tcp_pending > 0) /\ ~c.client_closed
        THEN freed
        ELSE client_dealloc(IF c.client_closed THEN freed ELSE ClosePcb(freed))

\* client_free_client in here goes straight to client_dealloc, socks_closed being set.
client_free_socks(w) ==
    LET c == w.client
        freed == [w EXCEPT !.socks = NoSocks, !.client.socks_closed = TRUE,
                           !.pcb.recv = @ /\ ~(c.socks_up /\ ~c.client_closed)]
    IN  IF c.socks_up /\ (c.rbuf # <<>> \/ c.tcp_pending > 0) /\ ~c.client_closed
        THEN freed
        ELSE client_dealloc(IF c.client_closed THEN freed ELSE ClosePcb(freed))

\* Mutant: what the app sent before it closed is not waited for.
client_handle_freed_clientAtOnce(w) ==
    LET closed == [w EXCEPT !.client.client_closed = TRUE]
    IN  IF ~w.client.socks_closed THEN client_free_socks(closed) ELSE client_dealloc(closed)

client_handle_freed_client(w) ==
    LET closed == [w EXCEPT !.client.client_closed = TRUE]
    IN  IF w.client.buf # <<>> /\ ~w.client.socks_closed THEN closed
        ELSE IF ~w.client.socks_closed THEN client_free_socks(closed)
        ELSE client_dealloc(closed)

client_free_client(w) == client_handle_freed_client(ClosePcb(w))

client_abort_client(w) ==
    client_handle_freed_client(client_abort_pcb([w EXCEPT !.pcb = RemoveCallbacks(@)]))

\* The pcb is gone already when lwIP calls this.
client_err_func(w) == client_handle_freed_client([w EXCEPT !.pcb = FreedPcb])

client_murder(w) ==
    LET c == w.client
        aborted == IF c.client_closed THEN w
                   ELSE client_abort_pcb([w EXCEPT !.pcb = RemoveCallbacks(@)])
    IN  client_dealloc([aborted EXCEPT !.client.client_closed = TRUE, !.client.socks_closed = TRUE,
                                       !.socks = NoSocks])

client_send_to_socks(w) == [w EXCEPT !.socks.sending = Len(w.client.buf)]

client_socks_recv_initiate(w) == [w EXCEPT !.socks.receiving = TRUE]

\* tcp_write takes all there is room for, or nothing when it runs out of memory or queue slots.
Writable(w) == {0, Min(Len(w.client.rbuf), tcp_sndbuf(w.pcb))}

\* Queues n bytes; out: tcp_output succeeds.
SendOutAborts(w, n, out) == ~out \/ (n < Len(w.client.rbuf) /\ w.client.tcp_pending + n = 0)
client_socks_recv_send_out(w, n, out) ==
    LET queued == [w EXCEPT !.pcb.sndq = @ \o SubSeq(w.client.rbuf, 1, n),
                            !.client.rbuf = Drop(@, n), !.client.tcp_pending = @ + n]
    IN  IF SendOutAborts(w, n, out) THEN client_abort_client(queued) ELSE queued

-----------------------------------------------------------------------------
(* lwIP: segments, timers, and the callbacks it makes from tcp_input.       *)

InputOver == pc' = "idle" /\ seg' = NoSeg

\* A callback returns; tcp_input does nothing more if that was ERR_ABRT.
Leave(w, next) ==
    /\ Becomes([w EXCEPT !.dead = "null"])
    /\ IF w.dead = "aborted" THEN InputOver ELSE next

AppEnds(b) == hist' = [hist EXCEPT !.appEnded = @ \/ b]

Syn ==
    /\ pc = "idle" /\ pcb.state = "FREED" /\ ~client.alloc
    /\ pcb' = tcp_listen_input /\ hist' = NoHist
    /\ UNCHANGED <<client, socks, pc, seg, dead>>

\* The last step of the handshake calls this; the segment may carry data and a FIN already.
listener_accept_func(n, fin) ==
    /\ pc = "idle" /\ pcb.state = "SYN_RCVD" /\ n <= MaxUp
    /\ pcb' = [pcb EXCEPT !.state = "ESTABLISHED", !.input = TRUE, !.err = TRUE, !.recv = TRUE]
    /\ client' = [NoClient EXCEPT !.alloc = TRUE]
    /\ socks' = [NoSocks EXCEPT !.state = "CONNECTING"]
    /\ dead' = "no" /\ pc' = "inAccept"
    /\ seg' = [acked |-> 0, data |-> Bytes(0, n), fin |-> fin]
    /\ UNCHANGED hist

\* Without memory or a socket it returns ERR_MEM, and tcp_process aborts the pcb.
AcceptFails ==
    /\ pc = "idle" /\ pcb.state = "SYN_RCVD"
    /\ pcb' = tcp_abort(pcb)
    /\ UNCHANGED <<client, socks, pc, seg, dead, hist>>

AcceptReturns ==
    LET a == Accepted(pcb, seg.data, seg.fin)
        received == [tcp_receive(pcb, a) EXCEPT !.state = IF a.fin THEN "CLOSE_WAIT" ELSE pcb.state]
    IN  /\ pc = "inAccept"
        /\ Leave([World EXCEPT !.pcb = IF dead = "aborted" THEN @ ELSE received],
                 pc' = "data" /\ seg' = [acked |-> 0, data |-> a.data, fin |-> a.fin])
        /\ UNCHANGED hist

\* A segment acknowledges k bytes and, if ackfin, our FIN; it brings n bytes and, if fin, a FIN.
tcp_input(k, ackfin, n, fin) ==
    LET a == Accepted(pcb, Bytes(hist.up, n), fin)
    IN  /\ pc = "idle" /\ pcb.state \in ActiveStates \ {"SYN_RCVD"}
        /\ k <= Len(pcb.sndq) /\ hist.up + n <= MaxUp
        /\ ackfin => pcb.finq /\ k = Len(pcb.sndq)
        /\ k > 0 \/ ackfin \/ a.data # <<>> \/ a.fin
        /\ pcb' = tcp_process(pcb, k, ackfin, a)
        /\ seg' = [acked |-> k, data |-> a.data, fin |-> a.fin]
        /\ hist' = [hist EXCEPT !.toApp = @ \o SubSeq(pcb.sndq, 1, k)]
        /\ pc' = "sent"
        /\ UNCHANGED <<client, socks, dead>>

SentReturns(w) ==
    Leave([w EXCEPT !.pcb = IF w.dead = "aborted" THEN @ ELSE tcp_input_delayed_close(@)],
          IF w.pcb.tf_closed THEN InputOver ELSE pc' = "data" /\ seg' = seg)

\* Mutant: the last acknowledgement after SOCKS has closed frees nothing.
client_sent_funcForgets(n, out) ==
    LET w == [World EXCEPT !.dead = "no", !.client.tcp_pending = @ - seg.acked]
        v == client_socks_recv_send_out(w, n, out)
        more == client.rbuf # <<>>
    IN  /\ n \in Writable(w)
        /\ AppEnds(more /\ SendOutAborts(w, n, out))
        /\ IF more /\ ~SendOutAborts(w, n, out) /\ v.client.rbuf = <<>> /\ ~client.socks_closed
           THEN Becomes(client_socks_recv_initiate(v)) /\ pc' = "inSent" /\ seg' = seg
           ELSE SentReturns(IF more THEN v ELSE w)

client_sent_func(n, out) ==
    LET w == [World EXCEPT !.dead = "no", !.client.tcp_pending = @ - seg.acked]
        v == client_socks_recv_send_out(w, n, out)
        more == client.rbuf # <<>>
    IN  /\ n \in Writable(w)
        /\ AppEnds(more /\ SendOutAborts(w, n, out))
        /\ IF more /\ ~SendOutAborts(w, n, out) /\ v.client.rbuf = <<>> /\ ~client.socks_closed
           THEN Becomes(client_socks_recv_initiate(v)) /\ pc' = "inSent" /\ seg' = seg
           ELSE SentReturns(IF more THEN v
                            ELSE IF client.socks_closed /\ w.client.tcp_pending = 0 THEN client_free_client(w)
                            ELSE w)

SentStage ==
    /\ pc = "sent"
    /\ IF seg.acked > 0 /\ pcb.sent
       THEN \E n \in 0..TCP_SND_BUF, out \in BOOLEAN : client_sent_func(n, out)
       ELSE SentReturns(World) /\ UNCHANGED hist

InSentReturns == pc = "inSent" /\ SentReturns(World) /\ UNCHANGED hist

\* "no buffer for data !?!" refuses the data, and lwIP keeps it.
client_recv_func(d) ==
    LET w == [World EXCEPT !.dead = "no", !.client.buf = @ \o d]
    IN  IF Len(client.buf) + Len(d) > TCP_WND
        THEN /\ pcb' = [pcb EXCEPT !.refused = TRUE] /\ pc' = "fin"
             /\ UNCHANGED <<client, socks, seg, dead, hist>>
        ELSE /\ hist' = [hist EXCEPT !.up = @ + Len(d)]
             /\ IF client.buf = <<>> /\ client.socks_up
                THEN Becomes(client_send_to_socks(w)) /\ pc' = "inRecv" /\ seg' = seg
                ELSE Leave(w, pc' = "fin" /\ seg' = seg)

\* What came in goes to an application that still receives; tcp_recv_null drops it when SOCKS has
\* closed, and after tcp_close it aborts the connection.
DataStage ==
    /\ pc = "data"
    /\ IF seg.data = <<>> THEN pc' = "fin" /\ UNCHANGED <<client, pcb, socks, seg, dead, hist>>
       ELSE IF pcb.rxclosed THEN pcb' = tcp_abort(pcb) /\ InputOver /\ UNCHANGED <<client, socks, dead, hist>>
       ELSE IF pcb.recv THEN client_recv_func(seg.data)
       ELSE /\ pcb' = tcp_recved(pcb, Len(seg.data)) /\ pc' = "fin"
            /\ UNCHANGED <<client, socks, seg, dead, hist>>

InRecvReturns == pc = "inRecv" /\ Leave(World, pc' = "fin" /\ seg' = seg) /\ UNCHANGED hist

\* client_recv_func with no data, if the application still receives; then tcp_input ends.
FinStage ==
    LET got == seg.fin /\ ~pcb.refused
        w == [World EXCEPT !.pcb = IF got THEN CorrectForFin(@) ELSE @]
        v == IF got /\ pcb.recv THEN client_free_client(w) ELSE w
    IN  /\ pc = "fin"
        /\ Becomes([v EXCEPT !.pcb = [tcp_input_delayed_close(@) EXCEPT !.input = FALSE]])
        /\ InputOver
        /\ AppEnds(got /\ pcb.recv)

\* The pcb goes, by a RST from the app or in tcp_slowtmr; the err callback hears of it.
PcbLost ==
    /\ Becomes(IF pcb.err THEN client_err_func(World) ELSE [World EXCEPT !.pcb = FreedPcb])
    /\ AppEnds(pcb.err)
    /\ UNCHANGED <<pc, seg>>

Rst == pc = "idle" /\ pcb.state \in ActiveStates /\ PcbLost

tcp_slowtmr == pc = "idle" /\ (TimedOut(pcb) \/ pcb.state = "TIME_WAIT") /\ PcbLost

-----------------------------------------------------------------------------
(* The SOCKS connection: its jobs run when tcp_input does not, or inside a  *)
(* callback that started them.                                              *)

Runs(callbacks) == pc \in {"idle"} \cup callbacks

SocksEnds ==
    /\ Becomes(client_free_socks(World))
    /\ hist' = [hist EXCEPT !.socksEnded = TRUE]

\* Mutant: what the app sent during the handshake stays in the buffer.
SocksUpIdle(w) ==
    LET up == [w EXCEPT !.socks.state = "UP", !.client.socks_up = TRUE,
                        !.pcb.sent = @ \/ ~w.client.client_closed]
    IN  IF w.client.client_closed THEN up ELSE client_socks_recv_initiate(up)

\* BSOCKSCLIENT_EVENT_UP.
SocksUp(w) ==
    LET up == [w EXCEPT !.socks.state = "UP", !.client.socks_up = TRUE,
                        !.pcb.sent = @ \/ ~w.client.client_closed]
        sending == IF w.client.buf # <<>> THEN client_send_to_socks(up) ELSE up
    IN  IF w.client.client_closed THEN sending ELSE client_socks_recv_initiate(sending)

client_socks_handler(event) ==
    /\ Runs({"inAccept"}) /\ socks.state \in Handshake
    /\ event \in HandshakeNext(socks.state) \cup {"ERROR"}
    /\ IF event = "ERROR" THEN SocksEnds
       ELSE /\ Becomes(IF event = "UP" THEN SocksUp(World) ELSE [World EXCEPT !.socks.state = event])
            /\ UNCHANGED hist
    /\ UNCHANGED <<pc, seg>>

\* An error of the connection, found in a send, in a receive or by the reactor.
SocksError ==
    /\ socks.state = "UP"
    /\ \/ Runs({})
       \/ pc \in {"inAccept", "inRecv"} /\ socks.sending > 0
       \/ pc \in {"inAccept", "inSent"} /\ socks.receiving
    /\ SocksEnds
    /\ UNCHANGED <<pc, seg>>

\* The server has closed: a receive finds the end of the stream.
SocksClosed ==
    /\ Runs({"inAccept", "inSent"}) /\ socks.receiving
    /\ SocksEnds
    /\ UNCHANGED <<pc, seg>>

\* Mutant: the window is opened by all of the buffer.
SendDoneOpensAll(len) ==
    LET w == [World EXCEPT !.client.buf = Drop(@, len), !.socks.sending = 0,
                           !.pcb = IF client.client_closed THEN @ ELSE tcp_recved(@, Len(client.buf))]
    IN  /\ Runs({"inAccept", "inRecv"}) /\ len \in 1..socks.sending
        /\ Becomes(IF w.client.buf # <<>> THEN client_send_to_socks(w)
                   ELSE IF client.client_closed THEN client_free_socks(w)
                   ELSE w)
        /\ hist' = [hist EXCEPT !.toSocks = @ \o SubSeq(client.buf, 1, len)]
        /\ UNCHANGED <<pc, seg>>

\* Mutant: a partial send counts for a full one.
SendDoneDropsAll(len) ==
    LET w == [World EXCEPT !.client.buf = Drop(@, socks.sending), !.socks.sending = 0,
                           !.pcb = IF client.client_closed THEN @ ELSE tcp_recved(@, socks.sending)]
    IN  /\ Runs({"inAccept", "inRecv"}) /\ len \in 1..socks.sending
        /\ Becomes(IF w.client.buf # <<>> THEN client_send_to_socks(w)
                   ELSE IF client.client_closed THEN client_free_socks(w)
                   ELSE w)
        /\ hist' = [hist EXCEPT !.toSocks = @ \o SubSeq(client.buf, 1, len)]
        /\ UNCHANGED <<pc, seg>>

client_socks_send_handler_done(len) ==
    LET w == [World EXCEPT !.client.buf = Drop(@, len), !.socks.sending = 0,
                           !.pcb = IF client.client_closed THEN @ ELSE tcp_recved(@, len)]
    IN  /\ Runs({"inAccept", "inRecv"}) /\ len \in 1..socks.sending
        /\ Becomes(IF w.client.buf # <<>> THEN client_send_to_socks(w)
                   ELSE IF client.client_closed THEN client_free_socks(w)
                   ELSE w)
        /\ hist' = [hist EXCEPT !.toSocks = @ \o SubSeq(client.buf, 1, len)]
        /\ UNCHANGED <<pc, seg>>

client_socks_recv_handler_done(len, n, out) ==
    LET got == [World EXCEPT !.socks.receiving = FALSE]
        w == [got EXCEPT !.client.rbuf = Bytes(hist.down, len)]
        v == client_socks_recv_send_out(w, n, out)
    IN  /\ Runs({"inAccept", "inSent"}) /\ socks.receiving
        /\ hist.down + len <= MaxDown
        /\ n \in Writable(w)
        /\ hist' = [hist EXCEPT !.down = @ + len,
                                !.appEnded = @ \/ (~client.client_closed /\ SendOutAborts(w, n, out))]
        /\ Becomes(IF client.client_closed THEN got
                   ELSE IF SendOutAborts(w, n, out) \/ v.client.rbuf # <<>> THEN v
                   ELSE client_socks_recv_initiate(v))
        /\ UNCHANGED <<pc, seg>>

\* main on its way out: the clients are murdered, lwIP's remaining pcbs go with the process.
Terminate ==
    /\ pc = "idle" /\ client.alloc
    /\ Becomes([client_murder(World) EXCEPT !.pcb = FreedPcb])
    /\ hist' = [hist EXCEPT !.appEnded = TRUE, !.socksEnded = TRUE]
    /\ UNCHANGED <<pc, seg>>

-----------------------------------------------------------------------------
LwipNext ==
    \/ Syn \/ AcceptFails \/ AcceptReturns
    \/ \E n \in 0..MaxUp, fin \in BOOLEAN : listener_accept_func(n, fin)
    \/ \E k \in 0..TCP_SND_BUF, ackfin \in BOOLEAN, n \in 0..MaxUp, fin \in BOOLEAN :
            tcp_input(k, ackfin, n, fin)
    \/ SentStage \/ InSentReturns \/ DataStage \/ InRecvReturns \/ FinStage
    \/ Rst \/ tcp_slowtmr

SocksNext ==
    \/ \E event \in Handshake \cup {"UP", "ERROR"} : client_socks_handler(event)
    \/ SocksError \/ SocksClosed
    \/ \E len \in 1..TCP_WND : client_socks_send_handler_done(len)
    \/ \E len \in 1..RECV_BUF, n \in 0..TCP_SND_BUF, out \in BOOLEAN :
            client_socks_recv_handler_done(len, n, out)

Next == LwipNext \/ SocksNext \/ Terminate

Spec == Init /\ [][Next]_vars

\* tcp_input runs to its end; the proxy answers, takes what it is sent, or fails; the app acknowledges
\* or tcp_slowtmr gives it up, however many other segments come in between.
InputStep == AcceptReturns \/ SentStage \/ InSentReturns \/ DataStage \/ InRecvReturns \/ FinStage
SocksAnswers ==
    \/ \E event \in Handshake \cup {"UP", "ERROR"} : client_socks_handler(event)
    \/ \E len \in 1..TCP_WND : client_socks_send_handler_done(len)
    \/ SocksError
AppAnswers == (\E k \in 1..TCP_SND_BUF : tcp_input(k, FALSE, 0, FALSE)) \/ tcp_slowtmr

FairSpec == Spec /\ WF_vars(InputStep) /\ WF_vars(SocksAnswers) /\ SF_vars(AppAnswers)

-----------------------------------------------------------------------------
(* Properties *)

Open == client.alloc /\ ~client.client_closed

\* lwIP never calls back into a tcp_client that was freed or has let go of its pcb, and a client that
\* has not let go of it owns a live pcb it may write to, close or abort: the callbacks on the pcb are
\* exactly those the state of the client calls for ("this callback is removed when SOCKS is closed").
CallbacksLive ==
    /\ Open => pcb.state \in {"ESTABLISHED", "CLOSE_WAIT"} /\ ~pcb.rxclosed /\ ~pcb.tf_closed
    /\ pcb.err <=> Open
    /\ pcb.recv <=> Open /\ ~client.socks_closed
    /\ pcb.sent <=> Open /\ client.socks_up

\* tcp_input never goes on with a pcb that a callback freed: the callback knows, from badvpn__dead,
\* that tcp_abort was called, even when the client was freed right after ("Return ERR_ABRT if and only
\* if tcp_abort was called from this callback").
AbortIsReturned ==
    /\ pc \in {"sent", "data", "fin"} => pcb.state # "FREED"
    /\ pc \in Callbacks => (dead = "aborted" <=> pcb.state = "FREED")

\* The receive window never promises more than client->buf can take: "no buffer for data !?!" is not
\* reached, and lwIP never holds refused data.
NoRefusal == ~pcb.refused

\* A client always waits for something that will happen: bytes for the proxy are being sent, bytes for
\* the app that found no room wait behind bytes the app has yet to acknowledge (else client_sent_func
\* never runs again), a receive is pending when there is room, and a half that has ended leaves the
\* client allocated only for data of the other half.
NoStall ==
    client.alloc =>
        /\ client.socks_up /\ ~client.socks_closed /\ client.buf # <<>> => socks.sending > 0
        /\ Open /\ client.rbuf # <<>> => client.tcp_pending > 0
        /\ Open /\ client.socks_up /\ ~client.socks_closed /\ client.rbuf = <<>> => socks.receiving
        /\ client.client_closed => ~client.socks_closed /\ client.buf # <<>>
        /\ client.socks_closed => client.rbuf # <<>> \/ client.tcp_pending > 0

\* Neither stream loses, repeats or reorders a byte, across partial sends and partial writes.
StreamsInOrder ==
    /\ client.alloc => hist.toSocks \o client.buf = Bytes(0, hist.up)
    /\ Open => hist.toApp \o pcb.sndq \o client.rbuf = Bytes(0, hist.down)

\* A client is freed with bytes of the app undelivered only when the SOCKS connection failed or closed:
\* an app that sends and closes, even before SOCKS is up, has everything passed on.
UpstreamComplete ==
    [][client.alloc /\ ~client'.alloc /\ ~hist'.socksEnded => hist'.toSocks = Bytes(0, hist'.up)]_vars

\* A client is freed with bytes of the server unacknowledged only when the app closed or was lost: a
\* server that sends and closes has everything it sent, and that was read, delivered.
DownstreamComplete ==
    [][client.alloc /\ ~client'.alloc /\ ~hist'.appEnded => hist'.toApp = Bytes(0, hist'.down)]_vars

\* Once either half has ended, the client is freed: client_free_socks and client_handle_freed_client
\* wait for data of the other half, but not for ever.
ClientEnds == (client.alloc /\ (client.client_closed \/ client.socks_closed)) ~> ~client.alloc
=============================================================================
