----------------------- MODULE Tun2socksClientProofs -----------------------
(***************************************************************************)
(* A connection through tun2socks is safe for every size of the windows    *)
(* and buffers, and every number of bytes. The functions that end a        *)
(* connection are dealt with first, each by what comes out of it (the      *)
(* Outcome lemmas) and by the invariant that then holds (the Keeps         *)
(* lemmas); then the bytes of a stream; then one lemma per step.           *)
(***************************************************************************)
EXTENDS Tun2socksClient, SequenceTheorems, TLAPS

\* What the functions of tun2socks.c work on.
Worlds == [client : Client, pcb : Pcb, socks : Socks, dead : {"null", "no", "aborted", "freed"}]

-----------------------------------------------------------------------------
(* The inductive invariant, on what client (c), pcb (p), socks (s), dead    *)
(* (d), pc (at), seg (g) and hist (h) hold.                                 *)

IsOpen(c) == c.alloc /\ ~c.client_closed

\* A pcb that is freed, or that waits for its handshake, is as it was made; tcp_input has marked the
\* pcb it works on; and nothing was refused.
PcbInv(p, at) ==
    /\ p.state = "FREED" => p = FreedPcb
    /\ p.state = "SYN_RCVD" => p = tcp_listen_input /\ at = "idle"
    /\ p.input <=> at # "idle" /\ p.state # "FREED"
    /\ p.tf_closed => at # "idle"
    /\ ~p.refused

\* CallbacksLive.
OwnInv(c, p) ==
    /\ IsOpen(c) => p.state \in {"ESTABLISHED", "CLOSE_WAIT"} /\ ~p.rxclosed /\ ~p.tf_closed
    /\ p.err <=> IsOpen(c)
    /\ p.recv <=> IsOpen(c) /\ ~c.socks_closed
    /\ p.sent <=> IsOpen(c) /\ c.socks_up

\* The SOCKS connection lives as long as the client says so, and sends what the buffer holds.
SocksInv(c, s) ==
    /\ ~c.alloc => c = NoClient /\ s = NoSocks
    /\ c.alloc => /\ s.state = "FREED" <=> c.socks_closed
                  /\ s.state = "UP" <=> c.socks_up /\ ~c.socks_closed
    /\ s.state # "UP" => s.sending = 0 /\ ~s.receiving
    /\ s.sending <= Len(c.buf)

\* AbortIsReturned, and what of the client remains once badvpn__dead is set.
DeadInv(c, p, d, at) ==
    /\ c.aborted => c.client_closed /\ p.state = "FREED"
    /\ at \in Callbacks <=> d # "null"
    /\ at \in {"sent", "data", "fin"} => p.state # "FREED"
    /\ at \in Callbacks => (d = "aborted" <=> p.state = "FREED")
    /\ d = "freed" => ~c.alloc
    /\ d = "aborted" /\ c.alloc => c.aborted

CtlInv(c, p, s, d, at) == PcbInv(p, at) /\ OwnInv(c, p) /\ SocksInv(c, s) /\ DeadInv(c, p, d, at)

\* NoStall, and that data is received only when all before it is queued.
StallInv(c, s) ==
    c.alloc =>
        /\ c.socks_up /\ ~c.socks_closed /\ c.buf # <<>> => s.sending > 0
        /\ IsOpen(c) /\ c.rbuf # <<>> => c.tcp_pending > 0
        /\ IsOpen(c) /\ c.socks_up /\ ~c.socks_closed => (s.receiving <=> c.rbuf = <<>>)
        /\ c.client_closed => ~c.socks_closed /\ c.buf # <<>>
        /\ c.socks_closed => c.socks_up /\ (c.rbuf # <<>> \/ c.tcp_pending > 0)

\* Acknowledged bytes that client_sent_func has yet to hear of, and bytes of the segment that
\* client_recv_func has yet to get.
InFlight(at, g) == IF at = "sent" THEN g.acked ELSE 0
Unhanded(at, g) == IF at \in {"sent", "inSent", "data"} THEN Len(g.data) ELSE 0

\* The client counts what lwIP has queued, and the window leaves room for all that may still come.
QueueInv(c, p, at, g) ==
    IsOpen(c) =>
        /\ Len(p.sndq) <= TCP_SND_BUF
        /\ c.tcp_pending = Len(p.sndq) + InFlight(at, g)
        /\ ~c.socks_up => c.tcp_pending = 0 /\ c.rbuf = <<>>
        /\ ~c.socks_closed => p.rcv_wnd + Len(c.buf) + Unhanded(at, g) <= TCP_WND

\* StreamsInOrder, and that the segment brings the bytes that come next.
ByteInv(c, p, at, g, h) ==
    /\ c.alloc => h.toSocks \o c.buf = Bytes(0, h.up)
    /\ IsOpen(c) => h.toApp \o p.sndq \o c.rbuf = Bytes(0, h.down)
    /\ IsOpen(c) /\ at \in {"sent", "inSent", "data"} => g.data = Bytes(h.up, Len(g.data))
    /\ at = "inAccept" => h.up = 0 /\ g.data = Bytes(0, Len(g.data))
    /\ p.state = "SYN_RCVD" => ~c.alloc /\ h = NoHist

\* Who has ended the connection is on record.
EndInv(c, h) ==
    c.alloc => (c.socks_closed => h.socksEnded) /\ (c.client_closed => h.appEnded)

Inv(c, p, s, d, at, g, h) ==
    /\ CtlInv(c, p, s, d, at)
    /\ StallInv(c, s)
    /\ QueueInv(c, p, at, g)
    /\ ByteInv(c, p, at, g, h)
    /\ EndInv(c, h)

IInv == TypeOK /\ Inv(client, pcb, socks, dead, pc, seg, hist)

-----------------------------------------------------------------------------
\* Memory given back to the pool is a pcb in state FREED.
LEMMA FreedTyped == FreedPcb \in Pcb
BY WindowAssumption DEF FreedPcb, Pcb, PcbStates

\* The empty sequence, for the provers.
LEMMA Nothing == <<>> \in Seq(Nat) /\ Len(<<>>) = 0
OBVIOUS

\* The state without a client is of the right type.
LEMMA NobodyTyped == NoClient \in Client /\ NoSocks \in Socks
<1>1. PICK none \in Seq(Nat) : none = <<>>
  BY Nothing, Zenon
<1>2. NoClient \in Client
  BY <1>1 DEF NoClient, Client
<1>3. NoSocks \in Socks
  BY DEF NoSocks, Socks
<1> QED BY <1>2, <1>3

\* tcp_close on a pcb without callbacks: it ends in a closing state, in TIME_WAIT or in the pool, and
\* while tcp_input works on the pcb it only marks it for tcp_input_delayed_close.
LEMMA CloseFacts ==
    ASSUME NEW p \in Pcb, p.state \in {"ESTABLISHED", "CLOSE_WAIT"}, ~p.refused,
           NEW q, q = tcp_close(RemoveCallbacks(p))
    PROVE  /\ q \in Pcb
           /\ ~q.err /\ ~q.recv /\ ~q.sent /\ ~q.refused
           /\ q.state = "FREED" => q = FreedPcb
           /\ q.state # "SYN_RCVD"
           /\ q.input <=> p.input /\ q.state # "FREED"
           /\ p.input => q.state # "FREED"
           /\ ~p.input => (q.tf_closed => p.tf_closed)
<1> DEFINE r == [RemoveCallbacks(p) EXCEPT !.rxclosed = TRUE]
<1>1. /\ r \in Pcb /\ ~r.err /\ ~r.recv /\ ~r.sent /\ ~r.refused
      /\ r.state = p.state /\ r.input = p.input /\ r.tf_closed = p.tf_closed
  BY Zenon DEF Pcb, RemoveCallbacks
<1>2. q = tcp_close_shutdown(r)
  BY DEF tcp_close
<1> HIDE DEF r
<1> PICK none \in Seq(Nat) : none = <<>>
  BY Nothing, Zenon
<1>3. CASE q = tcp_close_reset(r)
  <2>1. CASE r.state = "ESTABLISHED"
    <3>1. q = [r EXCEPT !.state = "TIME_WAIT", !.sndq = none, !.refused = FALSE]
      BY <1>3, <2>1 DEF tcp_close_reset
    <3>2. q \in Pcb
      BY <1>1, <3>1, Zenon DEF Pcb, PcbStates
    <3> QED BY <1>1, <3>1, <3>2 DEF Pcb
  <2>2. CASE r.state = "CLOSE_WAIT"
    <3>1. CASE r.input
      <4>1. q = [r EXCEPT !.sndq = none, !.refused = FALSE, !.tf_closed = TRUE]
        BY <1>3, <2>2, <3>1 DEF tcp_close_reset
      <4>2. q \in Pcb
        BY <1>1, <4>1, Zenon DEF Pcb
      <4> QED BY <1>1, <2>2, <3>1, <4>1, <4>2 DEF Pcb
    <3>2. CASE ~r.input
      BY <1>1, <1>3, <2>2, <3>2, FreedTyped DEF tcp_close_reset, FreedPcb
    <3> QED BY <3>1, <3>2
  <2> QED BY <1>1, <2>1, <2>2
<1>4. CASE q = tcp_close_shutdown_fin(r)
  <2>1. CASE r.state = "ESTABLISHED"
    BY <1>1, <1>4, <2>1, ZenonT(30) DEF tcp_close_shutdown_fin, Pcb, PcbStates
  <2>2. CASE r.state = "CLOSE_WAIT"
    BY <1>1, <1>4, <2>2, ZenonT(30) DEF tcp_close_shutdown_fin, Pcb, PcbStates
  <2> QED BY <1>1, <2>1, <2>2
<1> QED BY <1>2, <1>3, <1>4 DEF tcp_close_shutdown

-----------------------------------------------------------------------------
\* What badvpn__dead becomes when the client is freed.
Killed(w) == IF w.client.aborted \/ w.dead = "null" THEN w.dead ELSE "freed"

\* client_dealloc frees the client and tells the callback that runs, unless tcp_abort has already.
LEMMA DeallocOutcome ==
    ASSUME NEW w \in Worlds, NEW v, v = client_dealloc(w)
    PROVE  /\ v \in Worlds
           /\ v.client = NoClient /\ v.pcb = w.pcb /\ v.socks = w.socks /\ v.dead = Killed(w)
<1>1. CASE w.client.aborted
  BY <1>1, NobodyTyped DEF client_dealloc, Killed, Worlds
<1>2. CASE ~w.client.aborted
  BY <1>2, NobodyTyped, Zenon DEF client_dealloc, Killed, Worlds, DEAD_KILL_WITH
<1> QED BY <1>1, <1>2

\* client_free_socks either lets the client wait for the app to acknowledge, or frees it.
SocksOver(w, v) ==
    LET c == w.client
        waits == c.socks_up /\ (c.rbuf # <<>> \/ c.tcp_pending > 0) /\ ~c.client_closed
    IN  /\ v.socks = NoSocks
        /\ waits => /\ v.client = [c EXCEPT !.socks_closed = TRUE]
                    /\ v.pcb = [w.pcb EXCEPT !.recv = FALSE] /\ v.dead = w.dead
        /\ ~waits => /\ v.client = NoClient /\ v.dead = Killed(w)
                     /\ v.pcb = IF c.client_closed THEN w.pcb ELSE tcp_close(RemoveCallbacks(w.pcb))

\* client_free_socks does what SocksOver says when the client still owns a pcb it may close, or none.
LEMMA FreeSocksOutcome ==
    ASSUME NEW w \in Worlds, NEW v, v = client_free_socks(w),
           ~w.client.client_closed => w.pcb.state \in {"ESTABLISHED", "CLOSE_WAIT"} /\ ~w.pcb.refused
    PROVE  v \in Worlds /\ SocksOver(w, v)
<1> DEFINE c == w.client
           kept == w.pcb.recv /\ ~(c.socks_up /\ ~c.client_closed)
           freed == [w EXCEPT !.socks = NoSocks, !.client.socks_closed = TRUE, !.pcb.recv = kept]
           waits == c.socks_up /\ (c.rbuf # <<>> \/ c.tcp_pending > 0) /\ ~c.client_closed
<1>1. c \in Client /\ w.pcb \in Pcb /\ kept \in BOOLEAN
  BY DEF Worlds, Client, Pcb
<1>2. /\ freed \in Worlds
      /\ freed.client = [c EXCEPT !.socks_closed = TRUE] /\ freed.pcb = [w.pcb EXCEPT !.recv = kept]
      /\ freed.socks = NoSocks /\ freed.dead = w.dead /\ freed.client.aborted = c.aborted
  BY <1>1, NobodyTyped, Zenon DEF Worlds, Client, Pcb
<1>3. v = IF waits THEN freed ELSE client_dealloc(IF c.client_closed THEN freed ELSE ClosePcb(freed))
  BY DEF client_free_socks
<1> HIDE DEF freed
<1>4. CASE waits
  BY <1>1, <1>2, <1>3, <1>4, Zenon DEF SocksOver
<1>5. CASE ~waits /\ c.client_closed
  <2>1. v = client_dealloc(freed) /\ kept = w.pcb.recv
    BY <1>1, <1>3, <1>5 DEF Client, Pcb
  <2>2. freed.pcb = w.pcb
    BY <1>1, <1>2, <2>1 DEF Pcb
  <2>3. Killed(freed) = Killed(w)
    BY <1>2 DEF Killed
  <2>4. v \in Worlds /\ v.client = NoClient /\ v.pcb = w.pcb /\ v.socks = NoSocks /\ v.dead = Killed(w)
    BY <1>2, <2>1, <2>2, <2>3, DeallocOutcome
  <2> QED BY <1>5, <2>4 DEF SocksOver
<1>6. CASE ~waits /\ ~c.client_closed
  <2> DEFINE q == tcp_close(RemoveCallbacks(w.pcb))
  <2>1. RemoveCallbacks(freed.pcb) = RemoveCallbacks(w.pcb)
    BY <1>1, <1>2, Zenon DEF Pcb, RemoveCallbacks
  <2>2. q \in Pcb
    BY <1>1, <1>6, CloseFacts
  <2> HIDE DEF q
  <2>3. ClosePcb(freed) = [freed EXCEPT !.pcb = q, !.client.client_closed = TRUE]
    BY <2>1 DEF ClosePcb, q
  <2> DEFINE u == ClosePcb(freed)
  <2>4. freed.client \in Client
    BY <1>2, Zenon DEF Worlds
  <2> HIDE DEF u
  <2>5. u \in Worlds /\ u.pcb = q /\ u.socks = NoSocks /\ u.dead = w.dead /\ u.client.aborted = c.aborted
    <3>1. u = [freed EXCEPT !.pcb = q, !.client = [freed.client EXCEPT !.client_closed = TRUE]]
      BY <1>2, <2>3, Zenon DEF Worlds, u
    <3>2. [freed.client EXCEPT !.client_closed = TRUE] \in Client
      BY <2>4, Zenon DEF Client
    <3>3. u.client.aborted = freed.client.aborted
      BY <1>2, <2>4, <3>1, Zenon DEF Worlds, Client
    <3> QED BY <1>2, <2>2, <3>1, <3>2, <3>3, Zenon DEF Worlds
  <2>6. v = client_dealloc(u) /\ Killed(u) = Killed(w)
    BY <1>3, <1>6, <2>5 DEF Killed, u
  <2>7. v \in Worlds /\ v.client = NoClient /\ v.pcb = q /\ v.socks = NoSocks /\ v.dead = Killed(w)
    BY <2>5, <2>6, DeallocOutcome
  <2> QED BY <1>6, <2>7 DEF SocksOver, q
<1> QED BY <1>4, <1>5, <1>6

\* client_handle_freed_client either lets the client wait for the proxy to take what is in the
\* buffer, or frees it. q and aborted: the pcb, and whether it was aborted.
ClientOver(w, v, q, aborted) ==
    LET c == w.client
        waits == c.buf # <<>> /\ ~c.socks_closed
    IN  /\ v.pcb = q
        /\ waits => /\ v.client = [c EXCEPT !.client_closed = TRUE, !.aborted = aborted]
                    /\ v.socks = w.socks
                    /\ v.dead = IF aborted /\ w.dead # "null" THEN "aborted" ELSE w.dead
        /\ ~waits => /\ v.client = NoClient
                     /\ v.socks = IF c.socks_closed THEN w.socks ELSE NoSocks
                     /\ v.dead = IF w.dead = "null" THEN "null"
                                  ELSE IF aborted THEN "aborted" ELSE "freed"

\* client_handle_freed_client does what ClientOver says, with the pcb as it finds it.
LEMMA HandleFreedOutcome ==
    ASSUME NEW w \in Worlds, NEW v, v = client_handle_freed_client(w),
           w.client.aborted /\ w.dead # "null" => w.dead = "aborted"
    PROVE  v \in Worlds /\ ClientOver(w, v, w.pcb, w.client.aborted)
<1> DEFINE c == w.client
           closed == [w EXCEPT !.client.client_closed = TRUE]
<1>1. c \in Client
  BY DEF Worlds
<1>2. /\ closed \in Worlds /\ closed.client = [c EXCEPT !.client_closed = TRUE]
      /\ closed.client.client_closed /\ closed.client.aborted = c.aborted
      /\ closed.pcb = w.pcb /\ closed.socks = w.socks /\ closed.dead = w.dead
  BY <1>1, Zenon DEF Worlds, Client
<1>3. v = IF c.buf # <<>> /\ ~c.socks_closed THEN closed
          ELSE IF ~c.socks_closed THEN client_free_socks(closed)
          ELSE client_dealloc(closed)
  BY DEF client_handle_freed_client
<1> HIDE DEF closed
<1>4. CASE c.buf # <<>> /\ ~c.socks_closed
  <2>1. [c EXCEPT !.client_closed = TRUE] = [c EXCEPT !.client_closed = TRUE, !.aborted = c.aborted]
    BY <1>1, Zenon DEF Client
  <2> QED BY <1>2, <1>3, <1>4, <2>1 DEF ClientOver
<1>5. CASE c.buf = <<>> /\ ~c.socks_closed
  <2>1. v \in Worlds /\ SocksOver(closed, v)
    BY <1>2, <1>3, <1>5, FreeSocksOutcome, Zenon
  <2> QED BY <1>2, <1>5, <2>1 DEF SocksOver, ClientOver, Killed
<1>6. CASE c.socks_closed
  <2>1. /\ v \in Worlds /\ v.client = NoClient /\ v.pcb = closed.pcb /\ v.socks = closed.socks
        /\ v.dead = Killed(closed)
    BY <1>2, <1>3, <1>6, DeallocOutcome
  <2> QED BY <1>2, <1>6, <2>1 DEF ClientOver, Killed
<1> QED BY <1>4, <1>5, <1>6

\* client_free_client closes the pcb, and the client waits for the proxy or is freed.
LEMMA FreeClientOutcome ==
    ASSUME NEW w \in Worlds, NEW v, v = client_free_client(w), ~w.client.aborted,
           w.pcb.state \in {"ESTABLISHED", "CLOSE_WAIT"} /\ ~w.pcb.refused
    PROVE  v \in Worlds /\ ClientOver(w, v, tcp_close(RemoveCallbacks(w.pcb)), FALSE)
<1> DEFINE q == tcp_close(RemoveCallbacks(w.pcb))
           u == ClosePcb(w)
<1>1. w.client \in Client /\ q \in Pcb
  BY CloseFacts DEF Worlds
<1>2. u = [w EXCEPT !.pcb = q, !.client.client_closed = TRUE]
  BY DEF ClosePcb
<1> HIDE DEF q, u
<1>3. /\ u \in Worlds /\ u.client = [w.client EXCEPT !.client_closed = TRUE] /\ u.pcb = q
      /\ u.socks = w.socks /\ u.dead = w.dead
  BY <1>1, <1>2, Zenon DEF Worlds, Client
<1>4. /\ u.client.aborted = FALSE /\ u.client.buf = w.client.buf
      /\ u.client.socks_closed = w.client.socks_closed
      /\ [u.client EXCEPT !.client_closed = TRUE, !.aborted = FALSE]
            = [w.client EXCEPT !.client_closed = TRUE, !.aborted = FALSE]
  BY <1>1, <1>3, Zenon DEF Client
<1>5. v = client_handle_freed_client(u)
  BY DEF client_free_client, u
<1>6. v \in Worlds /\ ClientOver(u, v, u.pcb, u.client.aborted)
  BY <1>3, <1>4, <1>5, HandleFreedOutcome, Zenon
<1> QED BY <1>3, <1>4, <1>6, ZenonT(30) DEF ClientOver, q

\* client_abort_client gives the pcb up, and the callback that runs hears of tcp_abort and not of what
\* follows it.
LEMMA AbortClientOutcome ==
    ASSUME NEW w \in Worlds, NEW v, v = client_abort_client(w)
    PROVE  v \in Worlds /\ ClientOver(w, v, FreedPcb, TRUE)
<1> DEFINE u == client_abort_pcb([w EXCEPT !.pcb = RemoveCallbacks(@)])
<1>1. w.client \in Client
  BY DEF Worlds
<1>2. /\ u \in Worlds /\ u.client = [w.client EXCEPT !.aborted = TRUE] /\ u.pcb = FreedPcb
      /\ u.socks = w.socks /\ u.dead = IF w.dead = "null" THEN "null" ELSE "aborted"
  BY <1>1, FreedTyped, Zenon DEF Worlds, Client, client_abort_pcb, DEAD_KILL_WITH, tcp_abort
<1> HIDE DEF u
<1>3. /\ u.client.aborted = TRUE /\ u.client.buf = w.client.buf
      /\ u.client.socks_closed = w.client.socks_closed
      /\ [u.client EXCEPT !.client_closed = TRUE, !.aborted = TRUE]
            = [w.client EXCEPT !.client_closed = TRUE, !.aborted = TRUE]
  BY <1>1, <1>2, Zenon DEF Client
<1>4. v = client_handle_freed_client(u)
  BY DEF client_abort_client, u
<1>5. v \in Worlds /\ ClientOver(u, v, u.pcb, u.client.aborted)
  BY <1>2, <1>3, <1>4, HandleFreedOutcome, Zenon
<1> QED BY <1>2, <1>3, <1>5 DEF ClientOver

\* client_err_func: lwIP has freed the pcb already.
LEMMA ErrOutcome ==
    ASSUME NEW w \in Worlds, NEW v, v = client_err_func(w), ~w.client.aborted
    PROVE  v \in Worlds /\ ClientOver(w, v, FreedPcb, FALSE)
<1> DEFINE u == [w EXCEPT !.pcb = FreedPcb]
<1>1. u \in Worlds /\ u.client = w.client /\ u.pcb = FreedPcb /\ u.socks = w.socks /\ u.dead = w.dead
  BY FreedTyped DEF Worlds
<1>2. u.client.aborted = FALSE
  BY <1>1 DEF Worlds, Client
<1> HIDE DEF u
<1>3. v = client_handle_freed_client(u)
  BY DEF client_err_func, u
<1>4. v \in Worlds /\ ClientOver(u, v, u.pcb, u.client.aborted)
  BY <1>1, <1>2, <1>3, HandleFreedOutcome
<1> QED BY <1>1, <1>2, <1>4, Zenon DEF ClientOver

-----------------------------------------------------------------------------
\* Without a client nothing is asked but that the pcb has no callbacks left.
LEMMA NobodyLeft ==
    ASSUME NEW p \in Pcb, NEW d, NEW at, NEW g, NEW h,
           PcbInv(p, at), ~p.err, ~p.recv, ~p.sent,
           DeadInv(NoClient, p, d, at), p.state # "SYN_RCVD",
           at = "inAccept" => h.up = 0 /\ g.data = Bytes(0, Len(g.data))
    PROVE  Inv(NoClient, p, NoSocks, d, at, g, h)
<1>1. ~NoClient.alloc /\ NoClient.buf = <<>>
  BY DEF NoClient
<1>2. OwnInv(NoClient, p)
  BY <1>1 DEF OwnInv, IsOpen
<1>3. SocksInv(NoClient, NoSocks)
  BY <1>1 DEF SocksInv, NoSocks
<1>4. StallInv(NoClient, NoSocks) /\ QueueInv(NoClient, p, at, g) /\ EndInv(NoClient, h)
  BY <1>1 DEF StallInv, QueueInv, EndInv, IsOpen
<1>5. ByteInv(NoClient, p, at, g, h)
  BY <1>1, Zenon DEF ByteInv, IsOpen
<1> QED BY <1>2, <1>3, <1>4, <1>5 DEF Inv, CtlInv

\* The invariant after client_free_socks, in a callback or outside of one.
LEMMA FreeSocksKeeps ==
    ASSUME NEW w \in Worlds, NEW at \in {"idle"} \cup Callbacks, NEW g \in Segment, NEW h \in Hist,
           NEW v, v = client_free_socks(w), w.client.alloc,
           CtlInv(w.client, w.pcb, w.socks, w.dead, at), QueueInv(w.client, w.pcb, at, g),
           ByteInv(w.client, w.pcb, at, g, h), EndInv(w.client, h), h.socksEnded \/ w.client.client_closed,
           IsOpen(w.client) /\ w.client.rbuf # <<>> => w.client.tcp_pending > 0
    PROVE  v \in Worlds /\ SocksOver(w, v) /\ Inv(v.client, v.pcb, v.socks, v.dead, at, g, h)
<1> DEFINE c == w.client
           p == w.pcb
           waits == c.socks_up /\ (c.rbuf # <<>> \/ c.tcp_pending > 0) /\ ~c.client_closed
<1>1. c \in Client /\ p \in Pcb /\ w.socks \in Socks /\ w.dead \in {"null", "no", "aborted", "freed"}
  BY DEF Worlds
<1>2. v \in Worlds /\ SocksOver(w, v)
  BY FreeSocksOutcome DEF CtlInv, OwnInv, PcbInv, IsOpen
<1>3. v.socks = NoSocks
  BY <1>2 DEF SocksOver
<1>4. CASE waits
  <2>1. v.client = [c EXCEPT !.socks_closed = TRUE] /\ v.pcb = [p EXCEPT !.recv = FALSE] /\ v.dead = w.dead
    BY <1>2, <1>4 DEF SocksOver
  <2>2. IsOpen(c) /\ p.state \in {"ESTABLISHED", "CLOSE_WAIT"} /\ c.alloc
    BY <1>4 DEF IsOpen, CtlInv, OwnInv
  <2>3. /\ v.client.alloc = c.alloc /\ v.client.aborted = c.aborted /\ v.client.client_closed = c.client_closed
        /\ v.client.buf = c.buf /\ v.client.rbuf = c.rbuf /\ v.client.tcp_pending = c.tcp_pending
        /\ v.client.socks_up = c.socks_up /\ v.client.socks_closed
    BY <1>1, <2>1, Zenon DEF Client
  <2>4. /\ v.pcb.state = p.state /\ v.pcb.rcv_wnd = p.rcv_wnd /\ v.pcb.rxclosed = p.rxclosed
        /\ v.pcb.err = p.err /\ ~v.pcb.recv /\ v.pcb.sent = p.sent /\ v.pcb.sndq = p.sndq
        /\ v.pcb.refused = p.refused /\ v.pcb.input = p.input /\ v.pcb.tf_closed = p.tf_closed
    BY <1>1, <2>1 DEF Pcb
  <2>5. IsOpen(v.client)
    BY <2>2, <2>3 DEF IsOpen
  <2>6. PcbInv(v.pcb, at)
    BY <2>2, <2>4 DEF CtlInv, PcbInv
  <2>7. OwnInv(v.client, v.pcb)
    BY <2>2, <2>3, <2>4, <2>5 DEF CtlInv, OwnInv
  <2>8. SocksInv(v.client, v.socks)
    BY <1>1, <1>3, <2>2, <2>3 DEF SocksInv, NoSocks, Client
  <2>9. DeadInv(v.client, v.pcb, v.dead, at)
    BY <2>1, <2>3, <2>4 DEF CtlInv, DeadInv
  <2>10. StallInv(v.client, v.socks)
    BY <1>4, <2>2, <2>3 DEF StallInv, IsOpen
  <2>11. QueueInv(v.client, v.pcb, at, g)
    BY <2>2, <2>3, <2>4 DEF QueueInv
  <2>12. ByteInv(v.client, v.pcb, at, g, h)
    BY <2>2, <2>3, <2>4, Zenon DEF ByteInv
  <2>13. EndInv(v.client, h)
    BY <1>4, <2>3 DEF EndInv
  <2> QED BY <1>2, <2>6, <2>7, <2>8, <2>9, <2>10, <2>11, <2>12, <2>13 DEF Inv, CtlInv
<1>5. CASE ~waits
  <2>1. /\ v.client = NoClient /\ v.dead = Killed(w)
        /\ v.pcb = IF c.client_closed THEN p ELSE tcp_close(RemoveCallbacks(p))
    BY <1>2, <1>5 DEF SocksOver
  <2>2. /\ v.pcb \in Pcb /\ PcbInv(v.pcb, at) /\ ~v.pcb.err /\ ~v.pcb.recv /\ ~v.pcb.sent
        /\ v.pcb.state # "SYN_RCVD"
        /\ v.pcb.state = "FREED" => (c.client_closed /\ p.state = "FREED") \/ at = "idle"
        /\ p.state = "FREED" => v.pcb.state = "FREED"
    <3>1. CASE c.client_closed
      BY <1>1, <2>1, <3>1 DEF CtlInv, OwnInv, IsOpen, ByteInv
    <3>2. CASE ~c.client_closed
      <4>1. p.state \in {"ESTABLISHED", "CLOSE_WAIT"} /\ ~p.refused /\ ~p.tf_closed /\ (p.input <=> at # "idle")
        BY <3>2 DEF CtlInv, OwnInv, PcbInv, IsOpen
      <4>2. v.pcb = tcp_close(RemoveCallbacks(p))
        BY <2>1, <3>2
      <4> HIDE DEF p
      <4>3. /\ v.pcb \in Pcb
            /\ ~v.pcb.err /\ ~v.pcb.recv /\ ~v.pcb.sent /\ ~v.pcb.refused
            /\ v.pcb.state = "FREED" => v.pcb = FreedPcb
            /\ v.pcb.state # "SYN_RCVD"
            /\ v.pcb.input <=> p.input /\ v.pcb.state # "FREED"
            /\ p.input => v.pcb.state # "FREED"
            /\ ~p.input => (v.pcb.tf_closed => p.tf_closed)
        BY <1>1, <4>1, <4>2, CloseFacts
      <4> QED BY <4>1, <4>3 DEF PcbInv
    <3> QED BY <3>1, <3>2
  <2>3. DeadInv(NoClient, v.pcb, v.dead, at)
    <3>1. ~NoClient.aborted /\ ~NoClient.alloc
      BY DEF NoClient
    <3>2. CASE at = "idle"
      BY <1>1, <2>1, <3>1, <3>2 DEF CtlInv, DeadInv, Callbacks, Killed
    <3>3. CASE at \in Callbacks
      <4>1. v.dead # "null" /\ w.dead # "null"
        BY <2>1, <3>3 DEF CtlInv, DeadInv, Killed
      <4>2. v.dead = "aborted" <=> v.pcb.state = "FREED"
        <5>1. CASE c.aborted
          BY <2>1, <2>2, <3>3, <5>1 DEF CtlInv, DeadInv, Killed
        <5>2. CASE ~c.aborted
          BY <2>1, <2>2, <3>3, <4>1, <5>2 DEF CtlInv, DeadInv, Killed, Callbacks
        <5> QED BY <5>1, <5>2
      <4> QED BY <3>1, <3>3, <4>1, <4>2 DEF DeadInv, Callbacks
    <3> QED BY <3>2, <3>3
  <2>4. at = "inAccept" => h.up = 0 /\ g.data = Bytes(0, Len(g.data))
    BY DEF ByteInv
  <2> QED BY <1>2, <1>3, <2>1, <2>2, <2>3, <2>4, NobodyLeft
<1> QED BY <1>4, <1>5

\* The invariant after the client has let go of its pcb, which is q from then on.
LEMMA ClientOverKeeps ==
    ASSUME NEW w \in Worlds, NEW v \in Worlds, NEW q \in Pcb, NEW aborted \in BOOLEAN,
           NEW at, NEW g \in Segment, NEW h \in Hist,
           ClientOver(w, v, q, aborted), IsOpen(w.client),
           SocksInv(w.client, w.socks), DeadInv(w.client, w.pcb, w.dead, at), w.pcb.state # "FREED",
           PcbInv(q, at), ~q.err, ~q.recv, ~q.sent, q.state # "SYN_RCVD",
           aborted => q.state = "FREED",
           at \in {"sent", "data", "fin"} => q.state # "FREED",
           at \in Callbacks => (aborted <=> q.state = "FREED"),
           w.client.socks_up /\ ~w.client.socks_closed /\ w.client.buf # <<>> => w.socks.sending > 0,
           h.toSocks \o w.client.buf = Bytes(0, h.up),
           at = "inAccept" => h.up = 0 /\ g.data = Bytes(0, Len(g.data)),
           h.appEnded \/ w.client.socks_closed
    PROVE  Inv(v.client, v.pcb, v.socks, v.dead, at, g, h)
<1> DEFINE c == w.client
           waits == c.buf # <<>> /\ ~c.socks_closed
<1>1. c \in Client /\ w.socks \in Socks /\ w.dead \in {"null", "no", "aborted", "freed"}
  BY DEF Worlds
<1>2. v.pcb = q
  BY DEF ClientOver
<1>3. w.dead # "freed" /\ w.dead # "aborted" /\ (at \in Callbacks <=> w.dead # "null")
  BY DEF DeadInv, IsOpen
<1>4. CASE waits
  <2>1. /\ v.client = [c EXCEPT !.client_closed = TRUE, !.aborted = aborted] /\ v.socks = w.socks
        /\ v.dead = IF aborted /\ w.dead # "null" THEN "aborted" ELSE w.dead
    BY <1>4 DEF ClientOver
  <2>2. /\ v.client.alloc /\ v.client.client_closed /\ v.client.aborted = aborted
        /\ v.client.buf = c.buf /\ v.client.socks_up = c.socks_up /\ v.client.socks_closed = c.socks_closed
    BY <1>1, <2>1 DEF Client, IsOpen
  <2>3. ~IsOpen(v.client)
    BY <2>2 DEF IsOpen
  <2>4. OwnInv(v.client, q)
    BY <2>3 DEF OwnInv
  <2>5. SocksInv(v.client, v.socks)
    BY <2>1, <2>2 DEF SocksInv, IsOpen
  <2>6. DeadInv(v.client, q, v.dead, at)
    BY <1>1, <1>3, <2>1, <2>2 DEF DeadInv
  <2>7. StallInv(v.client, v.socks)
    BY <1>4, <2>1, <2>2, <2>3 DEF StallInv
  <2>8. QueueInv(v.client, q, at, g)
    BY <2>3 DEF QueueInv
  <2>9. ByteInv(v.client, q, at, g, h)
    BY <2>2, <2>3, Zenon DEF ByteInv
  <2>10. EndInv(v.client, h)
    BY <1>4, <2>2 DEF EndInv
  <2> QED BY <1>2, <2>4, <2>5, <2>6, <2>7, <2>8, <2>9, <2>10 DEF Inv, CtlInv
<1>5. CASE ~waits
  <2>1. /\ v.client = NoClient /\ v.socks = IF c.socks_closed THEN w.socks ELSE NoSocks
        /\ v.dead = IF w.dead = "null" THEN "null" ELSE IF aborted THEN "aborted" ELSE "freed"
    BY <1>5 DEF ClientOver
  <2>2. v.socks = NoSocks
    BY <1>1, <2>1, Zenon DEF SocksInv, IsOpen, Socks, NoSocks
  <2>3. DeadInv(NoClient, q, v.dead, at)
    BY <1>3, <2>1 DEF DeadInv, NoClient
  <2> QED BY <1>2, <2>1, <2>2, <2>3, NobodyLeft
<1> QED BY <1>4, <1>5

-----------------------------------------------------------------------------
(* The bytes of a stream.                                                   *)

\* Bytes(a, n) are the n bytes of a stream that follow the first a.
LEMMA BytesProperties ==
    ASSUME NEW a \in Nat, NEW n \in Nat
    PROVE  /\ Bytes(a, n) \in Seq(Nat) /\ Len(Bytes(a, n)) = n
           /\ \A i \in 1..n : Bytes(a, n)[i] = a + i
BY DEF Bytes

\* The first m of the next n bytes are the next m bytes.
LEMMA BytesSplit ==
    ASSUME NEW a \in Nat, NEW n \in Nat, NEW m \in 0..n
    PROVE  SubSeq(Bytes(a, n), 1, m) = Bytes(a, m)
BY DEF Bytes

\* The first n bytes and the m bytes after them are the first n + m bytes.
LEMMA BytesJoin ==
    ASSUME NEW n \in Nat, NEW m \in Nat
    PROVE  Bytes(0, n) \o Bytes(n, m) = Bytes(0, n + m)
<1> DEFINE x == Bytes(0, n)
           y == Bytes(n, m)
           z == Bytes(0, n + m)
<1>1. /\ x \in Seq(Nat) /\ Len(x) = n /\ \A i \in 1..n : x[i] = i
      /\ y \in Seq(Nat) /\ Len(y) = m /\ \A i \in 1..m : y[i] = n + i
      /\ z \in Seq(Nat) /\ Len(z) = n + m /\ \A i \in 1..(n + m) : z[i] = i
  BY BytesProperties, 0 \in Nat, n + m \in Nat DEF Bytes
<1> HIDE DEF x, y, z
<1>2. /\ x \o y \in Seq(Nat) /\ Len(x \o y) = n + m
      /\ \A i \in 1..(n + m) : (x \o y)[i] = IF i <= n THEN x[i] ELSE y[i - n]
  <2>1. /\ x \o y \in Seq(Nat) /\ Len(x \o y) = Len(x) + Len(y)
        /\ \A i \in 1..Len(x) + Len(y) : (x \o y)[i] = IF i <= Len(x) THEN x[i] ELSE y[i - Len(x)]
    BY <1>1, SMTT(30), Z3T(30)
  <2> QED BY <1>1, <2>1, Zenon
<1>3. ASSUME NEW i \in 1..(n + m) PROVE (x \o y)[i] = z[i]
  <2>1. CASE i <= n
    BY <1>1, <1>2, <2>1
  <2>2. CASE i > n
    <3>1. i - n \in 1..m
      BY <2>2
    <3>2. (x \o y)[i] = y[i - n]
      BY <1>2, <2>2
    <3>3. y[i - n] = n + (i - n) /\ z[i] = i
      BY <1>1, <3>1, Zenon
    <3>4. n + (i - n) = i
      OBVIOUS
    <3> QED BY <3>2, <3>3, <3>4, Zenon
  <2>3. i <= n \/ i > n
    OBVIOUS
  <2> QED BY <2>1, <2>2, <2>3, Zenon
<1>4. x \o y = z
  <2>1. x \o y \in Seq(Nat) /\ Len(x \o y) = Len(z) /\ \A i \in 1..Len(x \o y) : (x \o y)[i] = z[i]
    BY <1>1, <1>2, <1>3, Zenon
  <2> QED BY <1>1, <2>1, SeqEqual, Zenon
<1> QED BY <1>4 DEF x, y, z

\* What is taken off the front of a queue and what stays.
LEMMA Cut ==
    ASSUME NEW t \in Seq(Nat), NEW n \in 0..Len(t)
    PROVE  /\ SubSeq(t, 1, n) \in Seq(Nat) /\ Len(SubSeq(t, 1, n)) = n
           /\ Drop(t, n) \in Seq(Nat) /\ Len(Drop(t, n)) = Len(t) - n
           /\ SubSeq(t, 1, n) \o Drop(t, n) = t
<1>1. /\ SubSeq(t, 1, n) \in Seq(Nat) /\ Len(SubSeq(t, 1, n)) = n
      /\ Drop(t, n) \in Seq(Nat) /\ Len(Drop(t, n)) = Len(t) - n
  BY DEF Drop
<1>2. 1 \in 1..Len(t) + 1 /\ n \in 1 - 1..Len(t) /\ Len(t) \in n..Len(t)
  OBVIOUS
<1>3. SubSeq(t, 1, n) \o SubSeq(t, n + 1, Len(t)) = SubSeq(t, 1, Len(t))
  BY <1>2, ConcatAdjacentSubSeq, Zenon
<1>4. SubSeq(t, 1, Len(t)) = t
  BY SubSeqFull, Zenon
<1> QED BY <1>1, <1>3, <1>4, Zenon DEF Drop

\* Concatenation is associative.
LEMMA Regroup ==
    ASSUME NEW a \in Seq(Nat), NEW b \in Seq(Nat), NEW c \in Seq(Nat)
    PROVE  (a \o b) \o c = a \o (b \o c)
BY ConcatAssociative, SMTT(30), Z3T(30)

\* The length of a concatenation.
LEMMA Joined ==
    ASSUME NEW a \in Seq(Nat), NEW b \in Seq(Nat)
    PROVE  a \o b \in Seq(Nat) /\ Len(a \o b) = Len(a) + Len(b)
OBVIOUS

\* Taking n bytes off the front of t and appending them to r loses nothing.
LEMMA MoveOn ==
    ASSUME NEW r \in Seq(Nat), NEW t \in Seq(Nat), NEW n \in 0..Len(t)
    PROVE  (r \o SubSeq(t, 1, n)) \o Drop(t, n) = r \o t
<1> DEFINE x == SubSeq(t, 1, n)
           y == Drop(t, n)
<1>1. x \in Seq(Nat) /\ y \in Seq(Nat) /\ x \o y = t
  BY Cut
<1> HIDE DEF x, y
<1>2. (r \o x) \o y = r \o (x \o y)
  BY <1>1, Regroup, ZenonT(30)
<1>3. (r \o x) \o y = r \o t
  BY <1>1, <1>2, Zenon
<1> QED BY <1>3, Zenon DEF x, y

\* Appending nothing changes nothing.
LEMMA NothingMore ==
    ASSUME NEW a \in Seq(Nat)
    PROVE  a \o <<>> = a
BY ConcatEmptySeq, Zenon

\* Bytes go from the SOCKS receive buffer to lwIP's queue, and from there to the app.
LEMMA Queued ==
    ASSUME NEW t \in Seq(Nat), NEW q \in Seq(Nat), NEW r \in Seq(Nat), NEW n \in 0..Len(r)
    PROVE  t \o (q \o SubSeq(r, 1, n)) \o Drop(r, n) = t \o q \o r
<1> DEFINE x == SubSeq(r, 1, n)
           y == Drop(r, n)
<1>1. x \in Seq(Nat) /\ y \in Seq(Nat) /\ t \o q \in Seq(Nat)
  BY Cut, Joined
<1>2. ((t \o q) \o x) \o y = (t \o q) \o r
  BY <1>1, MoveOn, Zenon
<1> HIDE DEF x, y
<1>3. t \o (q \o x) = (t \o q) \o x
  BY <1>1, Regroup, ZenonT(30)
<1>4. t \o (q \o x) \o y = t \o q \o r
  BY <1>2, <1>3, Zenon
<1> QED BY <1>4, Zenon DEF x, y

\* A stream that has nothing left in between has arrived.
LEMMA UpDone ==
    ASSUME NEW c \in Client, NEW h \in Hist, h.toSocks \o c.buf = Bytes(0, h.up), c.buf = <<>>
    PROVE  h.toSocks = Bytes(0, h.up)
<1>1. h.toSocks \in Seq(Nat)
  BY DEF Hist
<1> QED BY <1>1, NothingMore, Zenon

\* The same for the server's bytes, with lwIP's queue in between.
LEMMA DownDone ==
    ASSUME NEW c \in Client, NEW p \in Pcb, NEW h \in Hist,
           h.toApp \o p.sndq \o c.rbuf = Bytes(0, h.down), c.rbuf = <<>>, Len(p.sndq) = 0
    PROVE  h.toApp = Bytes(0, h.down)
<1>1. h.toApp \in Seq(Nat) /\ p.sndq \in Seq(Nat)
  BY DEF Hist, Pcb
<1>2. p.sndq = <<>>
  BY <1>1
<1>3. h.toApp \o p.sndq = h.toApp
  BY <1>1, <1>2, NothingMore, Zenon
<1> QED BY <1>1, <1>3, NothingMore, Zenon

-----------------------------------------------------------------------------
\* client_socks_recv_send_out queues n bytes and, unless that fails, leaves it at that.
QueuedOut(w, n) ==
    [client |-> [w.client EXCEPT !.rbuf = Drop(w.client.rbuf, n),
                                 !.tcp_pending = w.client.tcp_pending + n],
     pcb    |-> [w.pcb EXCEPT !.sndq = w.pcb.sndq \o SubSeq(w.client.rbuf, 1, n)],
     socks  |-> w.socks,
     dead   |-> w.dead]

\* client_socks_recv_send_out queues what was written, and aborts the client if that can never be
\* followed by an acknowledgement or if tcp_output fails.
LEMMA SendOutOutcome ==
    ASSUME NEW w \in Worlds, NEW n \in 0..Len(w.client.rbuf), NEW out,
           NEW v, v = client_socks_recv_send_out(w, n, out)
    PROVE  /\ QueuedOut(w, n) \in Worlds
           /\ SendOutAborts(w, n, out) => v \in Worlds /\ ClientOver(QueuedOut(w, n), v, FreedPcb, TRUE)
           /\ ~SendOutAborts(w, n, out) => v = QueuedOut(w, n)
<1> DEFINE rest == Drop(w.client.rbuf, n)
           part == SubSeq(w.client.rbuf, 1, n)
           sndq == w.pcb.sndq \o part
           u == [w EXCEPT !.pcb.sndq = sndq, !.client.rbuf = rest,
                          !.client.tcp_pending = w.client.tcp_pending + n]
<1>1. w.client \in Client /\ w.pcb \in Pcb /\ w.client.rbuf \in Seq(Nat) /\ w.pcb.sndq \in Seq(Nat)
  BY DEF Worlds, Client, Pcb
<1>2. rest \in Seq(Nat) /\ part \in Seq(Nat)
  BY <1>1, Cut, SMTT(30), Z3T(30)
<1> HIDE DEF rest, part
<1>3. sndq \in Seq(Nat)
  BY <1>1, <1>2, Joined
<1> HIDE DEF sndq
<1>4. w.client.tcp_pending + n \in Nat
  BY <1>1 DEF Client
<1>5. /\ u \in Worlds
      /\ u.client = [w.client EXCEPT !.rbuf = rest, !.tcp_pending = w.client.tcp_pending + n]
      /\ u.pcb = [w.pcb EXCEPT !.sndq = sndq] /\ u.socks = w.socks /\ u.dead = w.dead
  BY <1>1, <1>2, <1>3, <1>4, Zenon DEF Worlds, Client, Pcb
<1>6. v = IF SendOutAborts(w, n, out) THEN client_abort_client(u) ELSE u
  BY DEF client_socks_recv_send_out, sndq, part, rest
<1> HIDE DEF u
<1>7. SendOutAborts(w, n, out) => v \in Worlds /\ ClientOver(u, v, FreedPcb, TRUE)
  BY <1>5, <1>6, AbortClientOutcome, Zenon
<1>8. ~SendOutAborts(w, n, out) => v = u
  BY <1>6
<1>9. u = [client |-> u.client, pcb |-> u.pcb, socks |-> u.socks, dead |-> u.dead]
  BY <1>5 DEF Worlds
<1>10. u = QueuedOut(w, n)
  BY <1>5, <1>9 DEF QueuedOut, sndq, part, rest
<1> QED BY <1>5, <1>7, <1>8, <1>10, Zenon

\* client_send_to_socks hands the whole buffer to the send interface.
LEMMA SendToSocks ==
    ASSUME NEW w \in Worlds, NEW v, v = client_send_to_socks(w)
    PROVE  /\ v \in Worlds /\ v.client = w.client /\ v.pcb = w.pcb /\ v.dead = w.dead
           /\ v.socks = [w.socks EXCEPT !.sending = Len(w.client.buf)]
<1>1. w.client \in Client /\ w.socks \in Socks /\ Len(w.client.buf) \in Nat
  BY DEF Worlds, Client
<1>2. [w.socks EXCEPT !.sending = Len(w.client.buf)] \in Socks
  BY <1>1 DEF Socks
<1> QED BY <1>2 DEF client_send_to_socks, Worlds

\* client_socks_recv_initiate only starts a receive.
LEMMA RecvInitiate ==
    ASSUME NEW w \in Worlds, NEW v, v = client_socks_recv_initiate(w)
    PROVE  /\ v \in Worlds /\ v.client = w.client /\ v.pcb = w.pcb /\ v.dead = w.dead
           /\ v.socks = [w.socks EXCEPT !.receiving = TRUE]
<1>1. w.socks \in Socks /\ [w.socks EXCEPT !.receiving = TRUE] \in Socks
  BY Zenon DEF Worlds, Socks
<1> QED BY <1>1, Zenon DEF client_socks_recv_initiate, Worlds

\* What tcp_receive makes of the bytes from b on, and a FIN: m bytes are passed on, and the window
\* closes by as much at least.
Received(p, b, a, m, x) ==
    /\ a.data = Bytes(b, m) /\ a.data \in Seq(Nat) /\ Len(a.data) = m /\ a.fin \in BOOLEAN
    /\ x + m <= p.rcv_wnd
    /\ tcp_receive(p, a) = [p EXCEPT !.rcv_wnd = x]

\* tcp_receive takes what fits into the window, and no more.
LEMMA ReceiveOutcome ==
    ASSUME NEW p \in Pcb, NEW b \in Nat, NEW n \in Nat, NEW fin \in BOOLEAN,
           NEW a, a = Accepted(p, Bytes(b, n), fin)
    PROVE  \E m \in Nat, x \in 0..TCP_WND : Received(p, b, a, m, x)
<1> DEFINE room == IF p.state \in {"ESTABLISHED", "FIN_WAIT_1", "FIN_WAIT_2"} THEN p.rcv_wnd ELSE 0
           m == Min(n, room)
           x == p.rcv_wnd - m - (IF a.fin THEN 1 ELSE 0)
<1>1. room \in 0..TCP_WND /\ room <= p.rcv_wnd /\ p.rcv_wnd \in 0..TCP_WND /\ TCP_WND \in Nat
  BY WindowAssumption DEF Pcb
<1>2. m \in 0..n /\ m <= room /\ (n < room => m < room)
  BY <1>1 DEF Min
<1>3. a.data = Bytes(b, m) /\ a.fin = (fin /\ n < room)
  <2>1. Len(Bytes(b, n)) = n
    BY BytesProperties
  <2>2. a.data = SubSeq(Bytes(b, n), 1, m) /\ a.fin = (fin /\ n < room)
    BY <2>1, Zenon DEF Accepted
  <2> QED BY <1>2, <2>2, BytesSplit, Zenon
<1> HIDE DEF m
<1>4. m \in Nat /\ Bytes(b, m) \in Seq(Nat) /\ Len(Bytes(b, m)) = m
  <2>1. m \in Nat
    BY <1>2
  <2> QED BY <2>1, BytesProperties, Zenon
<1>5. a.fin \in BOOLEAN /\ (a.fin => n < room)
  BY <1>3, Zenon
<1>6. x \in 0..TCP_WND /\ x + m <= p.rcv_wnd
  BY <1>1, <1>2, <1>5
<1>7. tcp_receive(p, a) = [p EXCEPT !.rcv_wnd = x]
  BY <1>3, <1>4 DEF tcp_receive
<1> HIDE DEF x
<1>8. Received(p, b, a, m, x)
  BY <1>3, <1>4, <1>5, <1>6, <1>7, Zenon DEF Received
<1> QED BY <1>4, <1>6, <1>8, Zenon

-----------------------------------------------------------------------------
(* The steps. While lwIP works on a pcb no client owns, only the pcb        *)
(* matters.                                                                 *)

\* When no client owns the pcb, whatever lwIP does to it keeps the invariant as long as it sets no
\* callback and tells a pcb it still works on from one it has freed.
LEMMA PcbAlone ==
    ASSUME NEW c, NEW p, NEW s, NEW d, NEW at, NEW g, NEW h, Inv(c, p, s, d, at, g, h), ~IsOpen(c),
           NEW q \in Pcb, NEW to, NEW f, NEW j, j.toSocks = h.toSocks, j.up = h.up,
           j.socksEnded = h.socksEnded, j.appEnded = h.appEnded,
           PcbInv(q, to), ~q.err, ~q.recv, ~q.sent, q.state # "SYN_RCVD",
           NEW e, DeadInv(c, q, e, to), to # "inAccept"
    PROVE  Inv(c, q, s, e, to, f, j)
<1>1. OwnInv(c, q)
  BY DEF OwnInv
<1>2. SocksInv(c, s) /\ StallInv(c, s)
  BY DEF Inv, CtlInv
<1>3. QueueInv(c, q, to, f)
  BY DEF QueueInv
<1>4. ByteInv(c, q, to, f, j)
  BY Zenon DEF Inv, ByteInv
<1>5. EndInv(c, j)
  BY DEF Inv, EndInv
<1> QED BY <1>1, <1>2, <1>3, <1>4, <1>5 DEF Inv, CtlInv

\* World is the state the functions of tun2socks.c start from.
LEMMA WorldTyped ==
    ASSUME TypeOK
    PROVE  /\ World \in Worlds /\ World.client = client /\ World.pcb = pcb
           /\ World.socks = socks /\ World.dead = dead
BY DEF TypeOK, World, Worlds

\* UpstreamComplete and DownstreamComplete, of one step.
UpStep == client.alloc /\ ~client'.alloc /\ ~hist'.socksEnded => hist'.toSocks = Bytes(0, hist'.up)
DownStep == client.alloc /\ ~client'.alloc /\ ~hist'.appEnded => hist'.toApp = Bytes(0, hist'.down)

\* A SYN takes a new pcb from the pool.
LEMMA SynStep == ASSUME IInv, Syn PROVE IInv' /\ UpStep /\ DownStep
<1>1. /\ pc = "idle" /\ pcb.state = "FREED" /\ ~client.alloc /\ pcb' = tcp_listen_input /\ hist' = NoHist
      /\ client' = client /\ socks' = socks /\ pc' = pc /\ seg' = seg /\ dead' = dead
  BY DEF Syn
<1>2. TypeOK'
  <2>1. PICK none \in Seq(Nat) : none = <<>>
    BY Nothing, Zenon
  <2>2. NoHist \in Hist
    BY <2>1 DEF NoHist, Hist
  <2>3. tcp_listen_input \in Pcb
    BY FreedTyped DEF tcp_listen_input, Pcb, PcbStates
  <2> QED BY <1>1, <2>2, <2>3 DEF IInv, TypeOK
<1>3. /\ tcp_listen_input.state = "SYN_RCVD" /\ ~tcp_listen_input.err /\ ~tcp_listen_input.recv
      /\ ~tcp_listen_input.sent /\ ~tcp_listen_input.refused /\ ~tcp_listen_input.input
      /\ ~tcp_listen_input.tf_closed
  BY DEF tcp_listen_input, FreedPcb
<1>4. ~IsOpen(client)
  BY <1>1 DEF IsOpen
<1>5. PcbInv(pcb', pc') /\ OwnInv(client', pcb')
  BY <1>1, <1>3, <1>4 DEF PcbInv, OwnInv
<1>6. SocksInv(client', socks') /\ StallInv(client', socks')
  BY <1>1 DEF IInv, Inv, CtlInv
<1>7. DeadInv(client', pcb', dead', pc')
  BY <1>1, <1>3 DEF IInv, Inv, CtlInv, DeadInv, SocksInv, NoClient, Callbacks
<1>8. QueueInv(client', pcb', pc', seg') /\ ByteInv(client', pcb', pc', seg', hist') /\ EndInv(client', hist')
  BY <1>1, <1>4, Zenon DEF QueueInv, ByteInv, EndInv
<1>9. Inv(client', pcb', socks', dead', pc', seg', hist')
  BY <1>5, <1>6, <1>7, <1>8 DEF Inv, CtlInv
<1>10. UpStep /\ DownStep
  BY <1>1 DEF UpStep, DownStep
<1> QED BY <1>2, <1>9, <1>10 DEF IInv

\* A connection tun2socks cannot take is aborted before there is a client.
LEMMA AcceptFailsStep == ASSUME IInv, AcceptFails PROVE IInv' /\ UpStep /\ DownStep
<1>1. /\ pc = "idle" /\ pcb.state = "SYN_RCVD" /\ pcb' = FreedPcb
      /\ client' = client /\ socks' = socks /\ pc' = pc /\ seg' = seg /\ dead' = dead /\ hist' = hist
  BY DEF AcceptFails, tcp_abort
<1>2. TypeOK'
  BY <1>1, FreedTyped DEF IInv, TypeOK
<1>3. ~client.alloc /\ ~IsOpen(client)
  BY <1>1 DEF IInv, Inv, ByteInv, IsOpen
<1>4. PcbInv(FreedPcb, "idle") /\ ~FreedPcb.err /\ ~FreedPcb.recv /\ ~FreedPcb.sent /\ FreedPcb.state = "FREED"
  BY DEF PcbInv, FreedPcb
<1>5. DeadInv(client, FreedPcb, dead, "idle")
  BY <1>1, <1>4 DEF IInv, Inv, CtlInv, DeadInv, Callbacks
<1>6. Inv(client, FreedPcb, socks, dead, "idle", seg, hist)
  BY <1>3, <1>4, <1>5, FreedTyped, PcbAlone DEF IInv
<1>7. UpStep /\ DownStep
  BY <1>1, <1>3 DEF UpStep, DownStep
<1> QED BY <1>1, <1>2, <1>6, <1>7 DEF IInv

\* listener_accept_func starts with empty buffers, a full window and the bytes of the first segment
\* still to come.
LEMMA AcceptStep ==
    ASSUME IInv, NEW n \in 0..MaxUp, NEW fin \in BOOLEAN, listener_accept_func(n, fin)
    PROVE  IInv' /\ UpStep /\ DownStep
<1>1. /\ pc = "idle" /\ pcb.state = "SYN_RCVD"
      /\ pcb' = [pcb EXCEPT !.state = "ESTABLISHED", !.input = TRUE, !.err = TRUE, !.recv = TRUE]
      /\ client' = [NoClient EXCEPT !.alloc = TRUE] /\ socks' = [NoSocks EXCEPT !.state = "CONNECTING"]
      /\ dead' = "no" /\ pc' = "inAccept" /\ hist' = hist
      /\ seg' = [acked |-> 0, data |-> Bytes(0, n), fin |-> fin]
  BY DEF listener_accept_func
<1>2. ~client.alloc /\ hist = NoHist /\ pcb = tcp_listen_input
  BY <1>1 DEF IInv, Inv, ByteInv, CtlInv, PcbInv
<1>3. n \in Nat /\ Bytes(0, n) \in Seq(Nat) /\ Len(Bytes(0, n)) = n
  <2>1. n \in Nat
    BY SizeAssumption
  <2> QED BY <2>1, BytesProperties, Zenon
<1>4. seg' \in Segment /\ seg'.data = Bytes(0, n) /\ seg'.acked = 0
  BY <1>1, <1>3, Zenon DEF Segment
<1>5. /\ client' \in Client /\ client'.alloc /\ ~client'.aborted /\ ~client'.client_closed
      /\ client'.buf = <<>> /\ ~client'.socks_up /\ ~client'.socks_closed /\ client'.rbuf = <<>>
      /\ client'.tcp_pending = 0
  BY <1>1, NobodyTyped, Zenon DEF Client, NoClient
<1>6. socks' \in Socks /\ socks'.state = "CONNECTING" /\ socks'.sending = 0 /\ ~socks'.receiving
  BY <1>1, NobodyTyped, Zenon DEF Socks, NoSocks, Handshake
<1>7. /\ pcb' \in Pcb /\ pcb'.state = "ESTABLISHED" /\ pcb'.input /\ pcb'.err /\ pcb'.recv /\ ~pcb'.sent
      /\ ~pcb'.refused /\ ~pcb'.tf_closed /\ ~pcb'.rxclosed /\ pcb'.sndq = <<>> /\ pcb'.rcv_wnd = TCP_WND
  BY <1>1, <1>2, ZenonT(30) DEF IInv, TypeOK, Pcb, PcbStates, tcp_listen_input, FreedPcb
<1>8. TypeOK'
  BY <1>1, <1>4, <1>5, <1>6, <1>7 DEF IInv, TypeOK, Callbacks
<1>9. IsOpen(client')
  BY <1>5 DEF IsOpen
<1>10. PcbInv(pcb', pc') /\ OwnInv(client', pcb')
  BY <1>1, <1>5, <1>7, <1>9 DEF PcbInv, OwnInv
<1>11. SocksInv(client', socks')
  BY <1>5, <1>6 DEF SocksInv
<1>12. DeadInv(client', pcb', dead', pc')
  BY <1>1, <1>5, <1>7 DEF DeadInv, Callbacks
<1>13. StallInv(client', socks') /\ EndInv(client', hist')
  BY <1>5 DEF StallInv, EndInv
<1>14. QueueInv(client', pcb', pc', seg')
  BY <1>1, <1>5, <1>7, WindowAssumption DEF QueueInv, InFlight, Unhanded
<1>15. ByteInv(client', pcb', pc', seg', hist')
  <2>1. /\ hist'.toSocks = <<>> /\ hist'.toApp = <<>> /\ hist'.up = 0 /\ hist'.down = 0
    BY <1>1, <1>2 DEF NoHist
  <2>2. Bytes(0, 0) = <<>>
    BY DEF Bytes
  <2>3. <<>> \o <<>> = <<>>
    BY Nothing, NothingMore, Zenon
  <2>4. hist'.toSocks \o client'.buf = Bytes(0, hist'.up)
    BY <1>5, <2>1, <2>2, <2>3, Zenon
  <2>5. hist'.toApp \o pcb'.sndq \o client'.rbuf = Bytes(0, hist'.down)
    BY <1>5, <1>7, <2>1, <2>2, <2>3, Zenon
  <2>6. seg'.data = Bytes(0, Len(seg'.data))
    BY <1>3, <1>4, Zenon
  <2> QED BY <1>1, <1>7, <2>1, <2>4, <2>5, <2>6, Zenon DEF ByteInv
<1>16. Inv(client', pcb', socks', dead', pc', seg', hist')
  BY <1>10, <1>11, <1>12, <1>13, <1>14, <1>15 DEF Inv, CtlInv
<1>17. UpStep /\ DownStep
  BY <1>2 DEF UpStep, DownStep
<1> QED BY <1>8, <1>16, <1>17 DEF IInv

\* The SOCKS connection fails or closes; the client stays for the app's acknowledgements if there are
\* any to come, and otherwise the server's bytes have all arrived.
LEMMA SocksEndsStep ==
    ASSUME IInv, pc \in {"idle"} \cup Callbacks, socks.state # "FREED", SocksEnds, UNCHANGED <<pc, seg>>
    PROVE  IInv' /\ UpStep /\ DownStep
<1> DEFINE v == client_free_socks(World)
           h == [hist EXCEPT !.socksEnded = TRUE]
<1>1. /\ client' = v.client /\ pcb' = v.pcb /\ socks' = v.socks /\ dead' = v.dead
      /\ hist' = h /\ pc' = pc /\ seg' = seg
  BY DEF SocksEnds, Becomes
<1>2. client.alloc
  BY DEF IInv, Inv, CtlInv, SocksInv, NoSocks
<1>3. /\ h \in Hist /\ h.up = hist.up /\ h.down = hist.down /\ h.toSocks = hist.toSocks /\ h.toApp = hist.toApp
      /\ h.appEnded = hist.appEnded /\ h.socksEnded
  BY Zenon DEF IInv, TypeOK, Hist
<1> HIDE DEF h
<1>4. ByteInv(client, pcb, pc, seg, h) /\ EndInv(client, h)
  BY <1>2, <1>3, Zenon DEF IInv, Inv, ByteInv, EndInv
<1>5. /\ World \in Worlds /\ World.client = client /\ World.pcb = pcb
      /\ World.socks = socks /\ World.dead = dead
  BY WorldTyped DEF IInv
<1>6. IsOpen(client) /\ client.rbuf # <<>> => client.tcp_pending > 0
  BY <1>2 DEF IInv, Inv, StallInv
<1>7. seg \in Segment
  BY SMTT(30), Z3T(30) DEF IInv, TypeOK
<1>8. v \in Worlds /\ SocksOver(World, v) /\ Inv(v.client, v.pcb, v.socks, v.dead, pc, seg, h)
  BY <1>2, <1>3, <1>4, <1>5, <1>6, <1>7, FreeSocksKeeps DEF IInv, Inv
<1> HIDE DEF v
<1>9. TypeOK'
  BY <1>1, <1>3, <1>8 DEF IInv, TypeOK, Worlds
<1>10. UpStep
  BY <1>1, <1>3 DEF UpStep
<1>11. DownStep
  <2> SUFFICES ASSUME ~client'.alloc, ~h.appEnded PROVE h.toApp = Bytes(0, h.down)
    BY <1>1 DEF DownStep
  <2>1. ~client.client_closed /\ IsOpen(client)
    BY <1>2, <1>3 DEF IInv, Inv, EndInv, IsOpen
  <2>2. ~(client.socks_up /\ (client.rbuf # <<>> \/ client.tcp_pending > 0))
    <3>1. SUFFICES ASSUME client.socks_up /\ (client.rbuf # <<>> \/ client.tcp_pending > 0) PROVE FALSE
      OBVIOUS
    <3>2. client' = [client EXCEPT !.socks_closed = TRUE]
      BY <1>1, <1>5, <1>8, <2>1, <3>1 DEF SocksOver
    <3> QED BY <1>2, <3>2 DEF IInv, TypeOK, Client
  <2>3. client.tcp_pending = Len(pcb.sndq) + InFlight(pc, seg) /\ InFlight(pc, seg) = 0
    BY <2>1 DEF IInv, Inv, QueueInv, InFlight, Callbacks
  <2>4. client \in Client /\ pcb \in Pcb /\ client.tcp_pending \in Nat /\ Len(pcb.sndq) \in Nat
    BY DEF IInv, TypeOK, Client, Pcb
  <2>5. client.tcp_pending = 0 /\ client.rbuf = <<>>
    BY <2>1, <2>2, <2>4 DEF IInv, Inv, QueueInv
  <2>6. Len(pcb.sndq) = 0
    BY <2>3, <2>4, <2>5
  <2>7. h.toApp \o pcb.sndq \o client.rbuf = Bytes(0, h.down)
    BY <1>4, <2>1, Zenon DEF ByteInv
  <2> QED BY <1>3, <2>4, <2>5, <2>6, <2>7, DownDone, Zenon
<1> QED BY <1>1, <1>8, <1>9, <1>10, <1>11 DEF IInv

\* A pcb in the pool has no callbacks and fits any place of tcp_input.
LEMMA FreedFacts ==
    /\ FreedPcb \in Pcb /\ FreedPcb.state = "FREED"
    /\ ~FreedPcb.err /\ ~FreedPcb.recv /\ ~FreedPcb.sent
    /\ \A at : PcbInv(FreedPcb, at)
<1>1. /\ FreedPcb.state = "FREED" /\ ~FreedPcb.err /\ ~FreedPcb.recv /\ ~FreedPcb.sent
      /\ ~FreedPcb.input /\ ~FreedPcb.tf_closed /\ ~FreedPcb.refused
  BY DEF FreedPcb
<1> QED BY <1>1, FreedTyped DEF PcbInv

\* A reset or a timeout takes the pcb; the client stays for the proxy if the app has sent anything it
\* has not taken.
LEMMA PcbLostStep == ASSUME IInv, pc = "idle", PcbLost PROVE IInv' /\ UpStep /\ DownStep
<1>1. pc' = pc /\ seg' = seg
  BY DEF PcbLost
<1>2. /\ World \in Worlds /\ World.client = client /\ World.pcb = pcb
      /\ World.socks = socks /\ World.dead = dead
  BY WorldTyped DEF IInv
<1>3. pcb.err <=> IsOpen(client)
  BY DEF IInv, Inv, CtlInv, OwnInv
<1>4. CASE pcb.err
  <2> DEFINE v == client_err_func(World)
             h == [hist EXCEPT !.appEnded = TRUE]
  <2>1. client' = v.client /\ pcb' = v.pcb /\ socks' = v.socks /\ dead' = v.dead /\ hist' = h
    BY <1>4, Zenon DEF PcbLost, Becomes, AppEnds, IInv, TypeOK, Hist
  <2>2. IsOpen(client) /\ client.alloc /\ ~client.aborted
    BY <1>3, <1>4 DEF IInv, Inv, CtlInv, DeadInv, IsOpen
  <2>3. v \in Worlds /\ ClientOver(World, v, FreedPcb, FALSE)
    BY <1>2, <2>2, ErrOutcome, Zenon
  <2>4. h \in Hist /\ h.up = hist.up /\ h.toSocks = hist.toSocks /\ h.appEnded
    BY Zenon DEF IInv, TypeOK, Hist
  <2> HIDE DEF v, h
  <2>5. Inv(v.client, v.pcb, v.socks, v.dead, "idle", seg, h)
    <3>1. /\ SocksInv(client, socks) /\ DeadInv(client, pcb, dead, "idle") /\ pcb.state # "FREED"
          /\ client.socks_up /\ ~client.socks_closed /\ client.buf # <<>> => socks.sending > 0
          /\ hist.toSocks \o client.buf = Bytes(0, hist.up)
      BY <2>2, Zenon DEF IInv, Inv, CtlInv, OwnInv, StallInv, ByteInv
    <3>2. seg \in Segment /\ "idle" \notin Callbacks
      BY DEF IInv, TypeOK, Callbacks
    <3> QED BY <1>2, <2>2, <2>3, <2>4, <3>1, <3>2, FreedFacts, ClientOverKeeps, Zenon
  <2>6. TypeOK'
    BY <1>1, <2>1, <2>3, <2>4 DEF IInv, TypeOK, Worlds
  <2>7. DownStep
    BY <2>1, <2>4 DEF DownStep
  <2>8. UpStep
    <3> SUFFICES ASSUME ~client'.alloc, ~h.socksEnded PROVE h.toSocks = Bytes(0, h.up)
      BY <2>1 DEF UpStep
    <3>1. h.socksEnded = hist.socksEnded
      BY DEF h, IInv, TypeOK, Hist
    <3>2. ~client.socks_closed
      BY <2>2, <3>1 DEF IInv, Inv, EndInv
    <3>3. client.buf = <<>>
      <4>1. SUFFICES ASSUME client.buf # <<>> PROVE FALSE
        OBVIOUS
      <4>2. client' = [client EXCEPT !.client_closed = TRUE, !.aborted = FALSE]
        BY <1>2, <2>1, <2>3, <3>2, <4>1 DEF ClientOver
      <4> QED BY <2>2, <4>2 DEF IInv, TypeOK, Client
    <3>4. client \in Client /\ h.toSocks \o client.buf = Bytes(0, h.up)
      BY <2>2, <2>4, Zenon DEF IInv, Inv, ByteInv, TypeOK
    <3> QED BY <2>4, <3>3, <3>4, UpDone
  <2> QED BY <1>1, <2>1, <2>5, <2>6, <2>7, <2>8 DEF IInv
<1>5. CASE ~pcb.err
  <2>1. client' = client /\ pcb' = FreedPcb /\ socks' = socks /\ dead' = dead
    BY <1>2, <1>5, FreedTyped DEF PcbLost, Becomes, Worlds
  <2>2. /\ hist' \in Hist /\ hist'.toSocks = hist.toSocks /\ hist'.up = hist.up
        /\ hist'.socksEnded = hist.socksEnded /\ hist'.appEnded = hist.appEnded
    BY <1>5 DEF PcbLost, AppEnds, IInv, TypeOK, Hist
  <2>3. ~IsOpen(client)
    BY <1>3, <1>5
  <2>4. DeadInv(client, FreedPcb, dead, "idle")
    BY FreedFacts DEF IInv, Inv, CtlInv, DeadInv, Callbacks
  <2>5. Inv(client, FreedPcb, socks, dead, "idle", seg, hist')
    BY <2>2, <2>3, <2>4, FreedFacts, PcbAlone DEF IInv
  <2>6. TypeOK'
    BY <1>1, <2>1, <2>2, FreedTyped DEF IInv, TypeOK
  <2>7. UpStep /\ DownStep
    BY <2>1 DEF UpStep, DownStep
  <2> QED BY <1>1, <2>1, <2>5, <2>6, <2>7 DEF IInv
<1> QED BY <1>4, <1>5

\* client_murder on the way out.
LEMMA TerminateStep == ASSUME IInv, Terminate PROVE IInv' /\ UpStep /\ DownStep
<1> DEFINE v == client_murder(World)
<1>1. pc = "idle" /\ client.alloc /\ pc' = pc /\ seg' = seg
  BY DEF Terminate
<1>2. hist' \in Hist /\ hist'.socksEnded /\ hist'.appEnded
  BY Zenon DEF Terminate, IInv, TypeOK, Hist
<1>3. /\ World \in Worlds /\ World.client = client /\ World.pcb = pcb
      /\ World.socks = socks /\ World.dead = dead
  BY WorldTyped DEF IInv
<1>4. dead = "null"
  BY <1>1 DEF IInv, Inv, CtlInv, DeadInv, Callbacks
<1> DEFINE x == IF client.client_closed THEN World
                ELSE client_abort_pcb([World EXCEPT !.pcb = RemoveCallbacks(@)])
           y == [x EXCEPT !.client.client_closed = TRUE, !.client.socks_closed = TRUE, !.socks = NoSocks]
<1>5. x \in Worlds /\ x.dead = "null"
  <2>1. client \in Client
    BY DEF IInv, TypeOK
  <2>2. CASE client.client_closed
    BY <1>3, <1>4, <2>2
  <2>3. CASE ~client.client_closed
    BY <1>3, <1>4, <2>1, <2>3, FreedTyped, Zenon DEF Worlds, Client, client_abort_pcb, DEAD_KILL_WITH, tcp_abort
  <2> QED BY <2>2, <2>3
<1>6. y \in Worlds /\ y.dead = "null" /\ y.socks = NoSocks
  <2> HIDE DEF x
  <2>1. x.client \in Client
    BY <1>5 DEF Worlds
  <2>2. [x.client EXCEPT !.client_closed = TRUE, !.socks_closed = TRUE] \in Client
    BY <2>1, Zenon DEF Client
  <2>3. y = [x EXCEPT !.client = [x.client EXCEPT !.client_closed = TRUE, !.socks_closed = TRUE], !.socks = NoSocks]
    BY <1>5, <2>1, Zenon DEF Worlds, Client
  <2> QED BY <1>5, <2>2, <2>3, NobodyTyped, Zenon DEF Worlds
<1>7. v = client_dealloc(y)
  BY <1>3 DEF client_murder
<1> HIDE DEF v, x, y
<1>8. v \in Worlds /\ v.client = NoClient /\ v.socks = NoSocks /\ v.dead = "null"
  BY <1>6, <1>7, DeallocOutcome DEF Killed
<1>9. client' = NoClient /\ pcb' = FreedPcb /\ socks' = NoSocks /\ dead' = "null"
  BY <1>8 DEF Terminate, Becomes, Worlds, v
<1>10. TypeOK'
  BY <1>1, <1>2, <1>9, FreedTyped, NobodyTyped DEF IInv, TypeOK
<1>11. DeadInv(NoClient, FreedPcb, "null", "idle")
  BY DEF DeadInv, NoClient, Callbacks
<1>12. Inv(NoClient, FreedPcb, NoSocks, "null", "idle", seg, hist')
  BY <1>11, FreedFacts, NobodyLeft
<1>13. UpStep /\ DownStep
  BY <1>2 DEF UpStep, DownStep
<1> QED BY <1>1, <1>9, <1>10, <1>12, <1>13 DEF IInv

\* The handshake goes on, fails, or ends with the connection up: what the app has sent meanwhile is
\* being sent then, and a receive is pending.
LEMMA HandlerStep ==
    ASSUME IInv, NEW event \in Handshake \cup {"UP", "ERROR"}, client_socks_handler(event)
    PROVE  IInv' /\ UpStep /\ DownStep
<1>1. pc \in {"idle", "inAccept"} /\ socks.state \in Handshake /\ pc' = pc /\ seg' = seg
  BY DEF client_socks_handler, Runs
<1>2. socks.state # "FREED" /\ socks.state # "UP" /\ "UP" \notin Handshake /\ "FREED" \notin Handshake
  BY <1>1 DEF Handshake
<1>3. CASE event = "ERROR"
  BY <1>1, <1>2, <1>3, SocksEndsStep DEF client_socks_handler, Callbacks
<1>4. CASE event # "ERROR"
  <2>1. /\ World \in Worlds /\ World.client = client /\ World.pcb = pcb
        /\ World.socks = socks /\ World.dead = dead
    BY WorldTyped DEF IInv
  <2>2. client \in Client /\ pcb \in Pcb /\ socks \in Socks /\ hist' = hist
    BY <1>4 DEF client_socks_handler, IInv, TypeOK
  <2>3. client.alloc /\ ~client.socks_closed /\ ~client.socks_up /\ socks.sending = 0 /\ ~socks.receiving
    BY <1>2 DEF IInv, Inv, CtlInv, SocksInv, NoSocks
  <2>4. CASE event = "UP"
    <3> DEFINE sending == IF client.buf # <<>> THEN Len(client.buf) ELSE 0
    <3>1. sending \in Nat /\ sending <= Len(client.buf) /\ (client.buf # <<>> => sending > 0)
      BY <2>2 DEF Client
    <3> HIDE DEF sending
    <3>2. /\ client' = [client EXCEPT !.socks_up = TRUE]
          /\ pcb' = [pcb EXCEPT !.sent = pcb.sent \/ ~client.client_closed]
          /\ socks' \in Socks /\ socks'.state = "UP" /\ socks'.sending = sending
          /\ socks'.receiving <=> ~client.client_closed
          /\ dead' = dead
      <4> DEFINE up == [World EXCEPT !.socks.state = "UP", !.client.socks_up = TRUE,
                                     !.pcb.sent = @ \/ ~client.client_closed]
                 sent == IF client.buf # <<>> THEN client_send_to_socks(up) ELSE up
                 v == IF client.client_closed THEN sent ELSE client_socks_recv_initiate(sent)
      <4>1. Becomes(v)
        BY <1>4, <2>1, <2>4 DEF client_socks_handler, SocksUp
      <4>2. /\ up \in Worlds /\ up.client = [client EXCEPT !.socks_up = TRUE] /\ up.dead = dead
            /\ up.pcb = [pcb EXCEPT !.sent = pcb.sent \/ ~client.client_closed]
            /\ up.socks = [socks EXCEPT !.state = "UP"] /\ up.client.buf = client.buf
        BY <2>1, <2>2, Zenon DEF Worlds, Client, Pcb, Socks
      <4> HIDE DEF up
      <4>3. up.socks \in Socks /\ up.socks.state = "UP" /\ up.socks.sending = 0 /\ ~up.socks.receiving
        BY <2>2, <2>3, <4>2 DEF Socks
      <4>4. /\ sent \in Worlds /\ sent.client = up.client /\ sent.pcb = up.pcb /\ sent.dead = dead
            /\ sent.socks \in Socks /\ sent.socks.state = "UP" /\ sent.socks.sending = sending
            /\ ~sent.socks.receiving
        <5>1. CASE client.buf # <<>>
          <6>1. sent \in Worlds /\ sent.client = up.client /\ sent.pcb = up.pcb /\ sent.dead = dead
            BY <4>2, <5>1, SendToSocks, Zenon
          <6>2. sent.socks = [up.socks EXCEPT !.sending = Len(up.client.buf)]
            BY <4>2, <5>1, SendToSocks, ZenonT(30)
          <6>3. Len(up.client.buf) = sending
            BY <4>2, <5>1 DEF sending
          <6> HIDE DEF sent
          <6> QED BY <3>1, <4>3, <6>1, <6>2, <6>3 DEF Socks
        <5>2. CASE client.buf = <<>>
          BY <4>2, <4>3, <5>2, Zenon DEF sending
        <5> QED BY <5>1, <5>2
      <4> HIDE DEF sent
      <4>5. CASE client.client_closed
        BY <2>2, <4>1, <4>2, <4>4, <4>5 DEF Becomes, Client
      <4>6. CASE ~client.client_closed
        <5>1. /\ v.client = sent.client /\ v.pcb = sent.pcb /\ v.dead = sent.dead
              /\ v.socks = [sent.socks EXCEPT !.receiving = TRUE]
          BY <4>4, <4>6, RecvInitiate
        <5> HIDE DEF v
        <5>2. v.socks \in Socks /\ v.socks.state = "UP" /\ v.socks.sending = sending /\ v.socks.receiving
          BY <4>4, <5>1, Zenon DEF Socks
        <5> QED BY <4>1, <4>2, <4>4, <4>6, <5>1, <5>2 DEF Becomes
      <4> QED BY <4>5, <4>6
    <3>3. /\ client' \in Client /\ client'.alloc /\ client'.aborted = client.aborted
          /\ client'.client_closed = client.client_closed /\ client'.buf = client.buf /\ client'.socks_up
          /\ ~client'.socks_closed /\ client'.rbuf = client.rbuf /\ client'.tcp_pending = client.tcp_pending
      BY <2>2, <2>3, <3>2, Zenon DEF Client
    <3>4. /\ pcb' \in Pcb /\ pcb'.state = pcb.state /\ pcb'.rcv_wnd = pcb.rcv_wnd /\ pcb'.rxclosed = pcb.rxclosed
          /\ pcb'.err = pcb.err /\ pcb'.recv = pcb.recv /\ pcb'.sndq = pcb.sndq
          /\ pcb'.refused = pcb.refused /\ pcb'.input = pcb.input /\ pcb'.tf_closed = pcb.tf_closed
          /\ pcb'.sent <=> pcb.sent \/ ~client.client_closed
      BY <2>2, <3>2, Zenon DEF Pcb, Client
    <3>5. TypeOK'
      BY <1>1, <2>2, <3>2, <3>3, <3>4 DEF IInv, TypeOK
    <3>6. IsOpen(client') <=> IsOpen(client)
      BY <2>3, <3>3 DEF IsOpen
    <3>7. client.client_closed => pcb' = pcb
      BY <2>2, <3>2 DEF Pcb
    <3>8. PcbInv(pcb', pc')
      <4>1. CASE client.client_closed
        BY <1>1, <3>7, <4>1 DEF IInv, Inv, CtlInv
      <4>2. CASE ~client.client_closed
        <5>1. pcb.state \in {"ESTABLISHED", "CLOSE_WAIT"}
          BY <2>3, <4>2 DEF IInv, Inv, CtlInv, OwnInv, IsOpen
        <5> QED BY <1>1, <3>4, <5>1 DEF IInv, Inv, CtlInv, PcbInv
      <4> QED BY <4>1, <4>2
    <3>9. OwnInv(client', pcb')
      BY <2>3, <3>3, <3>4, <3>6, Zenon DEF IInv, Inv, CtlInv, OwnInv, IsOpen
    <3>10. SocksInv(client', socks')
      BY <3>1, <3>2, <3>3 DEF SocksInv
    <3>11. DeadInv(client', pcb', dead', pc')
      BY <1>1, <2>3, <3>2, <3>3, <3>4, SMTT(30), Z3T(30) DEF IInv, Inv, CtlInv, DeadInv
    <3>12. QueueInv(client', pcb', pc', seg')
      BY <1>1, <2>3, <3>3, <3>4, <3>6 DEF IInv, Inv, QueueInv
    <3>13. StallInv(client', socks')
      <4>1. IsOpen(client) => client.rbuf = <<>>
        BY <2>3, SMTT(30), Z3T(30) DEF IInv, Inv, QueueInv
      <4>2. client.client_closed => client.buf # <<>>
        BY <2>3 DEF IInv, Inv, StallInv
      <4> QED BY <3>1, <3>2, <3>3, <3>6, <4>1, <4>2, SMTT(30), Z3T(30) DEF StallInv, IsOpen
    <3>14. ByteInv(client', pcb', pc', seg', hist') /\ EndInv(client', hist')
      BY <1>1, <2>2, <2>3, <3>3, <3>4, <3>6, Zenon DEF IInv, Inv, ByteInv, EndInv
    <3>15. Inv(client', pcb', socks', dead', pc', seg', hist')
      BY <3>8, <3>9, <3>10, <3>11, <3>12, <3>13, <3>14 DEF Inv, CtlInv
    <3>16. UpStep /\ DownStep
      BY <3>3 DEF UpStep, DownStep
    <3> QED BY <3>5, <3>15, <3>16 DEF IInv
  <2>5. CASE event # "UP"
    <3>1. client' = client /\ pcb' = pcb /\ dead' = dead /\ socks' = [socks EXCEPT !.state = event]
      BY <1>4, <2>1, <2>5 DEF client_socks_handler, Becomes, World
    <3>2. event \in Handshake /\ event # "FREED" /\ event # "UP"
      BY <1>4, <2>5, <1>2
    <3>3. /\ socks' \in Socks /\ socks'.state = event /\ socks'.sending = socks.sending
          /\ socks'.receiving = socks.receiving
      BY <2>2, <3>1, <3>2 DEF Socks
    <3>4. TypeOK'
      BY <1>1, <2>2, <3>1, <3>3 DEF IInv, TypeOK
    <3>5. SocksInv(client', socks') /\ StallInv(client', socks')
      BY <2>3, <3>1, <3>2, <3>3 DEF IInv, Inv, CtlInv, SocksInv, StallInv
    <3>6. Inv(client', pcb', socks', dead', pc', seg', hist')
      BY <1>1, <2>2, <3>1, <3>5 DEF IInv, Inv, CtlInv
    <3>7. UpStep /\ DownStep
      BY <2>3, <3>1 DEF UpStep, DownStep
    <3> QED BY <3>4, <3>6, <3>7 DEF IInv
  <2> QED BY <2>4, <2>5
<1> QED BY <1>3, <1>4

\* A send ends: the window opens by what the proxy took, and the rest is being sent, or the client
\* that only waited for this is freed.
LEMMA SendDoneStep ==
    ASSUME IInv, NEW len \in 1..TCP_WND, client_socks_send_handler_done(len)
    PROVE  IInv' /\ UpStep /\ DownStep
<1> DEFINE rest == Drop(client.buf, len)
           q == IF client.client_closed THEN pcb ELSE tcp_recved(pcb, len)
           w == [World EXCEPT !.client.buf = rest, !.socks.sending = 0, !.pcb = q]
           h == [hist EXCEPT !.toSocks = @ \o SubSeq(client.buf, 1, len)]
           v == IF rest # <<>> THEN client_send_to_socks(w)
                ELSE IF client.client_closed THEN client_free_socks(w) ELSE w
<1>1. pc \in {"idle", "inAccept", "inRecv"} /\ len \in 1..socks.sending /\ pc' = pc /\ seg' = seg /\ hist' = h
  BY DEF client_socks_send_handler_done, Runs
<1>2. client \in Client /\ pcb \in Pcb /\ socks \in Socks /\ seg \in Segment /\ hist \in Hist
  BY DEF IInv, TypeOK
<1>3. /\ socks.state = "UP" /\ client.alloc /\ client.socks_up /\ ~client.socks_closed
      /\ socks.sending \in Nat /\ len \in Nat /\ len > 0 /\ len <= Len(client.buf)
  BY <1>1, <1>2 DEF IInv, Inv, CtlInv, SocksInv, Socks, NoSocks
<1>4. client.buf \in Seq(Nat) /\ len \in 0..Len(client.buf)
  BY <1>2, <1>3 DEF Client
<1>5. rest \in Seq(Nat) /\ Len(rest) = Len(client.buf) - len
  BY <1>4, Cut, SMTT(30), Z3T(30)
<1>6. /\ h \in Hist /\ h.up = hist.up /\ h.down = hist.down /\ h.toApp = hist.toApp
      /\ h.appEnded = hist.appEnded /\ h.socksEnded = hist.socksEnded
      /\ h.toSocks \o rest = hist.toSocks \o client.buf
  <2>1. hist.toSocks \in Seq(Nat) /\ SubSeq(client.buf, 1, len) \in Seq(Nat)
    BY <1>2, <1>4, Cut, SMTT(30), Z3T(30) DEF Hist
  <2> DEFINE toSocks == hist.toSocks \o SubSeq(client.buf, 1, len)
  <2>2. toSocks \in Seq(Nat)
    BY <2>1, Joined
  <2>3. toSocks \o rest = hist.toSocks \o client.buf
    BY <1>4, <2>1, MoveOn, Zenon
  <2> HIDE DEF rest, toSocks
  <2>4. /\ [hist EXCEPT !.toSocks = toSocks] \in Hist
        /\ h = [hist EXCEPT !.toSocks = toSocks] /\ h.toSocks = toSocks
    BY <1>2, <2>2, Zenon DEF Hist, toSocks
  <2>5. /\ h.up = hist.up /\ h.down = hist.down /\ h.toApp = hist.toApp
        /\ h.appEnded = hist.appEnded /\ h.socksEnded = hist.socksEnded
    BY <1>2, <2>4, SMTT(30), Z3T(30) DEF Hist
  <2> QED BY <2>3, <2>4, <2>5, Zenon
<1> HIDE DEF rest, h
<1>7. /\ q \in Pcb /\ q.state = pcb.state /\ q.rxclosed = pcb.rxclosed /\ q.err = pcb.err /\ q.recv = pcb.recv
      /\ q.sent = pcb.sent /\ q.sndq = pcb.sndq /\ q.refused = pcb.refused /\ q.input = pcb.input
      /\ q.tf_closed = pcb.tf_closed /\ q.rcv_wnd <= pcb.rcv_wnd + len
      /\ client.client_closed => q = pcb
  <2>1. CASE client.client_closed
    BY <1>2, <1>3, <2>1 DEF Pcb
  <2>2. CASE ~client.client_closed
    <3> DEFINE wnd == Min(pcb.rcv_wnd + len, TCP_WND)
    <3>1. wnd \in 0..TCP_WND /\ wnd <= pcb.rcv_wnd + len
      BY <1>2, <1>3, WindowAssumption DEF Pcb, Min
    <3> HIDE DEF wnd
    <3>2. q = [pcb EXCEPT !.rcv_wnd = wnd]
      BY <2>2 DEF tcp_recved, wnd
    <3> QED BY <1>2, <2>2, <3>1, <3>2 DEF Pcb
  <2> QED BY <2>1, <2>2, SMTT(30), Z3T(30)
<1>8. client' = v.client /\ pcb' = v.pcb /\ socks' = v.socks /\ dead' = v.dead
  <2> DEFINE x == [World EXCEPT !.client.buf = Drop(@, len), !.socks.sending = 0,
                                !.pcb = IF client.client_closed THEN @ ELSE tcp_recved(@, len)]
  <2>1. World.pcb = pcb /\ World.client.buf = client.buf
    BY DEF World
  <2>2. x = w
    BY <2>1 DEF rest
  <2>3. w.client.buf = rest
    BY <1>2 DEF World, Client
  <2>4. Becomes(IF x.client.buf # <<>> THEN client_send_to_socks(x)
                ELSE IF client.client_closed THEN client_free_socks(x) ELSE x)
    BY DEF client_socks_send_handler_done
  <2> HIDE DEF x, w
  <2> QED BY <2>2, <2>3, <2>4 DEF Becomes
<1>9. /\ w \in Worlds /\ w.client = [client EXCEPT !.buf = rest] /\ w.socks = [socks EXCEPT !.sending = 0]
      /\ w.pcb = q /\ w.dead = dead
  <2> HIDE DEF q
  <2> QED BY <1>2, <1>5, <1>7, Zenon DEF IInv, TypeOK, Worlds, World, Client, Socks
<1> HIDE DEF w, q
<1>10. /\ w.client \in Client /\ w.client.alloc /\ w.client.aborted = client.aborted
       /\ w.client.client_closed = client.client_closed /\ w.client.buf = rest /\ w.client.socks_up
       /\ ~w.client.socks_closed /\ w.client.rbuf = client.rbuf /\ w.client.tcp_pending = client.tcp_pending
  BY <1>2, <1>3, <1>5, <1>9, Zenon DEF Client
<1>11. w.socks \in Socks /\ w.socks.state = "UP" /\ w.socks.sending = 0 /\ w.socks.receiving = socks.receiving
  BY <1>2, <1>3, <1>9 DEF Socks
<1>12. IsOpen(w.client) <=> IsOpen(client)
  BY <1>3, <1>10 DEF IsOpen
<1>13. PcbInv(q, pc)
  <2>1. CASE client.client_closed
    BY <1>7, <2>1 DEF IInv, Inv, CtlInv
  <2>2. CASE ~client.client_closed
    <3>1. pcb.state \in {"ESTABLISHED", "CLOSE_WAIT"}
      BY <1>3, <2>2 DEF IInv, Inv, CtlInv, OwnInv, IsOpen
    <3> QED BY <1>7, <3>1 DEF IInv, Inv, CtlInv, PcbInv
  <2> QED BY <2>1, <2>2
<1>14. OwnInv(w.client, q)
  BY <1>3, <1>7, <1>10, <1>12, Zenon DEF IInv, Inv, CtlInv, OwnInv
<1>15. SocksInv(w.client, w.socks)
  BY <1>5, <1>10, <1>11 DEF SocksInv
<1>16. DeadInv(w.client, q, dead, pc)
  BY <1>3, <1>7, <1>10, ZenonT(30) DEF IInv, Inv, CtlInv, DeadInv
<1>17. QueueInv(w.client, q, pc, seg)
  <2> SUFFICES ASSUME IsOpen(client) PROVE QueueInv(w.client, q, pc, seg)
    BY <1>12, SMTT(30), Z3T(30) DEF QueueInv
  <2>1. /\ Len(pcb.sndq) <= TCP_SND_BUF /\ client.tcp_pending = Len(pcb.sndq) + InFlight(pc, seg)
        /\ pcb.rcv_wnd + Len(client.buf) + Unhanded(pc, seg) <= TCP_WND
    BY <1>3 DEF IInv, Inv, QueueInv
  <2>2. Unhanded(pc, seg) = 0
    BY <1>1 DEF Unhanded
  <2>3. q.rcv_wnd + Len(rest) + Unhanded(pc, seg) <= TCP_WND
    <3>1. pcb.rcv_wnd \in Nat /\ q.rcv_wnd \in Nat /\ Len(client.buf) \in Nat /\ TCP_WND \in Nat
      BY <1>2, <1>4, <1>7, WindowAssumption DEF Pcb
    <3> QED BY <1>3, <1>5, <1>7, <2>1, <2>2, <3>1, SMTT(30), Z3T(30)
  <2> QED BY <1>7, <1>10, <2>1, <2>3 DEF QueueInv
<1>18. ByteInv(w.client, q, pc, seg, h) /\ EndInv(w.client, h)
  BY <1>3, <1>6, <1>7, <1>10, <1>12, ZenonT(30) DEF IInv, Inv, ByteInv, EndInv
<1>19. IsOpen(w.client) /\ w.client.rbuf # <<>> => w.client.tcp_pending > 0
  BY <1>3, <1>10, <1>12 DEF IInv, Inv, StallInv
<1>20. ASSUME rest # <<>> PROVE IInv' /\ UpStep /\ DownStep
  <2> DEFINE s == [w.socks EXCEPT !.sending = Len(rest)]
  <2>1. Len(rest) \in Nat /\ Len(rest) > 0
    BY <1>5, <1>20
  <2>2. s \in Socks /\ s.state = "UP" /\ s.sending = Len(rest) /\ s.receiving = socks.receiving
    BY <1>11, <2>1 DEF Socks
  <2>3. client' = w.client /\ pcb' = q /\ socks' = s /\ dead' = dead
    BY <1>8, <1>9, <1>10, <1>20, SMTT(30), Z3T(30) DEF client_send_to_socks, Worlds
  <2> HIDE DEF s
  <2>4. TypeOK'
    BY <1>1, <1>6, <1>7, <1>10, <2>2, <2>3, SMTT(30), Z3T(30) DEF IInv, TypeOK
  <2>5. SocksInv(w.client, s)
    BY <1>10, <2>1, <2>2 DEF SocksInv
  <2>6. StallInv(w.client, s)
    BY <1>3, <1>10, <1>12, <1>20, <2>1, <2>2, Zenon DEF IInv, Inv, StallInv
  <2>7. Inv(client', pcb', socks', dead', pc', seg', hist')
    BY <1>1, <1>13, <1>14, <1>16, <1>17, <1>18, <2>3, <2>5, <2>6, SMTT(30), Z3T(30) DEF Inv, CtlInv
  <2>8. UpStep /\ DownStep
    BY <1>10, <2>3 DEF UpStep, DownStep
  <2> QED BY <2>4, <2>7, <2>8 DEF IInv
<1>21. ASSUME rest = <<>>, client.client_closed PROVE IInv' /\ UpStep /\ DownStep
  <2>1. v = client_free_socks(w)
    BY <1>21, SMTT(30), Z3T(30)
  <2>2. h.appEnded
    BY <1>3, <1>6, <1>21 DEF IInv, Inv, EndInv
  <2> HIDE DEF v
  <2>3. v \in Worlds /\ Inv(v.client, v.pcb, v.socks, v.dead, pc, seg, h)
    <3>1. pc \in {"idle"} \cup Callbacks
      BY <1>1 DEF Callbacks
    <3>2. CtlInv(w.client, w.pcb, w.socks, w.dead, pc)
      BY <1>9, <1>13, <1>14, <1>15, <1>16, SMTT(30), Z3T(30) DEF CtlInv
    <3> QED BY <1>2, <1>6, <1>9, <1>10, <1>17, <1>18, <1>19, <1>21, <2>1, <3>1, <3>2, FreeSocksKeeps, Zenon
  <2>4. TypeOK'
    BY <1>1, <1>2, <1>6, <1>8, <2>3 DEF IInv, TypeOK, Worlds
  <2>5. UpStep
    <3>1. h.toSocks = Bytes(0, h.up)
      BY <1>6, <1>10, <1>18, <1>21, UpDone DEF ByteInv
    <3> QED BY <1>1, <3>1, SMTT(30), Z3T(30) DEF UpStep
  <2>6. DownStep
    BY <1>1, <2>2 DEF DownStep
  <2> QED BY <1>1, <1>8, <2>3, <2>4, <2>5, <2>6 DEF IInv
<1>22. ASSUME rest = <<>>, ~client.client_closed PROVE IInv' /\ UpStep /\ DownStep
  <2>1. client' = w.client /\ pcb' = q /\ socks' = w.socks /\ dead' = dead
    BY <1>8, <1>9, <1>22, SMTT(30), Z3T(30)
  <2>2. TypeOK'
    BY <1>1, <1>2, <1>6, <1>7, <1>10, <1>11, <2>1 DEF IInv, TypeOK
  <2>3. StallInv(w.client, w.socks)
    BY <1>3, <1>10, <1>11, <1>12, <1>22, Zenon DEF IInv, Inv, StallInv
  <2>4. Inv(client', pcb', socks', dead', pc', seg', hist')
    BY <1>1, <1>13, <1>14, <1>15, <1>16, <1>17, <1>18, <2>1, <2>3, SMTT(30), Z3T(30) DEF Inv, CtlInv
  <2>5. UpStep /\ DownStep
    BY <1>10, <2>1 DEF UpStep, DownStep
  <2> QED BY <2>2, <2>4, <2>5 DEF IInv
<1> QED BY <1>20, <1>21, <1>22

\* What v is after client_socks_recv_send_out on w.
SentOut(w, v, n, out, at, g, h) ==
    /\ v \in Worlds
    /\ SendOutAborts(w, n, out) =>
         /\ Inv(v.client, v.pcb, v.socks, v.dead, at, g, h)
         /\ ~v.client.alloc => w.client.buf = <<>> \/ w.client.socks_closed
    /\ ~SendOutAborts(w, n, out) =>
         /\ v.client.alloc /\ v.client.socks_closed = w.client.socks_closed /\ v.dead = w.dead
         /\ v.pcb.tf_closed = w.pcb.tf_closed
         /\ v.client.rbuf # <<>> \/ v.client.socks_closed
                 => Inv(v.client, v.pcb, v.socks, v.dead, at, g, h)
         /\ v.client.rbuf = <<>> /\ ~v.client.socks_closed
                 => Inv(v.client, v.pcb, [v.socks EXCEPT !.receiving = TRUE], v.dead, at, g, h)

\* Queueing received bytes keeps the invariant, up to the receive that has to be started when all of
\* them were queued.
LEMMA SendOutKeeps ==
    ASSUME NEW w \in Worlds, NEW at \in {"idle"} \cup Callbacks, NEW g \in Segment, NEW h \in Hist,
           NEW n \in Writable(w), NEW out \in BOOLEAN, NEW v, v = client_socks_recv_send_out(w, n, out),
           IsOpen(w.client), w.client.socks_up, w.client.rbuf # <<>>, ~w.socks.receiving,
           CtlInv(w.client, w.pcb, w.socks, w.dead, at), QueueInv(w.client, w.pcb, at, g),
           ByteInv(w.client, w.pcb, at, g, h), EndInv(w.client, h),
           ~w.client.socks_closed /\ w.client.buf # <<>> => w.socks.sending > 0,
           SendOutAborts(w, n, out) => h.appEnded
    PROVE  SentOut(w, v, n, out, at, g, h)
<1> DEFINE c == w.client
           p == w.pcb
<1>1. /\ c \in Client /\ p \in Pcb /\ w.socks \in Socks /\ w.dead \in {"null", "no", "aborted", "freed"}
      /\ c.rbuf \in Seq(Nat) /\ p.sndq \in Seq(Nat) /\ c.tcp_pending \in Nat
  BY ZenonT(30) DEF Worlds, Client, Pcb
<1>2. Len(p.sndq) <= TCP_SND_BUF /\ c.tcp_pending = Len(p.sndq) + InFlight(at, g) /\ InFlight(at, g) = 0
  BY SMTT(30), Z3T(30) DEF QueueInv, InFlight, Callbacks
<1>3. n \in 0..Len(c.rbuf) /\ Len(p.sndq) + n <= TCP_SND_BUF
  <2>1. n = 0 \/ n = Min(Len(c.rbuf), TCP_SND_BUF - Len(p.sndq))
    BY SMTT(30), Z3T(30) DEF Writable, tcp_sndbuf
  <2>2. Len(c.rbuf) \in Nat /\ Len(p.sndq) \in Nat
    BY <1>1
  <2> HIDE DEF c, p
  <2> QED BY <1>2, <2>1, <2>2, WindowAssumption, SMTT(30), Z3T(30) DEF Min
<1> DEFINE u == QueuedOut(w, n)
<1>4. /\ u \in Worlds
      /\ u.client = [c EXCEPT !.rbuf = Drop(c.rbuf, n), !.tcp_pending = c.tcp_pending + n]
      /\ u.pcb = [p EXCEPT !.sndq = p.sndq \o SubSeq(c.rbuf, 1, n)]
      /\ u.socks = w.socks /\ u.dead = w.dead
      /\ SendOutAborts(w, n, out) => v \in Worlds /\ ClientOver(u, v, FreedPcb, TRUE)
      /\ ~SendOutAborts(w, n, out) => v = u
  <2>1. /\ u \in Worlds
        /\ SendOutAborts(w, n, out) => v \in Worlds /\ ClientOver(u, v, FreedPcb, TRUE)
        /\ ~SendOutAborts(w, n, out) => v = u
    BY <1>3, SendOutOutcome, Zenon
  <2>2. /\ u.client = [c EXCEPT !.rbuf = Drop(c.rbuf, n), !.tcp_pending = c.tcp_pending + n]
        /\ u.pcb = [p EXCEPT !.sndq = p.sndq \o SubSeq(c.rbuf, 1, n)]
        /\ u.socks = w.socks /\ u.dead = w.dead
    BY DEF QueuedOut
  <2> QED BY <2>1, <2>2, Zenon
<1> HIDE DEF u
<1> DEFINE rest == Drop(c.rbuf, n)
           sndq == p.sndq \o SubSeq(c.rbuf, 1, n)
<1>5. rest \in Seq(Nat) /\ Len(rest) = Len(c.rbuf) - n /\ sndq \in Seq(Nat) /\ Len(sndq) = Len(p.sndq) + n
  <2>1. /\ SubSeq(c.rbuf, 1, n) \in Seq(Nat) /\ Len(SubSeq(c.rbuf, 1, n)) = n
        /\ rest \in Seq(Nat) /\ Len(rest) = Len(c.rbuf) - n
    BY <1>1, <1>3, Cut, ZenonT(30)
  <2>2. sndq \in Seq(Nat) /\ Len(sndq) = Len(p.sndq) + Len(SubSeq(c.rbuf, 1, n))
    BY <1>1, <2>1, Joined
  <2> HIDE DEF rest, sndq
  <2> QED BY <2>1, <2>2, Zenon
<1>6. h.toApp \o sndq \o rest = h.toApp \o p.sndq \o c.rbuf
  <2>1. h.toApp \in Seq(Nat)
    BY DEF Hist
  <2> HIDE DEF c, p
  <2> QED BY <1>1, <1>3, <2>1, Queued, ZenonT(30)
<1> HIDE DEF rest, sndq
<1>7. /\ u.client.alloc = c.alloc /\ u.client.aborted = c.aborted /\ u.client.client_closed = c.client_closed
      /\ u.client.buf = c.buf /\ u.client.socks_up = c.socks_up /\ u.client.socks_closed = c.socks_closed
      /\ u.client.rbuf = rest /\ u.client.tcp_pending = c.tcp_pending + n
  BY <1>1, <1>4, Zenon DEF Client, rest
<1>8. /\ u.pcb.state = p.state /\ u.pcb.rcv_wnd = p.rcv_wnd /\ u.pcb.rxclosed = p.rxclosed
      /\ u.pcb.err = p.err /\ u.pcb.recv = p.recv /\ u.pcb.sent = p.sent /\ u.pcb.sndq = sndq
      /\ u.pcb.refused = p.refused /\ u.pcb.input = p.input /\ u.pcb.tf_closed = p.tf_closed
  BY <1>1, <1>4, Zenon DEF Pcb, sndq
<1>9. IsOpen(u.client) /\ p.state \in {"ESTABLISHED", "CLOSE_WAIT"} /\ c.alloc
  BY <1>7, Zenon DEF IsOpen, CtlInv, OwnInv
<1>10. PcbInv(u.pcb, at) /\ OwnInv(u.client, u.pcb)
  BY <1>7, <1>8, <1>9, Zenon DEF CtlInv, PcbInv, OwnInv
<1>11. SocksInv(u.client, u.socks)
  BY <1>4, <1>7, <1>9, SMTT(30), Z3T(30) DEF CtlInv, SocksInv
<1>12. DeadInv(u.client, u.pcb, u.dead, at)
  BY <1>4, <1>7, <1>8 DEF CtlInv, DeadInv
<1>13. h.toSocks \o u.client.buf = Bytes(0, h.up)
  BY <1>7, <1>9, Zenon DEF ByteInv
<1>14. CASE SendOutAborts(w, n, out)
  <2>1. v \in Worlds /\ ClientOver(u, v, FreedPcb, TRUE) /\ h.appEnded
    BY <1>4, <1>14, Zenon
  <2>2. at = "inAccept" => h.up = 0 /\ g.data = Bytes(0, Len(g.data))
    BY ZenonT(30) DEF ByteInv
  <2>3. at \notin {"sent", "data", "fin"} /\ u.pcb.state # "FREED"
    BY <1>8, <1>9 DEF Callbacks
  <2>4. u.client.socks_up /\ ~u.client.socks_closed /\ u.client.buf # <<>> => u.socks.sending > 0
    BY <1>4, <1>7
  <2>5. Inv(v.client, v.pcb, v.socks, v.dead, at, g, h)
    <3>1. u \in Worlds
      BY <1>4
    <3> QED BY <1>9, <1>11, <1>12, <1>13, <2>1, <2>2, <2>3, <2>4, <3>1, FreedFacts, ClientOverKeeps, ZenonT(30)
  <2>6. ASSUME ~v.client.alloc PROVE c.buf = <<>> \/ c.socks_closed
    <3>1. SUFFICES ASSUME c.buf # <<>>, ~c.socks_closed PROVE FALSE
      OBVIOUS
    <3>2. v.client = [u.client EXCEPT !.client_closed = TRUE, !.aborted = TRUE]
      BY <1>7, <2>1, <3>1 DEF ClientOver
    <3>3. u.client \in Client
      BY <1>4 DEF Worlds
    <3> QED BY <1>7, <1>9, <2>6, <3>2, <3>3, ZenonT(30) DEF Client
  <2> QED BY <1>14, <2>1, <2>5, <2>6 DEF SentOut
<1>15. CASE ~SendOutAborts(w, n, out)
  <2>1. v = u
    BY <1>4, <1>15, SMTT(30), Z3T(30)
  <2>2. c.tcp_pending + n > 0
    <3>1. n < Len(c.rbuf) => c.tcp_pending + n # 0
      BY <1>15, SMTT(30), Z3T(30) DEF SendOutAborts
    <3>2. Len(c.rbuf) > 0
      BY <1>1, SMTT(30), Z3T(30)
    <3> HIDE DEF c
    <3>3. PICK len \in Nat, pending \in Nat : len = Len(c.rbuf) /\ pending = c.tcp_pending
      BY <1>1
    <3>4. /\ n \in 0..len /\ len > 0
          /\ n < len => pending + n # 0
      BY <1>3, <3>1, <3>2, <3>3, Zenon
    <3>5. pending + n > 0
      BY <3>4
    <3> QED BY <3>3, <3>5, Zenon
  <2>3. QueueInv(u.client, u.pcb, at, g)
    <3>1. u.client.tcp_pending = Len(sndq) + InFlight(at, g) /\ Len(sndq) <= TCP_SND_BUF
      <4> HIDE DEF c, p
      <4> QED BY <1>1, <1>2, <1>3, <1>5, <1>7
    <3>2. ~u.client.socks_closed => u.pcb.rcv_wnd + Len(u.client.buf) + Unhanded(at, g) <= TCP_WND
      BY <1>7, <1>8, Zenon DEF QueueInv
    <3> QED BY <1>7, <1>8, <3>1, <3>2, ZenonT(30) DEF QueueInv
  <2>4. ByteInv(u.client, u.pcb, at, g, h)
    <3>1. h.toApp \o u.pcb.sndq \o u.client.rbuf = Bytes(0, h.down)
      BY <1>6, <1>7, <1>8, Zenon DEF ByteInv
    <3> QED BY <1>7, <1>8, <1>9, <1>13, <3>1, Zenon DEF ByteInv
  <2>5. EndInv(u.client, h)
    BY <1>7, Zenon DEF EndInv
  <2>6. ASSUME u.client.rbuf # <<>> \/ u.client.socks_closed
        PROVE  Inv(u.client, u.pcb, u.socks, u.dead, at, g, h)
    <3>1. StallInv(u.client, u.socks)
      BY <1>4, <1>7, <1>9, <2>2, <2>6 DEF StallInv, IsOpen
    <3> QED BY <1>10, <1>11, <1>12, <2>3, <2>4, <2>5, <3>1, Zenon DEF Inv, CtlInv
  <2>7. ASSUME u.client.rbuf = <<>> /\ ~u.client.socks_closed
        PROVE  Inv(u.client, u.pcb, [u.socks EXCEPT !.receiving = TRUE], u.dead, at, g, h)
    <3> DEFINE s == [u.socks EXCEPT !.receiving = TRUE]
    <3>1. s.receiving /\ s.state = u.socks.state /\ s.sending = u.socks.sending
      BY <1>1, <1>4 DEF Socks
    <3> HIDE DEF s
    <3>2. u.socks.state = "UP"
      BY <1>7, <1>9, <1>11, <2>7, Zenon DEF SocksInv
    <3>3. SocksInv(u.client, s)
      BY <1>7, <1>9, <1>11, <3>1, <3>2, Zenon DEF SocksInv
    <3>4. StallInv(u.client, s)
      BY <1>4, <1>7, <1>9, <2>7, <3>1 DEF StallInv, IsOpen
    <3>5. Inv(u.client, u.pcb, s, u.dead, at, g, h)
      BY <1>10, <1>12, <2>3, <2>4, <2>5, <3>3, <3>4, Zenon DEF Inv, CtlInv
    <3> QED BY <3>5 DEF s
  <2> QED BY <1>4, <1>7, <1>8, <1>9, <1>15, <2>1, <2>6, <2>7, Zenon DEF SentOut
<1> QED BY <1>14, <1>15, Zenon

\* A receive ends: the bytes are queued for the app, or dropped when it is gone.
LEMMA RecvDoneStep ==
    ASSUME IInv, NEW len \in 1..RECV_BUF, NEW n \in 0..TCP_SND_BUF, NEW out \in BOOLEAN,
           client_socks_recv_handler_done(len, n, out)
    PROVE  IInv' /\ UpStep /\ DownStep
<1> DEFINE got == [World EXCEPT !.socks.receiving = FALSE]
           w == [got EXCEPT !.client.rbuf = Bytes(hist.down, len)]
           v == client_socks_recv_send_out(w, n, out)
           aborts == SendOutAborts(w, n, out)
           h == hist'
<1>1. /\ pc \in {"idle", "inAccept", "inSent"} /\ socks.receiving /\ pc' = pc /\ seg' = seg
      /\ n \in Writable(w)
      /\ hist' = [hist EXCEPT !.down = @ + len, !.appEnded = @ \/ (~client.client_closed /\ aborts)]
      /\ Becomes(IF client.client_closed THEN got
                 ELSE IF aborts \/ v.client.rbuf # <<>> THEN v
                 ELSE client_socks_recv_initiate(v))
  BY DEF client_socks_recv_handler_done, Runs
<1>2. client \in Client /\ pcb \in Pcb /\ socks \in Socks /\ seg \in Segment /\ hist \in Hist
  BY DEF IInv, TypeOK
<1>3. client.alloc /\ socks.state = "UP" /\ client.socks_up /\ ~client.socks_closed
  BY <1>1 DEF IInv, Inv, CtlInv, SocksInv, NoSocks
<1>4. len \in Nat /\ len > 0 /\ hist.down \in Nat
  BY <1>2, SizeAssumption DEF Hist
<1>5. /\ h \in Hist /\ h.up = hist.up /\ h.down = hist.down + len /\ h.toSocks = hist.toSocks
      /\ h.toApp = hist.toApp /\ h.socksEnded = hist.socksEnded
      /\ h.appEnded <=> hist.appEnded \/ (~client.client_closed /\ aborts)
  <2>1. PICK e \in BOOLEAN : e = (hist.appEnded \/ (~client.client_closed /\ aborts))
    BY Zenon
  <2>2. h = [hist EXCEPT !.down = @ + len, !.appEnded = e]
    BY <1>1, <2>1, Zenon
  <2>3. e <=> hist.appEnded \/ (~client.client_closed /\ aborts)
    BY <2>1, Zenon
  <2>4. h = [hist EXCEPT !.down = hist.down + len, !.appEnded = e] /\ hist.down + len \in Nat
    BY <1>4, <2>2
  <2> HIDE DEF aborts, h
  <2>5. /\ h \in Hist /\ h.up = hist.up /\ h.down = hist.down + len /\ h.toSocks = hist.toSocks
        /\ h.toApp = hist.toApp /\ h.socksEnded = hist.socksEnded /\ h.appEnded = e
    BY <1>2, <2>4, Zenon DEF Hist
  <2> QED BY <2>3, <2>5
<1>6. pc \in {"idle"} \cup Callbacks
  BY <1>1 DEF Callbacks
<1>7. /\ got \in Worlds /\ got.client = client /\ got.pcb = pcb /\ got.dead = dead
      /\ got.socks = [socks EXCEPT !.receiving = FALSE]
  BY <1>2, Zenon DEF World, Worlds, Socks, IInv, TypeOK
<1> DEFINE s == [socks EXCEPT !.receiving = FALSE]
<1>8. s \in Socks /\ s.state = "UP" /\ s.sending = socks.sending /\ ~s.receiving
  BY <1>2, <1>3, Zenon DEF Socks
<1> HIDE DEF s, aborts, v, w, got, h
<1>9. SocksInv(client, s)
  BY <1>3, <1>8 DEF IInv, Inv, CtlInv, SocksInv
<1>10. CASE client.client_closed
  <2>1. client' = client /\ pcb' = pcb /\ socks' = s /\ dead' = dead
    BY <1>1, <1>7, <1>10 DEF Becomes, s
  <2>2. TypeOK'
    BY <1>1, <1>2, <1>5, <1>8, <2>1 DEF IInv, TypeOK, h
  <2>3. ~IsOpen(client)
    BY <1>10, SMTT(30), Z3T(30) DEF IsOpen
  <2>4. StallInv(client, s)
    BY <1>8, <2>3 DEF IInv, Inv, StallInv
  <2>5. ByteInv(client, pcb, pc, seg, h) /\ EndInv(client, h)
    BY <1>3, <1>5, <2>3, Zenon DEF IInv, Inv, ByteInv, EndInv
  <2>6. Inv(client, pcb, s, dead, pc, seg, h)
    BY <1>9, <2>4, <2>5 DEF IInv, Inv, CtlInv
  <2>7. UpStep /\ DownStep
    BY <1>3, <2>1 DEF UpStep, DownStep
  <2> QED BY <1>1, <2>1, <2>2, <2>6, <2>7 DEF IInv, h
<1>11. CASE ~client.client_closed
  <2> DEFINE rbuf == Bytes(hist.down, len)
  <2>1. rbuf \in Seq(Nat) /\ Len(rbuf) = len
    BY <1>4, BytesProperties, Zenon
  <2>2. rbuf # <<>>
    BY <1>4, <2>1
  <2> HIDE DEF rbuf
  <2>3. IsOpen(client) /\ client.rbuf = <<>>
    BY <1>1, <1>3, <1>11 DEF IInv, Inv, StallInv, IsOpen
  <2>4. /\ w \in Worlds /\ w.client = [client EXCEPT !.rbuf = rbuf] /\ w.pcb = pcb /\ w.dead = dead
        /\ w.socks = s
    BY <1>2, <1>7, <2>1, Zenon DEF w, rbuf, s, Worlds, Client
  <2>5. /\ w.client.alloc /\ w.client.aborted = client.aborted /\ ~w.client.client_closed
        /\ w.client.buf = client.buf /\ w.client.rbuf = rbuf /\ w.client.socks_up
        /\ ~w.client.socks_closed /\ w.client.tcp_pending = client.tcp_pending
    BY <1>2, <1>3, <1>11, <2>4 DEF Client
  <2>6. IsOpen(w.client)
    BY <2>5 DEF IsOpen
  <2>7. CtlInv(w.client, w.pcb, w.socks, w.dead, pc)
    <3>1. OwnInv(w.client, pcb)
      BY <1>3, <2>3, <2>5, <2>6, Zenon DEF IInv, Inv, CtlInv, OwnInv
    <3>2. SocksInv(w.client, s)
      BY <1>3, <1>9, <2>5 DEF SocksInv
    <3>3. DeadInv(w.client, pcb, dead, pc)
      BY <1>3, <1>11, <2>5, Zenon DEF IInv, Inv, CtlInv, DeadInv
    <3> QED BY <2>4, <3>1, <3>2, <3>3 DEF IInv, Inv, CtlInv
  <2>8. QueueInv(w.client, w.pcb, pc, seg)
    BY <1>3, <2>3, <2>4, <2>5 DEF IInv, Inv, QueueInv
  <2>9. ByteInv(w.client, w.pcb, pc, seg, h)
    <3>1. h.toApp \o pcb.sndq \o rbuf = Bytes(0, h.down)
      <4>1. hist.toApp \o pcb.sndq \o client.rbuf = Bytes(0, hist.down)
        BY <2>3, Zenon DEF IInv, Inv, ByteInv
      <4>2. hist.toApp \in Seq(Nat) /\ pcb.sndq \in Seq(Nat)
        BY <1>2 DEF Hist, Pcb
      <4>3. hist.toApp \o pcb.sndq \in Seq(Nat)
        BY <4>2, Joined
      <4>4. hist.toApp \o pcb.sndq = Bytes(0, hist.down)
        BY <2>3, <4>1, <4>3, NothingMore, Zenon
      <4>5. Bytes(0, hist.down) \o rbuf = Bytes(0, hist.down + len)
        BY <1>4, BytesJoin, Zenon DEF rbuf
      <4> QED BY <1>5, <4>4, <4>5, Zenon
    <3>2. pcb.state # "SYN_RCVD"
      BY <1>3 DEF IInv, Inv, ByteInv
    <3> QED BY <1>3, <1>5, <2>3, <2>4, <2>5, <3>1, <3>2, Zenon DEF IInv, Inv, ByteInv
  <2>10. EndInv(w.client, h)
    BY <2>5, SMTT(30), Z3T(30) DEF EndInv
  <2>11. client.buf # <<>> => socks.sending > 0
    BY <1>3, SMTT(30), Z3T(30) DEF IInv, Inv, StallInv
  <2>12. aborts => h.appEnded
    BY <1>5, <1>11
  <2>13. /\ v \in Worlds
         /\ aborts => /\ Inv(v.client, v.pcb, v.socks, v.dead, pc, seg, h)
                      /\ ~v.client.alloc => client.buf = <<>>
         /\ ~aborts => /\ v.client.alloc /\ ~v.client.socks_closed
                       /\ v.client.rbuf # <<>> => Inv(v.client, v.pcb, v.socks, v.dead, pc, seg, h)
                       /\ v.client.rbuf = <<>>
                            => Inv(v.client, v.pcb, [v.socks EXCEPT !.receiving = TRUE], v.dead, pc, seg, h)
    <3>1. v = client_socks_recv_send_out(w, n, out)
      BY DEF v
    <3>2. w.client.rbuf # <<>> /\ ~w.socks.receiving /\ w.socks.sending = socks.sending
      BY <1>8, <2>2, <2>4, <2>5
    <3>3. aborts <=> SendOutAborts(w, n, out)
      BY DEF aborts
    <3>4. SentOut(w, v, n, out, pc, seg, h)
      <4>1. ~w.client.socks_closed /\ w.client.buf # <<>> => w.socks.sending > 0
        BY <2>5, <2>11, <3>2
      <4>2. SendOutAborts(w, n, out) => h.appEnded
        BY <2>12, <3>3
      <4>3. n \in Writable(w)
        BY <1>1
      <4>4. w \in Worlds /\ w.client.socks_up /\ seg \in Segment /\ h \in Hist
        BY <1>2, <1>5, <2>4, <2>5
      <4> QED BY <1>6, <2>6, <2>7, <2>8, <2>9, <2>10, <3>1, <3>2, <4>1, <4>2, <4>3, <4>4, SendOutKeeps, ZenonT(30)
    <3> QED BY <2>5, <3>3, <3>4 DEF SentOut
  <2>14. CASE aborts \/ v.client.rbuf # <<>>
    <3>1. client' = v.client /\ pcb' = v.pcb /\ socks' = v.socks /\ dead' = v.dead
      BY <1>1, <1>11, <2>14 DEF Becomes
    <3>2. TypeOK'
      BY <1>1, <1>2, <1>5, <2>13, <3>1 DEF IInv, TypeOK, Worlds, h
    <3>3. Inv(v.client, v.pcb, v.socks, v.dead, pc, seg, h)
      BY <2>13, <2>14
    <3>4. DownStep
      BY <2>12, <2>13, <3>1 DEF DownStep, h
    <3>5. UpStep
      <4> SUFFICES ASSUME ~client'.alloc PROVE h.toSocks = Bytes(0, h.up)
        BY DEF UpStep, h
      <4>1. client.buf = <<>> /\ hist.toSocks \o client.buf = Bytes(0, hist.up)
        BY <1>3, <2>13, <3>1, Zenon DEF IInv, Inv, ByteInv
      <4> QED BY <1>2, <1>5, <4>1, UpDone
    <3> QED BY <1>1, <3>1, <3>2, <3>3, <3>4, <3>5 DEF IInv, h
  <2>15. CASE ~aborts /\ v.client.rbuf = <<>>
    <3>1. Becomes(client_socks_recv_initiate(v))
      BY <1>1, <1>11, <2>15
    <3>2. /\ client_socks_recv_initiate(v) \in Worlds /\ client' = v.client /\ pcb' = v.pcb /\ dead' = v.dead
          /\ socks' = [v.socks EXCEPT !.receiving = TRUE] /\ socks' \in Socks
      BY <2>13, <3>1, RecvInitiate DEF Becomes, Worlds
    <3>3. TypeOK'
      BY <1>1, <1>2, <1>5, <2>13, <3>2 DEF IInv, TypeOK, Worlds, h
    <3>4. Inv(v.client, v.pcb, socks', v.dead, pc, seg, h)
      BY <2>13, <2>15, <3>2
    <3>5. UpStep /\ DownStep
      BY <2>13, <2>15, <3>2 DEF UpStep, DownStep
    <3> QED BY <1>1, <3>2, <3>3, <3>4, <3>5 DEF IInv, h
  <2> QED BY <2>14, <2>15
<1> QED BY <1>10, <1>11

-----------------------------------------------------------------------------
(* The stages of tcp_input.                                                 *)

\* tcp_input goes from one stage to the next with nothing in flight, and with a callback that did not
\* abort.
LEMMA NextStage ==
    ASSUME NEW c, NEW p, NEW s, NEW d, NEW at, NEW g \in Segment, NEW h, NEW to,
           Inv(c, p, s, d, at, g, h), c \in Client, p \in Pcb, d # "aborted",
           (at = "inSent" /\ to = "data") \/ (at \in {"inRecv", "data"} /\ to = "fin")
    PROVE  Inv(c, p, s, "null", to, g, h)
<1>1. p.state # "FREED"
  BY DEF Inv, CtlInv, DeadInv, Callbacks
<1>2. PcbInv(p, to)
  BY <1>1 DEF Inv, CtlInv, PcbInv
<1>3. DeadInv(c, p, "null", to)
  BY <1>1, SMTT(30), Z3T(30) DEF Inv, CtlInv, DeadInv, Callbacks
<1>4. QueueInv(c, p, to, g)
  <2> SUFFICES ASSUME IsOpen(c) PROVE QueueInv(c, p, to, g)
    BY DEF QueueInv
  <2>1. InFlight(at, g) = 0 /\ InFlight(to, g) = 0
    BY DEF InFlight
  <2>2. Unhanded(at, g) \in Nat /\ (Unhanded(to, g) = Unhanded(at, g) \/ Unhanded(to, g) = 0)
    BY DEF Unhanded, Segment
  <2>3. p.rcv_wnd \in Nat /\ Len(c.buf) \in Nat /\ TCP_WND \in Nat
    BY WindowAssumption, SMTT(30), Z3T(30) DEF Pcb, Client
  <2>4. ~c.socks_closed => p.rcv_wnd + Len(c.buf) + Unhanded(to, g) <= TCP_WND
    BY <2>2, <2>3, SMTT(30), Z3T(30) DEF Inv, QueueInv
  <2>5. /\ Len(p.sndq) <= TCP_SND_BUF /\ c.tcp_pending = Len(p.sndq) + InFlight(at, g)
        /\ ~c.socks_up => c.tcp_pending = 0 /\ c.rbuf = <<>>
    BY Zenon DEF Inv, QueueInv
  <2>6. c.tcp_pending = Len(p.sndq) + InFlight(to, g)
    BY <2>1, <2>5, Zenon
  <2> QED BY <2>4, <2>5, <2>6, Zenon DEF QueueInv
<1>5. ByteInv(c, p, to, g, h)
  BY Zenon DEF Inv, ByteInv
<1> QED BY <1>2, <1>3, <1>4, <1>5 DEF Inv, CtlInv

\* ERR_ABRT ends tcp_input: the pcb is in the pool and no client owns it.
LEMMA AbortedStage ==
    ASSUME NEW c, NEW p \in Pcb, NEW s, NEW at \in Callbacks, NEW g, NEW h, Inv(c, p, s, "aborted", at, g, h)
    PROVE  Inv(c, p, s, "null", "idle", NoSeg, h)
<1>1. p.state = "FREED" /\ p = FreedPcb /\ (c.alloc => c.aborted) /\ (c.aborted => c.client_closed)
  BY DEF Inv, CtlInv, DeadInv, PcbInv
<1>2. ~IsOpen(c)
  BY <1>1 DEF IsOpen
<1>3. DeadInv(c, p, "null", "idle")
  BY <1>1 DEF DeadInv, Callbacks
<1> QED BY <1>1, <1>2, <1>3, FreedFacts, PcbAlone, SMTT(30), Z3T(30)

\* No segment is a segment without data.
LEMMA NoSegTyped == NoSeg \in Segment
<1>1. PICK none \in Seq(Nat) : none = <<>>
  BY Nothing, Zenon
<1> QED BY <1>1 DEF NoSeg, Segment

\* d: what badvpn__dead is, or would be if there were a callback to return from.
LEMMA SentReturnsStep ==
    ASSUME IInv, NEW w \in Worlds, NEW d, d = w.dead \/ (w.dead = "null" /\ d = "no"),
           Inv(w.client, w.pcb, w.socks, d, "inSent", seg, hist'), hist' \in Hist, SentReturns(w)
    PROVE  IInv' /\ client' = w.client
<1> DEFINE q == IF w.dead = "aborted" THEN w.pcb ELSE tcp_input_delayed_close(w.pcb)
<1>1. /\ client' = w.client /\ pcb' = q /\ socks' = w.socks /\ dead' = "null"
      /\ IF w.dead = "aborted" THEN InputOver
         ELSE IF w.pcb.tf_closed THEN InputOver ELSE pc' = "data" /\ seg' = seg
  BY DEF SentReturns, Leave, Becomes, Worlds
<1>2. w.client \in Client /\ w.pcb \in Pcb /\ w.socks \in Socks /\ seg \in Segment
  BY DEF Worlds, IInv, TypeOK
<1>3. "inSent" \in Callbacks
  BY SMTT(30), Z3T(30) DEF Callbacks
<1>4. CASE w.dead = "aborted"
  <2>1. q = w.pcb /\ pc' = "idle" /\ seg' = NoSeg
    BY <1>1, <1>4 DEF InputOver
  <2>2. Inv(w.client, w.pcb, w.socks, "null", "idle", NoSeg, hist')
    BY <1>2, <1>3, <1>4, AbortedStage
  <2>3. TypeOK'
    BY <1>1, <1>2, <2>1, NoSegTyped, SMTT(30), Z3T(30) DEF TypeOK
  <2> QED BY <1>1, <2>1, <2>2, <2>3 DEF IInv
<1>5. CASE w.dead # "aborted" /\ w.pcb.tf_closed
  <2>1. q = FreedPcb /\ pc' = "idle" /\ seg' = NoSeg
    BY <1>1, <1>5 DEF InputOver, tcp_input_delayed_close
  <2>2. ~IsOpen(w.client)
    BY <1>5, Zenon DEF Inv, CtlInv, OwnInv
  <2>3. DeadInv(w.client, FreedPcb, "null", "idle")
    BY FreedFacts, Zenon DEF Inv, CtlInv, DeadInv, Callbacks
  <2>4. Inv(w.client, FreedPcb, w.socks, "null", "idle", NoSeg, hist')
    BY <2>2, <2>3, FreedFacts, PcbAlone, Zenon
  <2>5. TypeOK'
    BY <1>1, <1>2, <2>1, NoSegTyped, FreedTyped, SMTT(30), Z3T(30) DEF TypeOK
  <2> QED BY <1>1, <2>1, <2>4, <2>5 DEF IInv
<1>6. CASE w.dead # "aborted" /\ ~w.pcb.tf_closed
  <2>1. q = w.pcb /\ pc' = "data" /\ seg' = seg /\ d # "aborted"
    BY <1>1, <1>6 DEF tcp_input_delayed_close
  <2>2. Inv(w.client, w.pcb, w.socks, "null", "data", seg, hist')
    BY <1>2, <2>1, NextStage
  <2>3. TypeOK'
    BY <1>1, <1>2, <2>1 DEF TypeOK
  <2> QED BY <1>1, <2>1, <2>2, <2>3 DEF IInv
<1> QED BY <1>4, <1>5, <1>6

\* client_sent_func returns after the receive it started.
LEMMA InSentReturnsStep == ASSUME IInv, InSentReturns PROVE IInv' /\ UpStep /\ DownStep
<1>1. pc = "inSent" /\ SentReturns(World) /\ hist' = hist
  BY DEF InSentReturns
<1>2. /\ World \in Worlds /\ World.client = client /\ World.pcb = pcb
      /\ World.socks = socks /\ World.dead = dead
  BY WorldTyped DEF IInv
<1>3. hist' \in Hist /\ Inv(client, pcb, socks, dead, "inSent", seg, hist')
  BY <1>1 DEF IInv, TypeOK
<1>4. Inv(World.client, World.pcb, World.socks, World.dead, "inSent", seg, hist')
  BY <1>2, <1>3
<1>5. IInv' /\ client' = World.client
  BY <1>1, <1>2, <1>3, <1>4, SentReturnsStep, Zenon
<1> QED BY <1>2, <1>5 DEF UpStep, DownStep

\* client_recv_func returns after the send it started.
LEMMA InRecvReturnsStep == ASSUME IInv, InRecvReturns PROVE IInv' /\ UpStep /\ DownStep
<1>1. /\ pc = "inRecv" /\ hist' = hist /\ client' = client /\ pcb' = pcb /\ socks' = socks /\ dead' = "null"
      /\ IF dead = "aborted" THEN InputOver ELSE pc' = "fin" /\ seg' = seg
  BY DEF InRecvReturns, Leave, Becomes, World
<1>2. client \in Client /\ pcb \in Pcb /\ seg \in Segment /\ pc \in Callbacks
  BY <1>1, SMTT(30), Z3T(30) DEF IInv, TypeOK, Callbacks
<1>3. CASE dead = "aborted"
  <2>1. pc' = "idle" /\ seg' = NoSeg
    BY <1>1, <1>3 DEF InputOver
  <2>2. Inv(client, pcb, socks, "null", "idle", NoSeg, hist)
    BY <1>2, <1>3, AbortedStage, SMTT(30), Z3T(30) DEF IInv
  <2>3. TypeOK'
    BY <1>1, <2>1, NoSegTyped, SMTT(30), Z3T(30) DEF IInv, TypeOK
  <2> QED BY <1>1, <2>1, <2>2, <2>3 DEF IInv, UpStep, DownStep
<1>4. CASE dead # "aborted"
  <2>1. pc' = "fin" /\ seg' = seg
    BY <1>1, <1>4
  <2>2. Inv(client, pcb, socks, "null", "fin", seg, hist)
    BY <1>1, <1>2, <1>4, NextStage DEF IInv
  <2>3. TypeOK'
    BY <1>1, <2>1 DEF IInv, TypeOK
  <2> QED BY <1>1, <2>1, <2>2, <2>3 DEF IInv, UpStep, DownStep
<1> QED BY <1>3, <1>4

\* listener_accept_func returns, and the segment's data goes through the window.
LEMMA AcceptReturnsStep == ASSUME IInv, AcceptReturns PROVE IInv' /\ UpStep /\ DownStep
<1> DEFINE a == Accepted(pcb, seg.data, seg.fin)
           received == [tcp_receive(pcb, a) EXCEPT !.state = IF a.fin THEN "CLOSE_WAIT" ELSE pcb.state]
           q == IF dead = "aborted" THEN pcb ELSE received
<1>1. /\ pc = "inAccept" /\ hist' = hist /\ client' = client /\ pcb' = q /\ socks' = socks /\ dead' = "null"
      /\ IF dead = "aborted" THEN InputOver
         ELSE pc' = "data" /\ seg' = [acked |-> 0, data |-> a.data, fin |-> a.fin]
  <2> DEFINE w == [World EXCEPT !.pcb = IF dead = "aborted" THEN @ ELSE received]
  <2>1. /\ World \in Worlds /\ World.client = client /\ World.pcb = pcb
        /\ World.socks = socks /\ World.dead = dead
    BY WorldTyped DEF IInv
  <2>2. w = [World EXCEPT !.pcb = q]
    BY <2>1
  <2>3. /\ pc = "inAccept" /\ hist' = hist
        /\ Leave(w, pc' = "data" /\ seg' = [acked |-> 0, data |-> a.data, fin |-> a.fin])
    BY DEF AcceptReturns
  <2> HIDE DEF a, received, q, w
  <2>4. w.client = client /\ w.pcb = q /\ w.socks = socks /\ w.dead = dead
    BY <2>1, <2>2 DEF Worlds
  <2>5. w \in [client : {client}, pcb : {q}, socks : {socks}, dead : {dead}]
    BY <2>2 DEF World
  <2> QED BY <2>3, <2>4, <2>5 DEF Leave, Becomes
<1>2. client \in Client /\ pcb \in Pcb /\ seg \in Segment /\ hist \in Hist /\ pc \in Callbacks
  BY <1>1 DEF IInv, TypeOK, Callbacks
<1>3. CASE dead = "aborted"
  <2>1. pc' = "idle" /\ seg' = NoSeg /\ q = pcb
    BY <1>1, <1>3 DEF InputOver
  <2>2. Inv(client, pcb, socks, "null", "idle", NoSeg, hist)
    BY <1>2, <1>3, AbortedStage DEF IInv
  <2>3. TypeOK'
    BY <1>1, <2>1, NoSegTyped DEF IInv, TypeOK
  <2> QED BY <1>1, <2>1, <2>2, <2>3 DEF IInv, UpStep, DownStep
<1>4. CASE dead # "aborted"
  <2>1. hist.up = 0 /\ seg.data = Bytes(0, Len(seg.data)) /\ Len(seg.data) \in Nat /\ seg.fin \in BOOLEAN
    BY <1>1, <1>2 DEF IInv, Inv, ByteInv, Segment
  <2>2. PICK m \in Nat, x \in 0..TCP_WND :
            /\ a.data = Bytes(0, m) /\ a.data \in Seq(Nat) /\ Len(a.data) = m /\ a.fin \in BOOLEAN
            /\ x + m <= pcb.rcv_wnd
            /\ tcp_receive(pcb, a) = [pcb EXCEPT !.rcv_wnd = x]
    <3>1. a = Accepted(pcb, Bytes(0, Len(seg.data)), seg.fin)
      BY <2>1
    <3> HIDE DEF a
    <3>2. PICK n \in Nat, fin \in BOOLEAN : n = Len(seg.data) /\ fin = seg.fin
      BY <2>1, Zenon
    <3>3. a = Accepted(pcb, Bytes(0, n), fin) /\ 0 \in Nat /\ pcb \in Pcb
      BY <1>2, <3>1, <3>2
    <3>4. \E m \in Nat, x \in 0..TCP_WND : Received(pcb, 0, a, m, x)
      BY <3>3, ReceiveOutcome
    <3> QED BY <3>4, Zenon DEF Received
  <2> DEFINE st == IF a.fin THEN "CLOSE_WAIT" ELSE pcb.state
  <2>3. q = [pcb EXCEPT !.rcv_wnd = x, !.state = st]
    BY <1>2, <1>4, <2>2 DEF Pcb
  <2>4. pcb.state # "FREED" /\ pcb.state # "SYN_RCVD" /\ ~client.aborted
    BY <1>1, <1>2, <1>4, SMTT(30), Z3T(30) DEF IInv, Inv, CtlInv, DeadInv, PcbInv
  <2>5. st \in PcbStates /\ st # "FREED" /\ st # "SYN_RCVD" /\ (IsOpen(client) => st \in {"ESTABLISHED", "CLOSE_WAIT"})
    BY <1>2, <2>4 DEF Pcb, PcbStates, IInv, Inv, CtlInv, OwnInv
  <2> HIDE DEF q, st
  <2>6. /\ q \in Pcb /\ q.state = st /\ q.rcv_wnd = x /\ q.rxclosed = pcb.rxclosed
        /\ q.err = pcb.err /\ q.recv = pcb.recv /\ q.sent = pcb.sent /\ q.sndq = pcb.sndq
        /\ q.refused = pcb.refused /\ q.input = pcb.input /\ q.tf_closed = pcb.tf_closed
    BY <1>2, <2>3, <2>5, Zenon DEF Pcb
  <2> DEFINE g == [acked |-> 0, data |-> a.data, fin |-> a.fin]
  <2>7. g \in Segment /\ g.acked = 0 /\ g.data = Bytes(0, m) /\ Len(g.data) = m
    BY <2>2 DEF Segment
  <2> HIDE DEF g
  <2>8. pc' = "data" /\ seg' = g
    BY <1>1, <1>4, SMTT(30), Z3T(30) DEF g
  <2>9. TypeOK'
    BY <1>1, <1>2, <2>6, <2>7, <2>8, SMTT(30), Z3T(30) DEF IInv, TypeOK
  <2>10. PcbInv(q, "data")
    BY <1>1, <2>4, <2>5, <2>6, SMTT(30), Z3T(30) DEF IInv, Inv, CtlInv, PcbInv
  <2>11. DeadInv(client, q, "null", "data")
    BY <2>4, <2>5, <2>6, SMTT(30), Z3T(30) DEF DeadInv, Callbacks
  <2>12. CASE ~IsOpen(client)
    <3>1. ~q.err /\ ~q.recv /\ ~q.sent
      BY <2>6, <2>12, ZenonT(30) DEF IInv, Inv, CtlInv, OwnInv
    <3>2. Inv(client, q, socks, "null", "data", g, hist)
      BY <2>5, <2>6, <2>10, <2>11, <2>12, <3>1, PcbAlone, SMTT(30), Z3T(30) DEF IInv
    <3> QED BY <1>1, <2>8, <2>9, <3>2 DEF IInv, UpStep, DownStep
  <2>13. CASE IsOpen(client)
    <3>1. OwnInv(client, q)
      BY <2>5, <2>6, <2>13, Zenon DEF IInv, Inv, CtlInv, OwnInv
    <3>2. QueueInv(client, q, "data", g)
      <4>1. InFlight(pc, seg) = 0 /\ InFlight("data", g) = 0 /\ Unhanded(pc, seg) = 0 /\ Unhanded("data", g) = m
        BY <1>1, <2>7 DEF InFlight, Unhanded
      <4>2. ~client.socks_closed => x + Len(client.buf) + m <= TCP_WND
        <5>1. /\ ~client.socks_closed => pcb.rcv_wnd + Len(client.buf) + 0 <= TCP_WND
              /\ pcb.rcv_wnd \in Nat /\ Len(client.buf) \in Nat /\ TCP_WND \in Nat
          BY <1>2, <2>13, <4>1, WindowAssumption DEF IInv, Inv, QueueInv, Pcb, Client
        <5> QED BY <2>2, <5>1, SMTT(30), Z3T(30)
      <4> QED BY <2>6, <2>13, <4>1, <4>2, Zenon DEF IInv, Inv, QueueInv
    <3>3. ByteInv(client, q, "data", g, hist)
      <4>1. g.data = Bytes(hist.up, Len(g.data))
        BY <2>1, <2>7, Zenon
      <4> QED BY <2>5, <2>6, <2>13, <4>1, Zenon DEF IInv, Inv, ByteInv
    <3>4. Inv(client, q, socks, "null", "data", g, hist)
      BY <2>10, <2>11, <3>1, <3>2, <3>3, SMTT(30), Z3T(30) DEF IInv, Inv, CtlInv
    <3> QED BY <1>1, <2>8, <2>9, <3>4 DEF IInv, UpStep, DownStep
  <2> QED BY <2>12, <2>13
<1> QED BY <1>3, <1>4

\* A segment comes in: lwIP has dealt with it, and goes on to tell the application.
LEMMA InputStarts ==
    ASSUME IInv, NEW k \in 0..TCP_SND_BUF, NEW ackfin \in BOOLEAN, NEW n \in 0..MaxUp, NEW fin \in BOOLEAN,
           tcp_input(k, ackfin, n, fin)
    PROVE  IInv' /\ UpStep /\ DownStep
<1> DEFINE a == Accepted(pcb, Bytes(hist.up, n), fin)
           g == [acked |-> k, data |-> a.data, fin |-> a.fin]
           h == [hist EXCEPT !.toApp = @ \o SubSeq(pcb.sndq, 1, k)]
           rest == Drop(pcb.sndq, k)
           st == NextState(pcb.state, a.fin, ackfin)
<1>1. /\ pc = "idle" /\ pcb.state \in ActiveStates \ {"SYN_RCVD"} /\ k <= Len(pcb.sndq)
      /\ pcb' = tcp_process(pcb, k, ackfin, a) /\ seg' = g /\ hist' = h /\ pc' = "sent"
      /\ client' = client /\ socks' = socks /\ dead' = dead
  BY DEF tcp_input
<1>2. /\ client \in Client /\ pcb \in Pcb /\ hist \in Hist /\ pcb.sndq \in Seq(Nat) /\ hist.toApp \in Seq(Nat)
      /\ hist.up \in Nat /\ n \in Nat /\ k \in 0..Len(pcb.sndq)
  BY <1>1, SizeAssumption DEF IInv, TypeOK, Pcb, Hist
<1>3. PICK m \in Nat, x \in 0..TCP_WND : Received(pcb, hist.up, a, m, x)
  BY <1>2, ReceiveOutcome, Zenon
<1>4. /\ a.data = Bytes(hist.up, m) /\ a.data \in Seq(Nat) /\ Len(a.data) = m /\ a.fin \in BOOLEAN
      /\ x + m <= pcb.rcv_wnd /\ tcp_receive(pcb, a) = [pcb EXCEPT !.rcv_wnd = x]
  BY <1>3, Zenon DEF Received
<1> HIDE DEF a
<1>5. g \in Segment /\ g.acked = k /\ g.data = Bytes(hist.up, m) /\ Len(g.data) = m
  BY <1>4 DEF Segment
<1>6. /\ rest \in Seq(Nat) /\ Len(rest) = Len(pcb.sndq) - k
      /\ SubSeq(pcb.sndq, 1, k) \in Seq(Nat)
      /\ (hist.toApp \o SubSeq(pcb.sndq, 1, k)) \o rest = hist.toApp \o pcb.sndq
  BY <1>2, Cut, MoveOn, Zenon
<1>7. hist.toApp \o SubSeq(pcb.sndq, 1, k) \in Seq(Nat)
  BY <1>2, <1>6, Joined
<1>8. /\ h \in Hist /\ h.up = hist.up /\ h.down = hist.down /\ h.toSocks = hist.toSocks
      /\ h.toApp = hist.toApp \o SubSeq(pcb.sndq, 1, k)
      /\ h.appEnded = hist.appEnded /\ h.socksEnded = hist.socksEnded
  BY <1>2, <1>7, Zenon DEF Hist
<1>9. /\ st \in PcbStates /\ st # "FREED" /\ st # "SYN_RCVD"
      /\ pcb.state \in {"ESTABLISHED", "CLOSE_WAIT"} => st \in {"ESTABLISHED", "CLOSE_WAIT"}
  BY <1>1 DEF NextState, ActiveStates, PcbStates
<1> HIDE DEF g, h, st
<1>10. PICK finq \in BOOLEAN, over \in BOOLEAN :
           finq = (pcb.finq /\ ~ackfin) /\ over = (pcb.state = "LAST_ACK" /\ ackfin)
  BY Zenon
<1>11. pcb' = [pcb EXCEPT !.rcv_wnd = x, !.state = st, !.sndq = rest, !.finq = finq,
                          !.tf_closed = over, !.input = TRUE]
  <2> DEFINE r == [pcb EXCEPT !.rcv_wnd = x]
  <2>1. r.sndq = pcb.sndq /\ r.finq = pcb.finq /\ r \in Pcb
    BY <1>2, SMTT(30), Z3T(30) DEF Pcb
  <2>2. pcb' = [r EXCEPT !.state = st, !.sndq = rest, !.finq = finq, !.tf_closed = over, !.input = TRUE]
    <3> HIDE DEF r
    <3>1. tcp_receive(pcb, a) = r
      BY <1>4 DEF r
    <3> QED BY <1>1, <1>10, <2>1, <3>1, Zenon DEF tcp_process, st, Drop
  <2> QED BY <1>2, <2>2 DEF Pcb
<1> HIDE DEF rest
<1>12. /\ pcb' \in Pcb /\ pcb'.state = st /\ pcb'.rcv_wnd = x /\ pcb'.rxclosed = pcb.rxclosed
       /\ pcb'.err = pcb.err /\ pcb'.recv = pcb.recv /\ pcb'.sent = pcb.sent /\ pcb'.sndq = rest
       /\ pcb'.refused = pcb.refused /\ pcb'.input /\ pcb'.tf_closed = over
  BY <1>2, <1>6, <1>9, <1>11, ZenonT(30) DEF Pcb
<1>13. TypeOK'
  BY <1>1, <1>5, <1>8, <1>12, SMTT(30), Z3T(30) DEF IInv, TypeOK
<1>14. PcbInv(pcb', "sent")
  BY <1>9, <1>12 DEF PcbInv, IInv, Inv, CtlInv
<1>15. pcb.state # "FREED" /\ pcb.state # "SYN_RCVD"
  BY <1>1 DEF ActiveStates
<1>16. DeadInv(client, pcb', dead, "sent")
  BY <1>1, <1>9, <1>12, <1>15, Zenon DEF IInv, Inv, CtlInv, DeadInv, Callbacks
<1>17. CASE ~IsOpen(client)
  <2>1. ~pcb'.err /\ ~pcb'.recv /\ ~pcb'.sent /\ pcb'.state # "SYN_RCVD" /\ "sent" # "inAccept"
    BY <1>9, <1>12, <1>17, ZenonT(30) DEF IInv, Inv, CtlInv, OwnInv
  <2>2. Inv(client, pcb', socks, dead, "sent", g, h)
    BY <1>8, <1>12, <1>14, <1>16, <1>17, <2>1, PcbAlone, SMTT(30), Z3T(30) DEF IInv
  <2> QED BY <1>1, <1>13, <2>2, Zenon DEF IInv, UpStep, DownStep
<1>18. CASE IsOpen(client)
  <2>1. ~over
    BY <1>10, <1>18, Zenon DEF IInv, Inv, CtlInv, OwnInv
  <2>2. OwnInv(client, pcb')
    BY <1>9, <1>12, <1>18, <2>1, ZenonT(30) DEF IInv, Inv, CtlInv, OwnInv
  <2>3. QueueInv(client, pcb', "sent", g)
    <3>1. /\ Len(pcb.sndq) <= TCP_SND_BUF /\ client.tcp_pending = Len(pcb.sndq) + 0
          /\ ~client.socks_up => client.tcp_pending = 0 /\ client.rbuf = <<>>
          /\ ~client.socks_closed => pcb.rcv_wnd + Len(client.buf) + 0 <= TCP_WND
      BY <1>1, <1>18, Zenon DEF IInv, Inv, QueueInv, InFlight, Unhanded
    <3>2. /\ Len(pcb.sndq) \in Nat /\ client.tcp_pending \in Nat /\ Len(client.buf) \in Nat
          /\ pcb.rcv_wnd \in Nat /\ TCP_WND \in Nat /\ TCP_SND_BUF \in Nat
      BY <1>2, WindowAssumption DEF Client, Pcb
    <3>3. InFlight("sent", g) = k /\ Unhanded("sent", g) = m
      BY <1>5 DEF InFlight, Unhanded
    <3>4. Len(rest) <= TCP_SND_BUF /\ client.tcp_pending = Len(rest) + k
      BY <1>6, <3>1, <3>2
    <3>5. ~client.socks_closed => x + Len(client.buf) + m <= TCP_WND
      BY <1>4, <3>1, <3>2, SMTT(30), Z3T(30)
    <3> QED BY <1>12, <3>1, <3>3, <3>4, <3>5 DEF QueueInv
  <2>4. ByteInv(client, pcb', "sent", g, h)
    <3>1. h.toApp \o pcb'.sndq \o client.rbuf = Bytes(0, h.down)
      <4>1. hist.toApp \o pcb.sndq \o client.rbuf = Bytes(0, hist.down)
        BY <1>18, Zenon DEF IInv, Inv, ByteInv
      <4> QED BY <1>6, <1>8, <1>12, <4>1, Zenon
    <3>2. h.toSocks \o client.buf = Bytes(0, h.up)
      BY <1>8, <1>18, Zenon DEF IInv, Inv, ByteInv, IsOpen
    <3>3. g.data = Bytes(h.up, Len(g.data))
      BY <1>5, <1>8, Zenon
    <3> QED BY <1>9, <1>12, <3>1, <3>2, <3>3 DEF ByteInv
  <2>5. EndInv(client, h)
    BY <1>8, Zenon DEF IInv, Inv, EndInv
  <2>6. Inv(client, pcb', socks, dead, "sent", g, h)
    BY <1>14, <1>16, <2>2, <2>3, <2>4, <2>5, SMTT(30), Z3T(30) DEF IInv, Inv, CtlInv
  <2> QED BY <1>1, <1>13, <2>6 DEF IInv, UpStep, DownStep
<1> QED BY <1>17, <1>18

\* Nothing to tell the application: without SOCKS there is nothing it could have acknowledged.
LEMMA NothingSent ==
    ASSUME IInv, pc = "sent", ~(seg.acked > 0 /\ pcb.sent), SentReturns(World), UNCHANGED hist
    PROVE  IInv' /\ UpStep /\ DownStep
<1>1. client \in Client /\ pcb \in Pcb /\ seg \in Segment /\ hist' = hist /\ hist \in Hist
  BY DEF IInv, TypeOK
<1>2. pcb.state # "FREED" /\ dead = "null"
  BY SMTT(30), Z3T(30) DEF IInv, Inv, CtlInv, DeadInv, Callbacks
<1>3. PcbInv(pcb, "inSent") /\ DeadInv(client, pcb, "no", "inSent")
  BY <1>2, SMTT(30), Z3T(30) DEF IInv, Inv, CtlInv, PcbInv, DeadInv, Callbacks
<1>4. QueueInv(client, pcb, "inSent", seg)
  <2> SUFFICES ASSUME IsOpen(client) PROVE QueueInv(client, pcb, "inSent", seg)
    BY SMTT(30), Z3T(30) DEF QueueInv
  <2>1. /\ Len(pcb.sndq) <= TCP_SND_BUF /\ client.tcp_pending = Len(pcb.sndq) + seg.acked
        /\ ~client.socks_up => client.tcp_pending = 0 /\ client.rbuf = <<>>
        /\ ~client.socks_closed => pcb.rcv_wnd + Len(client.buf) + Len(seg.data) <= TCP_WND
    BY SMTT(30), Z3T(30) DEF IInv, Inv, QueueInv, InFlight, Unhanded
  <2>2. pcb.sent <=> client.socks_up
    BY DEF IInv, Inv, CtlInv, OwnInv
  <2>3. seg.acked \in Nat /\ Len(pcb.sndq) \in Nat
    BY <1>1, SMTT(30), Z3T(30) DEF Segment, Pcb
  <2>4. seg.acked = 0
    BY <2>1, <2>2, <2>3
  <2>5. InFlight("inSent", seg) = 0 /\ Unhanded("inSent", seg) = Len(seg.data)
    BY DEF InFlight, Unhanded
  <2> QED BY <2>1, <2>3, <2>4, <2>5, SMTT(30), Z3T(30) DEF QueueInv
<1>5. ByteInv(client, pcb, "inSent", seg, hist)
  BY Zenon DEF IInv, Inv, ByteInv
<1>6. Inv(client, pcb, socks, "no", "inSent", seg, hist)
  BY <1>3, <1>4, <1>5 DEF IInv, Inv, CtlInv
<1>7. /\ World \in Worlds /\ World.client = client /\ World.pcb = pcb
      /\ World.socks = socks /\ World.dead = dead
  BY WorldTyped, SMTT(30), Z3T(30) DEF IInv
<1>8. Inv(World.client, World.pcb, World.socks, "no", "inSent", seg, hist')
  BY <1>1, <1>6, <1>7, SMTT(30), Z3T(30)
<1>9. IInv' /\ client' = World.client
  BY <1>1, <1>2, <1>7, <1>8, SentReturnsStep
<1> QED BY <1>7, <1>9 DEF UpStep, DownStep

\* client_sent_func takes note of what was acknowledged, then passes on what waits, or frees the
\* client whose last byte that was.
LEMMA SentFuncStep ==
    ASSUME IInv, pc = "sent", pcb.sent, NEW n \in 0..TCP_SND_BUF, NEW out \in BOOLEAN, client_sent_func(n, out)
    PROVE  IInv' /\ UpStep /\ DownStep
<1> DEFINE w == [World EXCEPT !.dead = "no", !.client.tcp_pending = @ - seg.acked]
           v == client_socks_recv_send_out(w, n, out)
           more == client.rbuf # <<>>
           aborts == SendOutAborts(w, n, out)
           h == hist'
           left == client.tcp_pending - seg.acked
<1>1. /\ n \in Writable(w) /\ AppEnds(more /\ aborts)
      /\ IF more /\ ~aborts /\ v.client.rbuf = <<>> /\ ~client.socks_closed
         THEN Becomes(client_socks_recv_initiate(v)) /\ pc' = "inSent" /\ seg' = seg
         ELSE SentReturns(IF more THEN v
                          ELSE IF client.socks_closed /\ w.client.tcp_pending = 0 THEN client_free_client(w)
                          ELSE w)
  BY SMTT(30), Z3T(30) DEF client_sent_func
<1>2. /\ client \in Client /\ pcb \in Pcb /\ socks \in Socks /\ seg \in Segment /\ hist \in Hist
      /\ pcb.sndq \in Seq(Nat) /\ client.rbuf \in Seq(Nat) /\ seg.acked \in Nat /\ client.tcp_pending \in Nat
  BY SMTT(30), Z3T(30) DEF IInv, TypeOK, Client, Pcb, Segment
<1>3. IsOpen(client) /\ client.alloc /\ ~client.client_closed /\ client.socks_up /\ ~client.aborted
  BY SMTT(30), Z3T(30) DEF IInv, Inv, CtlInv, OwnInv, DeadInv, IsOpen
<1>4. /\ pcb.state \in {"ESTABLISHED", "CLOSE_WAIT"} /\ ~pcb.refused /\ pcb.input /\ ~pcb.tf_closed /\ dead = "null"
  BY <1>3 DEF IInv, Inv, CtlInv, OwnInv, PcbInv, DeadInv, Callbacks
<1>5. /\ Len(pcb.sndq) <= TCP_SND_BUF /\ left = Len(pcb.sndq) /\ left \in Nat
      /\ ~client.socks_closed => pcb.rcv_wnd + Len(client.buf) + Len(seg.data) <= TCP_WND
  <2>1. /\ Len(pcb.sndq) <= TCP_SND_BUF /\ client.tcp_pending = Len(pcb.sndq) + seg.acked
        /\ ~client.socks_closed => pcb.rcv_wnd + Len(client.buf) + Len(seg.data) <= TCP_WND
    BY <1>3, Zenon DEF IInv, Inv, QueueInv, InFlight, Unhanded
  <2> QED BY <1>2, <2>1, SMTT(30), Z3T(30)
<1>6. /\ h \in Hist /\ h.up = hist.up /\ h.down = hist.down /\ h.toSocks = hist.toSocks
      /\ h.toApp = hist.toApp /\ h.socksEnded = hist.socksEnded
      /\ h.appEnded <=> hist.appEnded \/ (more /\ aborts)
  <2>1. PICK e \in BOOLEAN : e = (hist.appEnded \/ (more /\ aborts))
    BY Zenon
  <2>2. h = [hist EXCEPT !.appEnded = e]
    BY <1>1, <2>1, Zenon DEF AppEnds
  <2>3. e <=> hist.appEnded \/ (more /\ aborts)
    BY <2>1, Zenon
  <2> HIDE DEF aborts, more, h
  <2>4. /\ h \in Hist /\ h.up = hist.up /\ h.down = hist.down /\ h.toSocks = hist.toSocks
        /\ h.toApp = hist.toApp /\ h.socksEnded = hist.socksEnded /\ h.appEnded = e
    BY <1>2, <2>2, Zenon DEF Hist
  <2> QED BY <2>3, <2>4
<1>7. /\ w \in Worlds /\ w.client = [client EXCEPT !.tcp_pending = left] /\ w.pcb = pcb /\ w.socks = socks
      /\ w.dead = "no"
  BY <1>2, <1>5, Zenon DEF World, Worlds, Client
<1> HIDE DEF left, w, v, aborts, h
<1>8. /\ w.client.alloc /\ ~w.client.aborted /\ ~w.client.client_closed /\ w.client.buf = client.buf
      /\ w.client.socks_up /\ w.client.socks_closed = client.socks_closed
      /\ w.client.rbuf = client.rbuf /\ w.client.tcp_pending = left
  BY <1>2, <1>3, <1>7 DEF Client
<1>9. IsOpen(w.client)
  BY <1>8 DEF IsOpen
<1>10. CtlInv(w.client, w.pcb, w.socks, w.dead, "inSent")
  <2>1. PcbInv(pcb, "inSent")
    BY <1>4 DEF IInv, Inv, CtlInv, PcbInv
  <2>2. OwnInv(w.client, pcb)
    BY <1>3, <1>8, <1>9, ZenonT(30) DEF IInv, Inv, CtlInv, OwnInv
  <2>3. SocksInv(w.client, socks)
    BY <1>3, <1>8 DEF IInv, Inv, CtlInv, SocksInv
  <2>4. DeadInv(w.client, pcb, "no", "inSent")
    BY <1>4, <1>8, Zenon DEF DeadInv, Callbacks
  <2> QED BY <1>7, <2>1, <2>2, <2>3, <2>4, SMTT(30), Z3T(30) DEF CtlInv
<1>11. QueueInv(w.client, w.pcb, "inSent", seg)
  <2>1. InFlight("inSent", seg) = 0 /\ Unhanded("inSent", seg) = Len(seg.data)
    BY DEF InFlight, Unhanded
  <2> QED BY <1>5, <1>7, <1>8, <2>1 DEF QueueInv
<1>12. ByteInv(w.client, w.pcb, "inSent", seg, h)
  BY <1>3, <1>4, <1>6, <1>7, <1>8, ZenonT(30) DEF IInv, Inv, ByteInv
<1>13. EndInv(w.client, h)
  BY <1>3, <1>6, <1>8, Zenon DEF IInv, Inv, EndInv
<1>14. /\ ~client.socks_closed /\ client.buf # <<>> => socks.sending > 0
       /\ ~client.socks_closed => (socks.receiving <=> client.rbuf = <<>>)
       /\ client.socks_closed => ~socks.receiving
  BY <1>3, Zenon DEF IInv, Inv, StallInv, CtlInv, SocksInv
<1>15. client.socks_closed => h.socksEnded
  BY <1>3, <1>6, Zenon DEF IInv, Inv, EndInv
<1>16. hist.toSocks \o client.buf = Bytes(0, hist.up) /\ hist.toApp \o pcb.sndq \o client.rbuf = Bytes(0, hist.down)
  BY <1>3, ZenonT(30) DEF IInv, Inv, ByteInv
<1>17. client.buf = <<>> => h.toSocks = Bytes(0, h.up)
  BY <1>2, <1>6, <1>16, UpDone, SMTT(30), Z3T(30)
<1>18. CASE more
  <2>1. SentOut(w, v, n, out, "inSent", seg, h)
    <3>1. v = client_socks_recv_send_out(w, n, out)
      BY DEF v
    <3>2. w.client.rbuf # <<>> /\ ~w.socks.receiving
      BY <1>7, <1>8, <1>14, <1>18
    <3>3. ~w.client.socks_closed /\ w.client.buf # <<>> => w.socks.sending > 0
      BY <1>7, <1>8, <1>14
    <3>4. SendOutAborts(w, n, out) => h.appEnded
      BY <1>6, <1>18 DEF aborts
    <3>5. w \in Worlds /\ w.client.socks_up /\ seg \in Segment /\ h \in Hist /\ n \in Writable(w)
      BY <1>1, <1>2, <1>6, <1>7, <1>8
    <3>6. "inSent" \in {"idle"} \cup Callbacks
      BY DEF Callbacks
    <3> QED BY <1>9, <1>10, <1>11, <1>12, <1>13, <3>1, <3>2, <3>3, <3>4, <3>5, <3>6, SendOutKeeps, ZenonT(30)
  <2>2. /\ v \in Worlds
        /\ aborts => /\ Inv(v.client, v.pcb, v.socks, v.dead, "inSent", seg, h)
                     /\ ~v.client.alloc => client.buf = <<>> \/ client.socks_closed
        /\ ~aborts => /\ v.client.alloc /\ v.client.socks_closed = client.socks_closed
                      /\ v.client.rbuf # <<>> \/ client.socks_closed
                            => Inv(v.client, v.pcb, v.socks, v.dead, "inSent", seg, h)
                      /\ v.client.rbuf = <<>> /\ ~client.socks_closed
                            => Inv(v.client, v.pcb, [v.socks EXCEPT !.receiving = TRUE], v.dead, "inSent", seg, h)
    BY <1>8, <2>1 DEF SentOut, aborts
  <2>3. CASE aborts \/ v.client.rbuf # <<>> \/ client.socks_closed
    <3>1. SentReturns(v) /\ Inv(v.client, v.pcb, v.socks, v.dead, "inSent", seg, h)
      BY <1>1, <1>18, <2>2, <2>3
    <3>2. IInv' /\ client' = v.client
      BY <1>6, <2>2, <3>1, SentReturnsStep DEF h
    <3>3. UpStep
      BY <1>15, <1>17, <2>2, <3>2 DEF UpStep, h
    <3>4. DownStep
      BY <1>6, <1>18, <2>2, <3>2 DEF DownStep, h
    <3> QED BY <3>2, <3>3, <3>4
  <2>4. CASE ~aborts /\ v.client.rbuf = <<>> /\ ~client.socks_closed
    <3>1. Becomes(client_socks_recv_initiate(v)) /\ pc' = "inSent" /\ seg' = seg
      BY <1>1, <1>18, <2>4
    <3>2. /\ client_socks_recv_initiate(v) \in Worlds /\ client' = v.client /\ pcb' = v.pcb /\ dead' = v.dead
          /\ socks' = [v.socks EXCEPT !.receiving = TRUE] /\ socks' \in Socks
      BY <2>2, <3>1, RecvInitiate DEF Becomes, Worlds
    <3>3. TypeOK'
      BY <1>2, <1>6, <2>2, <3>1, <3>2 DEF TypeOK, Worlds, Callbacks, h
    <3>4. Inv(v.client, v.pcb, socks', v.dead, "inSent", seg, h)
      BY <2>2, <2>4, <3>2
    <3>5. UpStep /\ DownStep
      BY <2>2, <2>4, <3>2 DEF UpStep, DownStep
    <3> QED BY <3>1, <3>2, <3>3, <3>4, <3>5, SMTT(30), Z3T(30) DEF IInv, h
  <2> QED BY <2>3, <2>4
<1>19. CASE ~more /\ client.socks_closed /\ left = 0
  <2> DEFINE u == client_free_client(w)
             q == tcp_close(RemoveCallbacks(pcb))
  <2>1. u \in Worlds /\ ClientOver(w, u, q, FALSE)
    BY <1>4, <1>7, <1>8, FreeClientOutcome, Zenon
  <2>2. /\ q \in Pcb /\ PcbInv(q, "inSent") /\ ~q.err /\ ~q.recv /\ ~q.sent
        /\ q.state # "SYN_RCVD" /\ q.state # "FREED"
    <3>1. /\ q \in Pcb
          /\ ~q.err /\ ~q.recv /\ ~q.sent /\ ~q.refused
          /\ q.state = "FREED" => q = FreedPcb
          /\ q.state # "SYN_RCVD"
          /\ q.input <=> pcb.input /\ q.state # "FREED"
          /\ pcb.input => q.state # "FREED"
      BY <1>2, <1>4, CloseFacts, SMTT(30), Z3T(30)
    <3> HIDE DEF q
    <3> QED BY <1>4, <3>1, SMTT(30), Z3T(30) DEF PcbInv
  <2> HIDE DEF u, q
  <2>3. SentReturns(u)
    BY <1>1, <1>8, <1>19 DEF u
  <2>4. u.client = NoClient
    BY <1>8, <1>19, <2>1 DEF ClientOver
  <2>5. Inv(u.client, u.pcb, u.socks, u.dead, "inSent", seg, h)
    <3>1. SocksInv(w.client, w.socks) /\ DeadInv(w.client, w.pcb, w.dead, "inSent") /\ w.pcb.state # "FREED"
      BY <1>4, <1>7, <1>10 DEF CtlInv
    <3>2. w.client.socks_up /\ ~w.client.socks_closed /\ w.client.buf # <<>> => w.socks.sending > 0
      BY <1>8, <1>19, SMTT(30), Z3T(30)
    <3>3. h.toSocks \o w.client.buf = Bytes(0, h.up)
      BY <1>6, <1>8, <1>16
    <3>4. h.appEnded \/ w.client.socks_closed
      BY <1>8, <1>19
    <3>5. seg \in Segment /\ h \in Hist /\ w \in Worlds /\ "inSent" # "inAccept"
          /\ "inSent" \notin {"sent", "data", "fin"}
      BY <1>2, <1>6, <1>7
    <3> QED BY <1>9, <2>1, <2>2, <3>1, <3>2, <3>3, <3>4, <3>5, ClientOverKeeps, Zenon
  <2>6. IInv' /\ client' = u.client
    BY <1>6, <2>1, <2>3, <2>5, SentReturnsStep, Zenon DEF h
  <2>7. UpStep
    BY <1>15, <1>19 DEF UpStep, h
  <2>8. DownStep
    <3>1. Len(pcb.sndq) = 0
      BY <1>5, <1>19, SMTT(30), Z3T(30)
    <3>2. h.toApp \o pcb.sndq \o client.rbuf = Bytes(0, h.down) /\ client.rbuf = <<>>
      BY <1>6, <1>16, <1>19
    <3>3. h.toApp = Bytes(0, h.down)
      BY <1>2, <1>6, <3>1, <3>2, DownDone, ZenonT(30)
    <3> QED BY <3>3 DEF DownStep, h
  <2> QED BY <2>6, <2>7, <2>8
<1>20. CASE ~more /\ ~(client.socks_closed /\ left = 0)
  <2>1. SentReturns(w)
    BY <1>1, <1>8, <1>20, Zenon
  <2>2. StallInv(w.client, w.socks)
    BY <1>5, <1>7, <1>8, <1>9, <1>14, <1>20, SMTT(30), Z3T(30) DEF StallInv
  <2>3. Inv(w.client, w.pcb, w.socks, w.dead, "inSent", seg, h)
    BY <1>10, <1>11, <1>12, <1>13, <2>2 DEF Inv
  <2>4. IInv' /\ client' = w.client
    BY <1>6, <1>7, <2>1, <2>3, SentReturnsStep, SMTT(30), Z3T(30) DEF h
  <2> QED BY <1>8, <2>4 DEF UpStep, DownStep
<1> QED BY <1>18, <1>19, <1>20

\* tcp_input tells the application what was acknowledged.
LEMMA SentStageStep == ASSUME IInv, SentStage PROVE IInv' /\ UpStep /\ DownStep
<1>1. pc = "sent"
  BY DEF SentStage
<1>2. CASE seg.acked > 0 /\ pcb.sent
  <2>1. PICK n \in 0..TCP_SND_BUF, out \in BOOLEAN : client_sent_func(n, out)
    BY <1>2 DEF SentStage
  <2> QED BY <1>1, <1>2, <2>1, SentFuncStep
<1>3. CASE ~(seg.acked > 0 /\ pcb.sent)
  BY <1>1, <1>3, NothingSent DEF SentStage
<1> QED BY <1>2, <1>3

\* client_recv_func always has room, and the data goes to the buffer and on to the proxy.
LEMMA RecvFuncStep ==
    ASSUME IInv, pc = "data", pcb.recv, seg.data # <<>>, client_recv_func(seg.data)
    PROVE  IInv' /\ UpStep /\ DownStep
<1>0. PICK len \in Nat, used \in Nat : len = Len(seg.data) /\ used = Len(client.buf)
  BY SMTT(30), Z3T(30) DEF IInv, TypeOK, Segment, Client
<1> DEFINE buf == client.buf \o seg.data
           w == [World EXCEPT !.dead = "no", !.client.buf = @ \o seg.data]
           h == [hist EXCEPT !.up = hist.up + len]
<1>1. /\ client \in Client /\ pcb \in Pcb /\ socks \in Socks /\ seg \in Segment /\ hist \in Hist
      /\ client.buf \in Seq(Nat) /\ seg.data \in Seq(Nat)
      /\ hist.up \in Nat /\ hist.toSocks \in Seq(Nat) /\ pcb.rcv_wnd \in Nat
  <2>1. client \in Client /\ pcb \in Pcb /\ socks \in Socks /\ seg \in Segment /\ hist \in Hist
    BY DEF IInv, TypeOK
  <2>2. client.buf \in Seq(Nat) /\ seg.data \in Seq(Nat) /\ hist.up \in Nat /\ hist.toSocks \in Seq(Nat)
    BY <2>1, Zenon DEF Client, Segment, Hist
  <2>3. pcb.rcv_wnd \in Nat
    BY <2>1, WindowAssumption DEF Pcb
  <2> QED BY <2>1, <2>2, <2>3, SMTT(30), Z3T(30)
<1>2. IsOpen(client) /\ client.alloc /\ ~client.client_closed /\ ~client.socks_closed /\ ~client.aborted
  BY Zenon DEF IInv, Inv, CtlInv, OwnInv, DeadInv, IsOpen
<1>3. pcb.state # "FREED" /\ pcb.state # "SYN_RCVD" /\ dead = "null"
  BY <1>2, Zenon DEF IInv, Inv, CtlInv, OwnInv, DeadInv, Callbacks
<1>4. /\ Len(pcb.sndq) <= TCP_SND_BUF /\ client.tcp_pending = Len(pcb.sndq) + 0
      /\ ~client.socks_up => client.tcp_pending = 0 /\ client.rbuf = <<>>
      /\ pcb.rcv_wnd + used + len <= TCP_WND
  BY <1>0, <1>2, Zenon DEF IInv, Inv, QueueInv, InFlight, Unhanded
<1>5. buf \in Seq(Nat) /\ Len(buf) = used + len /\ used + len \in Nat /\ used + len > 0
  <2>1. buf \in Seq(Nat) /\ Len(buf) = Len(client.buf) + Len(seg.data)
    BY <1>1, Joined
  <2>2. len > 0
    BY <1>0, <1>1
  <2>3. used + len \in Nat /\ used + len > 0
    BY <2>2
  <2> HIDE DEF buf
  <2> QED BY <1>0, <2>1, <2>3, Zenon
<1>6. ~(Len(client.buf) + Len(seg.data) > TCP_WND)
  <2>1. ~(used + len > TCP_WND)
    BY <1>1, <1>4, WindowAssumption
  <2> QED BY <1>0, <2>1, Zenon
<1>7. /\ hist' = h
      /\ IF client.buf = <<>> /\ client.socks_up
         THEN Becomes(client_send_to_socks(w)) /\ pc' = "inRecv" /\ seg' = seg
         ELSE Leave(w, pc' = "fin" /\ seg' = seg)
  BY <1>0, <1>1, <1>6 DEF client_recv_func, Hist
<1>8. /\ h \in Hist /\ h.up = hist.up + len /\ h.down = hist.down /\ h.toSocks = hist.toSocks
      /\ h.toApp = hist.toApp /\ h.appEnded = hist.appEnded /\ h.socksEnded = hist.socksEnded
  <2>1. hist.up + len \in Nat
    BY <1>1
  <2> QED BY <1>1, <2>1, Zenon DEF Hist
<1>9. h.toSocks \o buf = Bytes(0, h.up)
  <2>1. (hist.toSocks \o client.buf) \o seg.data = hist.toSocks \o buf
    BY <1>1, Regroup, Zenon
  <2>2. hist.toSocks \o client.buf = Bytes(0, hist.up) /\ seg.data = Bytes(hist.up, len)
    BY <1>0, <1>2, Zenon DEF IInv, Inv, ByteInv
  <2>3. Bytes(0, hist.up) \o Bytes(hist.up, len) = Bytes(0, hist.up + len)
    BY <1>1, BytesJoin, Zenon
  <2> HIDE DEF buf, h
  <2> QED BY <1>8, <2>1, <2>2, <2>3, Zenon
<1> HIDE DEF buf, h
<1>10. w \in Worlds /\ w.client = [client EXCEPT !.buf = buf] /\ w.pcb = pcb /\ w.socks = socks /\ w.dead = "no"
  <2>1. w = [World EXCEPT !.dead = "no", !.client.buf = buf]
    BY <1>1 DEF World, buf
  <2> HIDE DEF w
  <2> QED BY <1>1, <1>5, <2>1, Zenon DEF World, Worlds, Client
<1> HIDE DEF w
<1>11. /\ w.client.alloc /\ ~w.client.aborted /\ ~w.client.client_closed /\ w.client.buf = buf
       /\ w.client.socks_up = client.socks_up /\ ~w.client.socks_closed
       /\ w.client.rbuf = client.rbuf /\ w.client.tcp_pending = client.tcp_pending
  BY <1>1, <1>2, <1>5, <1>10, SMTT(30), Z3T(30) DEF Client
<1>12. IsOpen(w.client)
  BY <1>11 DEF IsOpen
<1>13. PcbInv(pcb, "inRecv") /\ DeadInv(w.client, pcb, "no", "inRecv")
  BY <1>3, <1>11, Zenon DEF IInv, Inv, CtlInv, PcbInv, DeadInv, Callbacks
<1>14. OwnInv(w.client, pcb)
  BY <1>2, <1>11, <1>12, Zenon DEF IInv, Inv, CtlInv, OwnInv
<1>15. QueueInv(w.client, pcb, "inRecv", seg)
  <2>1. InFlight("inRecv", seg) = 0 /\ Unhanded("inRecv", seg) = 0
    BY DEF InFlight, Unhanded
  <2>2. pcb.rcv_wnd + Len(buf) + 0 <= TCP_WND
    <3>1. pcb.rcv_wnd + (used + len) + 0 <= TCP_WND
      BY <1>1, <1>4
    <3> QED BY <1>5, <3>1, Zenon
  <2> QED BY <1>4, <1>11, <2>1, <2>2, Zenon DEF QueueInv
<1>16. ByteInv(w.client, pcb, "inRecv", seg, h)
  BY <1>2, <1>3, <1>8, <1>9, <1>11, Zenon DEF IInv, Inv, ByteInv
<1>17. EndInv(w.client, h)
  BY <1>11, Zenon DEF EndInv
<1>18. ASSUME NEW s, SocksInv(w.client, s), StallInv(w.client, s)
       PROVE  Inv(w.client, pcb, s, "no", "inRecv", seg, h)
  BY <1>13, <1>14, <1>15, <1>16, <1>17, <1>18, ZenonT(30) DEF Inv, CtlInv
<1>19. CASE client.buf = <<>> /\ client.socks_up
  <2> DEFINE s == [socks EXCEPT !.sending = Len(buf)]
  <2>1. s \in Socks /\ s.state = socks.state /\ s.receiving = socks.receiving /\ s.sending = Len(buf)
    BY <1>1, <1>5, Zenon DEF Socks
  <2> HIDE DEF s
  <2>2. Becomes(client_send_to_socks(w)) /\ pc' = "inRecv" /\ seg' = seg
    BY <1>7, <1>19
  <2>3. client' = w.client /\ pcb' = pcb /\ dead' = "no" /\ socks' = s
    BY <1>10, <1>11, <2>2, SendToSocks, ZenonT(30) DEF Becomes, s
  <2>4. socks.state = "UP"
    BY <1>2, <1>19, Zenon DEF IInv, Inv, CtlInv, SocksInv
  <2>5. SocksInv(w.client, s)
    BY <1>2, <1>5, <1>11, <1>19, <2>1, <2>4, SMTT(30), Z3T(30) DEF SocksInv
  <2>6. StallInv(w.client, s)
    <3>1. s.sending > 0
      BY <1>5, <2>1
    <3>2. s.receiving <=> client.rbuf = <<>>
      BY <1>2, <1>19, <2>1, Zenon DEF IInv, Inv, StallInv
    <3>3. client.rbuf # <<>> => client.tcp_pending > 0
      BY <1>2, Zenon DEF IInv, Inv, StallInv
    <3> QED BY <1>11, <3>1, <3>2, <3>3 DEF StallInv
  <2>7. Inv(client', pcb', socks', dead', pc', seg', hist')
    BY <1>7, <1>18, <2>2, <2>3, <2>5, <2>6, Zenon
  <2>8. TypeOK'
    BY <1>1, <1>7, <1>8, <1>10, <2>1, <2>2, <2>3, Zenon DEF TypeOK, Worlds, Callbacks
  <2> QED BY <1>11, <2>3, <2>7, <2>8 DEF IInv, UpStep, DownStep
<1>20. CASE ~(client.buf = <<>> /\ client.socks_up)
  <2>1. client' = w.client /\ pcb' = pcb /\ dead' = "null" /\ socks' = socks /\ pc' = "fin" /\ seg' = seg
    BY <1>7, <1>10, <1>20 DEF Leave, Becomes, Worlds
  <2>2. SocksInv(w.client, socks)
    <3>1. socks.sending <= Len(buf)
      <4>1. socks.sending <= used /\ socks.sending \in Nat
        BY <1>0, <1>1, Zenon DEF IInv, Inv, CtlInv, SocksInv, Socks
      <4> QED BY <1>5, <4>1
    <3> QED BY <1>2, <1>11, <3>1, ZenonT(30) DEF IInv, Inv, CtlInv, SocksInv
  <2>3. StallInv(w.client, socks)
    BY <1>2, <1>11, <1>12, <1>20, ZenonT(30) DEF IInv, Inv, StallInv
  <2>4. Inv(w.client, pcb, socks, "no", "inRecv", seg, h)
    BY <1>18, <2>2, <2>3
  <2>5. w.client \in Client
    BY <1>10, SMTT(30), Z3T(30) DEF Worlds
  <2>6. Inv(w.client, pcb, socks, "null", "fin", seg, h)
    BY <1>1, <2>4, <2>5, NextStage
  <2>7. TypeOK'
    BY <1>1, <1>7, <1>8, <2>1, <2>5, Zenon DEF TypeOK
  <2> QED BY <1>7, <1>11, <2>1, <2>6, <2>7, Zenon DEF IInv, UpStep, DownStep
<1> QED BY <1>19, <1>20

\* tcp_input hands the data over: to client_recv_func, or to nobody after SOCKS has closed, or it
\* aborts what was closed.
LEMMA DataStageStep == ASSUME IInv, DataStage PROVE IInv' /\ UpStep /\ DownStep
<1>1. pc = "data" /\ client \in Client /\ pcb \in Pcb /\ seg \in Segment /\ hist \in Hist
  BY SMTT(30), Z3T(30) DEF DataStage, IInv, TypeOK
<1>2. dead = "null" /\ pcb.state # "FREED" /\ pcb.state # "SYN_RCVD"
  BY <1>1, SMTT(30), Z3T(30) DEF IInv, Inv, CtlInv, DeadInv, PcbInv, Callbacks
<1>3. CASE seg.data = <<>>
  <2>1. /\ pc' = "fin" /\ client' = client /\ pcb' = pcb /\ socks' = socks /\ seg' = seg /\ dead' = dead
        /\ hist' = hist
    BY <1>3 DEF DataStage
  <2>2. Inv(client, pcb, socks, "null", "fin", seg, hist)
    BY <1>1, <1>2, NextStage DEF IInv
  <2>3. TypeOK'
    BY <2>1, SMTT(30), Z3T(30) DEF IInv, TypeOK
  <2> QED BY <1>2, <2>1, <2>2, <2>3, ZenonT(30) DEF IInv, UpStep, DownStep
<1>4. CASE seg.data # <<>> /\ pcb.rxclosed
  <2>1. /\ pcb' = FreedPcb /\ pc' = "idle" /\ seg' = NoSeg
        /\ client' = client /\ socks' = socks /\ dead' = dead /\ hist' = hist
    BY <1>4, SMTT(30), Z3T(30) DEF DataStage, tcp_abort, InputOver
  <2>2. ~IsOpen(client)
    BY <1>4, ZenonT(30) DEF IInv, Inv, CtlInv, OwnInv
  <2>3. DeadInv(client, FreedPcb, dead, "idle")
    BY <1>2, FreedFacts, SMTT(30), Z3T(30) DEF IInv, Inv, CtlInv, DeadInv, Callbacks
  <2>4. Inv(client, FreedPcb, socks, dead, "idle", NoSeg, hist)
    BY <2>2, <2>3, FreedFacts, PcbAlone DEF IInv
  <2>5. TypeOK'
    BY <2>1, NoSegTyped, FreedTyped, SMTT(30), Z3T(30) DEF IInv, TypeOK
  <2> QED BY <2>1, <2>4, <2>5, SMTT(30), Z3T(30) DEF IInv, UpStep, DownStep
<1>5. CASE seg.data # <<>> /\ ~pcb.rxclosed /\ pcb.recv
  <2>1. client_recv_func(seg.data)
    BY <1>5, SMTT(30), Z3T(30) DEF DataStage
  <2> QED BY <1>1, <1>5, <2>1, RecvFuncStep, SMTT(30), Z3T(30)
<1>6. CASE seg.data # <<>> /\ ~pcb.rxclosed /\ ~pcb.recv
  <2> DEFINE x == Min(pcb.rcv_wnd + Len(seg.data), TCP_WND)
             q == [pcb EXCEPT !.rcv_wnd = x]
  <2>1. /\ pcb' = q /\ pc' = "fin"
        /\ client' = client /\ socks' = socks /\ seg' = seg /\ dead' = dead /\ hist' = hist
    BY <1>1, <1>6 DEF DataStage, tcp_recved, Pcb
  <2>2. x \in 0..TCP_WND
    <3>1. pcb.rcv_wnd \in Nat /\ Len(seg.data) \in Nat /\ TCP_WND \in Nat
      BY <1>1, WindowAssumption DEF Pcb, Segment
    <3> QED BY <3>1 DEF Min
  <2> HIDE DEF x
  <2>3. /\ q \in Pcb /\ q.state = pcb.state /\ q.rxclosed = pcb.rxclosed
        /\ q.err = pcb.err /\ q.recv = pcb.recv /\ q.sent = pcb.sent /\ q.sndq = pcb.sndq
        /\ q.refused = pcb.refused /\ q.input = pcb.input /\ q.tf_closed = pcb.tf_closed
    BY <1>1, <2>2, SMTT(30), Z3T(30) DEF Pcb
  <2> HIDE DEF q
  <2>4. PcbInv(q, "fin") /\ DeadInv(client, q, "null", "fin")
    BY <1>1, <1>2, <2>3, SMTT(30), Z3T(30) DEF IInv, Inv, CtlInv, PcbInv, DeadInv, Callbacks
  <2>5. OwnInv(client, q)
    BY <2>3, ZenonT(30) DEF IInv, Inv, CtlInv, OwnInv
  <2>6. QueueInv(client, q, "fin", seg)
    <3> SUFFICES ASSUME IsOpen(client) PROVE QueueInv(client, q, "fin", seg)
      BY SMTT(30), Z3T(30) DEF QueueInv
    <3>1. client.socks_closed
      BY <1>6 DEF IInv, Inv, CtlInv, OwnInv
    <3>2. InFlight("data", seg) = 0 /\ InFlight("fin", seg) = 0
      BY DEF InFlight
    <3> QED BY <1>1, <2>3, <3>1, <3>2, ZenonT(30) DEF IInv, Inv, QueueInv
  <2>7. ByteInv(client, q, "fin", seg, hist)
    BY <1>2, <2>3, Zenon DEF IInv, Inv, ByteInv
  <2>8. Inv(client, q, socks, "null", "fin", seg, hist)
    BY <2>4, <2>5, <2>6, <2>7, SMTT(30), Z3T(30) DEF IInv, Inv, CtlInv
  <2>9. TypeOK'
    BY <2>1, <2>3 DEF IInv, TypeOK
  <2> QED BY <1>2, <2>1, <2>8, <2>9 DEF IInv, UpStep, DownStep
<1> QED BY <1>3, <1>4, <1>5, <1>6, SMTT(30), Z3T(30)

\* The end of tcp_input: a pcb that was closed meanwhile is given back.
LEMMA InputEnds ==
    ASSUME NEW c, NEW p \in Pcb, NEW s, NEW g \in Segment, NEW h, Inv(c, p, s, "null", "fin", g, h),
           NEW q, q = [tcp_input_delayed_close(p) EXCEPT !.input = FALSE]
    PROVE  q \in Pcb /\ Inv(c, q, s, "null", "idle", NoSeg, h)
<1>1. p.state # "FREED" /\ p.state # "SYN_RCVD"
  BY DEF Inv, CtlInv, DeadInv, PcbInv
<1>2. CASE p.tf_closed
  <2>1. q = FreedPcb
    <3>1. q = [FreedPcb EXCEPT !.input = FALSE]
      BY <1>2 DEF tcp_input_delayed_close
    <3>2. FreedPcb.input = FALSE
      BY DEF FreedPcb
    <3> QED BY <3>1, <3>2, FreedTyped DEF Pcb
  <2>2. ~IsOpen(c)
    BY <1>2 DEF Inv, CtlInv, OwnInv
  <2>3. DeadInv(c, FreedPcb, "null", "idle")
    BY FreedFacts DEF Inv, CtlInv, DeadInv, Callbacks
  <2> QED BY <2>1, <2>2, <2>3, FreedFacts, PcbAlone, Zenon
<1>3. CASE ~p.tf_closed
  <2>1. q = [p EXCEPT !.input = FALSE]
    BY <1>3 DEF tcp_input_delayed_close
  <2>2. /\ q \in Pcb /\ q.state = p.state /\ q.rxclosed = p.rxclosed /\ q.rcv_wnd = p.rcv_wnd
        /\ q.err = p.err /\ q.recv = p.recv /\ q.sent = p.sent /\ q.sndq = p.sndq
        /\ q.refused = p.refused /\ ~q.input /\ q.tf_closed = p.tf_closed
    BY <2>1, Zenon DEF Pcb
  <2>3. PcbInv(q, "idle") /\ DeadInv(c, q, "null", "idle")
    BY <1>1, <1>3, <2>2 DEF Inv, CtlInv, PcbInv, DeadInv, Callbacks
  <2>4. OwnInv(c, q)
    BY <2>2 DEF Inv, CtlInv, OwnInv
  <2>5. QueueInv(c, q, "idle", NoSeg)
    <3>1. /\ InFlight("fin", g) = 0 /\ InFlight("idle", NoSeg) = 0
          /\ Unhanded("fin", g) = 0 /\ Unhanded("idle", NoSeg) = 0
      BY DEF InFlight, Unhanded
    <3> QED BY <2>2, <3>1 DEF Inv, QueueInv
  <2>6. ByteInv(c, q, "idle", NoSeg, h)
    BY <1>1, <2>2, Zenon DEF Inv, ByteInv
  <2> QED BY <2>2, <2>3, <2>4, <2>5, <2>6 DEF Inv, CtlInv
<1> QED BY <1>2, <1>3

\* tcp_input passes on a FIN, and ends.
LEMMA FinStageStep == ASSUME IInv, FinStage PROVE IInv' /\ UpStep /\ DownStep
<1> DEFINE got == seg.fin /\ ~pcb.refused
           r == IF got THEN CorrectForFin(pcb) ELSE pcb
           w == [World EXCEPT !.pcb = IF got THEN CorrectForFin(@) ELSE @]
           v == IF got /\ pcb.recv THEN client_free_client(w) ELSE w
           q == [tcp_input_delayed_close(v.pcb) EXCEPT !.input = FALSE]
           h == hist'
<1>1. /\ World \in Worlds /\ World.client = client /\ World.pcb = pcb
      /\ World.socks = socks /\ World.dead = dead
  BY WorldTyped DEF IInv
<1>2. /\ pc = "fin" /\ Becomes([v EXCEPT !.pcb = [tcp_input_delayed_close(@) EXCEPT !.input = FALSE]])
      /\ pc' = "idle" /\ seg' = NoSeg /\ AppEnds(got /\ pcb.recv)
  BY DEF FinStage, InputOver
<1>3. client \in Client /\ pcb \in Pcb /\ socks \in Socks /\ seg \in Segment /\ hist \in Hist
  BY DEF IInv, TypeOK
<1>4. pcb.state # "FREED" /\ pcb.state # "SYN_RCVD" /\ dead = "null" /\ pcb.input /\ ~pcb.refused
  BY <1>2 DEF IInv, Inv, CtlInv, DeadInv, PcbInv, Callbacks
<1>5. /\ h \in Hist /\ h.up = hist.up /\ h.down = hist.down /\ h.toSocks = hist.toSocks
      /\ h.toApp = hist.toApp /\ h.socksEnded = hist.socksEnded
      /\ h.appEnded <=> hist.appEnded \/ (got /\ pcb.recv)
  <2>1. PICK e \in BOOLEAN : e = (hist.appEnded \/ (got /\ pcb.recv))
    BY Zenon
  <2>2. h = [hist EXCEPT !.appEnded = e]
    BY <1>2, <2>1, Zenon DEF AppEnds
  <2>3. e <=> hist.appEnded \/ (got /\ pcb.recv)
    BY <2>1, Zenon
  <2> HIDE DEF got, h
  <2>4. /\ h \in Hist /\ h.up = hist.up /\ h.down = hist.down /\ h.toSocks = hist.toSocks
        /\ h.toApp = hist.toApp /\ h.socksEnded = hist.socksEnded /\ h.appEnded = e
    BY <1>3, <2>2, SMTT(30), Z3T(30) DEF Hist
  <2> QED BY <2>3, <2>4
<1>6. /\ r \in Pcb /\ r.state = pcb.state /\ r.rxclosed = pcb.rxclosed
      /\ r.err = pcb.err /\ r.recv = pcb.recv /\ r.sent = pcb.sent /\ r.sndq = pcb.sndq
      /\ r.refused = pcb.refused /\ r.input = pcb.input /\ r.tf_closed = pcb.tf_closed
  <2>1. CASE got
    <3> DEFINE x == IF pcb.rcv_wnd # TCP_WND THEN pcb.rcv_wnd + 1 ELSE pcb.rcv_wnd
    <3>1. r = [pcb EXCEPT !.rcv_wnd = x]
      BY <1>3, <2>1 DEF CorrectForFin, Pcb
    <3>2. x \in 0..TCP_WND
      BY <1>3, WindowAssumption DEF Pcb
    <3> HIDE DEF x, r
    <3> QED BY <1>3, <3>1, <3>2, SMTT(30), Z3T(30) DEF Pcb
  <2>2. CASE ~got
    BY <1>3, <2>2
  <2> QED BY <2>1, <2>2
<1>7. w \in Worlds /\ w.client = client /\ w.pcb = r /\ w.socks = socks /\ w.dead = "null"
  <2>1. w = [World EXCEPT !.pcb = r]
    BY <1>1
  <2> HIDE DEF w, r
  <2> QED BY <1>1, <1>4, <1>6, <2>1 DEF Worlds
<1> HIDE DEF w, h
<1>8. CASE got /\ pcb.recv
  <2>1. IsOpen(client) /\ client.alloc /\ ~client.socks_closed /\ ~client.aborted
        /\ pcb.state \in {"ESTABLISHED", "CLOSE_WAIT"} /\ ~pcb.tf_closed
    BY <1>8 DEF IInv, Inv, CtlInv, OwnInv, DeadInv, IsOpen
  <2> DEFINE z == tcp_close(RemoveCallbacks(r))
  <2> HIDE DEF r
  <2>2. v = client_free_client(w)
    BY <1>8
  <2>3. v \in Worlds /\ ClientOver(w, v, z, FALSE)
    BY <1>4, <1>6, <1>7, <2>1, <2>2, FreeClientOutcome, ZenonT(30)
  <2>4. /\ z \in Pcb /\ PcbInv(z, "fin") /\ ~z.err /\ ~z.recv /\ ~z.sent
        /\ z.state # "SYN_RCVD" /\ z.state # "FREED"
    <3>1. /\ z \in Pcb
          /\ ~z.err /\ ~z.recv /\ ~z.sent /\ ~z.refused
          /\ z.state = "FREED" => z = FreedPcb
          /\ z.state # "SYN_RCVD"
          /\ z.input <=> r.input /\ z.state # "FREED"
          /\ r.input => z.state # "FREED"
      BY <1>4, <1>6, <2>1, CloseFacts, Zenon
    <3> HIDE DEF z
    <3> QED BY <1>4, <1>6, <3>1 DEF PcbInv
  <2> HIDE DEF v, z
  <2>5. v.pcb = z /\ v.dead = "null"
    BY <1>7, <2>3 DEF ClientOver
  <2>6. Inv(v.client, v.pcb, v.socks, v.dead, "fin", seg, h)
    <3>1. /\ SocksInv(client, socks) /\ DeadInv(client, pcb, dead, "fin")
          /\ client.socks_up /\ ~client.socks_closed /\ client.buf # <<>> => socks.sending > 0
          /\ hist.toSocks \o client.buf = Bytes(0, hist.up)
      BY <1>2, <2>1, ZenonT(30) DEF IInv, Inv, CtlInv, StallInv, ByteInv
    <3>2. DeadInv(client, r, "null", "fin") /\ r.state # "FREED"
      BY <1>4, <1>6, <3>1 DEF DeadInv
    <3>3. "fin" \notin Callbacks /\ "fin" # "inAccept" /\ FALSE \in BOOLEAN
      BY DEF Callbacks
    <3>4. /\ w \in Worlds /\ v \in Worlds /\ ClientOver(w, v, z, FALSE) /\ IsOpen(w.client)
          /\ SocksInv(w.client, w.socks) /\ DeadInv(w.client, w.pcb, w.dead, "fin") /\ w.pcb.state # "FREED"
          /\ w.client.socks_up /\ ~w.client.socks_closed /\ w.client.buf # <<>> => w.socks.sending > 0
          /\ h.toSocks \o w.client.buf = Bytes(0, h.up) /\ h.appEnded /\ seg \in Segment /\ h \in Hist
      BY <1>3, <1>5, <1>7, <1>8, <2>1, <2>3, <3>1, <3>2, ZenonT(30)
    <3> QED BY <2>4, <3>3, <3>4, ClientOverKeeps, Zenon
  <2>7. /\ client' = v.client /\ pcb' = q /\ socks' = v.socks /\ dead' = v.dead
    BY <1>2, <2>3 DEF Becomes, Worlds
  <2>8. v.pcb \in Pcb /\ v.client \in Client /\ v.socks \in Socks
    BY <2>3 DEF Worlds
  <2>9. q \in Pcb /\ Inv(v.client, q, v.socks, "null", "idle", NoSeg, h)
    BY <1>3, <2>5, <2>6, <2>8, InputEnds
  <2> HIDE DEF q
  <2>10. TypeOK'
    BY <1>2, <1>5, <2>5, <2>7, <2>8, <2>9, NoSegTyped, SMTT(30), Z3T(30) DEF TypeOK, h
  <2>11. DownStep
    BY <1>5, <1>8, SMTT(30), Z3T(30) DEF DownStep, h
  <2>12. UpStep
    <3> SUFFICES ASSUME ~client'.alloc PROVE h.toSocks = Bytes(0, h.up)
      BY DEF UpStep, h
    <3>1. client.buf = <<>>
      <4>1. SUFFICES ASSUME client.buf # <<>> PROVE FALSE
        OBVIOUS
      <4>2. client' = [client EXCEPT !.client_closed = TRUE, !.aborted = FALSE]
        BY <1>7, <2>1, <2>3, <2>7, <4>1 DEF ClientOver
      <4> QED BY <1>3, <2>1, <4>2 DEF Client
    <3>2. hist.toSocks \o client.buf = Bytes(0, hist.up)
      BY <2>1, Zenon DEF IInv, Inv, ByteInv
    <3> QED BY <1>3, <1>5, <3>1, <3>2, UpDone
  <2> QED BY <1>2, <2>5, <2>7, <2>9, <2>10, <2>11, <2>12, SMTT(30), Z3T(30) DEF IInv, h
<1>9. CASE ~(got /\ pcb.recv)
  <2>1. v = w
    BY <1>9
  <2>2. PcbInv(r, "fin") /\ OwnInv(client, r) /\ DeadInv(client, r, "null", "fin")
    <3> HIDE DEF r
    <3> QED BY <1>2, <1>4, <1>6, SMTT(30), Z3T(30) DEF IInv, Inv, CtlInv, PcbInv, OwnInv, DeadInv
  <2>3. QueueInv(client, r, "fin", seg)
    <3> SUFFICES ASSUME IsOpen(client) PROVE QueueInv(client, r, "fin", seg)
      BY DEF QueueInv
    <3>1. ~client.socks_closed => r = pcb
      BY <1>9 DEF IInv, Inv, CtlInv, OwnInv
    <3> HIDE DEF r
    <3> QED BY <1>2, <1>6, <3>1, SMTT(30), Z3T(30) DEF IInv, Inv, QueueInv
  <2> HIDE DEF r
  <2>4. ByteInv(client, r, "fin", seg, h) /\ EndInv(client, h)
    BY <1>2, <1>4, <1>5, <1>6, <1>9, ZenonT(30) DEF IInv, Inv, ByteInv, EndInv
  <2>5. Inv(client, r, socks, "null", "fin", seg, h)
    BY <2>2, <2>3, <2>4 DEF IInv, Inv, CtlInv
  <2> HIDE DEF v
  <2>6. client' = client /\ pcb' = q /\ socks' = socks /\ dead' = "null" /\ v.pcb = r
    BY <1>2, <1>7, <2>1 DEF Becomes, Worlds
  <2>7. q \in Pcb /\ Inv(client, q, socks, "null", "idle", NoSeg, h)
    BY <1>3, <1>6, <2>5, <2>6, InputEnds
  <2> HIDE DEF q
  <2>8. TypeOK'
    BY <1>2, <1>3, <1>5, <2>6, <2>7, NoSegTyped DEF TypeOK, h
  <2> QED BY <1>2, <2>6, <2>7, <2>8 DEF IInv, UpStep, DownStep, h
<1> QED BY <1>8, <1>9
-----------------------------------------------------------------------------
\* Before the first connection nobody has anything.
LEMMA InitInductive == Init => IInv
<1> SUFFICES ASSUME Init PROVE IInv
  OBVIOUS
<1>1. /\ client = NoClient /\ pcb = FreedPcb /\ socks = NoSocks
      /\ pc = "idle" /\ seg = NoSeg /\ dead = "null" /\ hist = NoHist
  BY SMTT(30), Z3T(30) DEF Init
<1>2. NoHist \in Hist
  <2>1. PICK none \in Seq(Nat) : none = <<>>
    BY Nothing, Zenon
  <2> QED BY <2>1 DEF NoHist, Hist
<1>3. TypeOK
  BY <1>1, <1>2, NobodyTyped, FreedTyped, NoSegTyped, SMTT(30), Z3T(30) DEF TypeOK
<1>4. DeadInv(NoClient, FreedPcb, "null", "idle")
  BY FreedFacts DEF DeadInv, NoClient, Callbacks
<1>5. Inv(NoClient, FreedPcb, NoSocks, "null", "idle", NoSeg, NoHist)
  BY <1>4, FreedFacts, NobodyLeft
<1> QED BY <1>1, <1>3, <1>5 DEF IInv

\* Every step of lwIP, of the SOCKS connection and of main keeps the invariant, and frees no client
\* whose streams are not complete.
LEMMA NextInductive == IInv /\ [Next]_vars => IInv' /\ (UpStep /\ DownStep)
<1> SUFFICES ASSUME IInv, [Next]_vars PROVE IInv' /\ UpStep /\ DownStep
  OBVIOUS
<1>1. CASE LwipNext
  <2>1. CASE Syn
    BY <2>1, SynStep
  <2>2. CASE AcceptFails
    BY <2>2, AcceptFailsStep, SMTT(30), Z3T(30)
  <2>3. CASE AcceptReturns
    BY <2>3, AcceptReturnsStep
  <2>4. ASSUME NEW n \in 0..MaxUp, NEW fin \in BOOLEAN, listener_accept_func(n, fin)
        PROVE  IInv' /\ UpStep /\ DownStep
    BY <2>4, AcceptStep
  <2>5. ASSUME NEW k \in 0..TCP_SND_BUF, NEW ackfin \in BOOLEAN, NEW n \in 0..MaxUp, NEW fin \in BOOLEAN,
               tcp_input(k, ackfin, n, fin)
        PROVE  IInv' /\ UpStep /\ DownStep
    BY <2>5, InputStarts, SMTT(30), Z3T(30)
  <2>6. CASE SentStage
    BY <2>6, SentStageStep
  <2>7. CASE InSentReturns
    BY <2>7, InSentReturnsStep
  <2>8. CASE DataStage
    BY <2>8, DataStageStep
  <2>9. CASE InRecvReturns
    BY <2>9, InRecvReturnsStep
  <2>10. CASE FinStage
    BY <2>10, FinStageStep
  <2>11. CASE Rst
    BY <2>11, PcbLostStep DEF Rst
  <2>12. CASE tcp_slowtmr
    BY <2>12, PcbLostStep DEF tcp_slowtmr
  <2> QED BY <1>1, <2>1, <2>2, <2>3, <2>4, <2>5, <2>6, <2>7, <2>8, <2>9, <2>10, <2>11,
               <2>12, SMTT(30), Z3T(30) DEF LwipNext
<1>2. CASE SocksNext
  <2>1. ASSUME NEW event \in Handshake \cup {"UP", "ERROR"}, client_socks_handler(event)
        PROVE  IInv' /\ UpStep /\ DownStep
    BY <2>1, HandlerStep
  <2>2. CASE SocksError
    <3>1. pc \in {"idle"} \cup Callbacks /\ socks.state # "FREED" /\ SocksEnds /\ UNCHANGED <<pc, seg>>
      BY <2>2 DEF SocksError, Runs, Callbacks
    <3> QED BY <3>1, SocksEndsStep
  <2>3. CASE SocksClosed
    <3>1. pc \in {"idle"} \cup Callbacks /\ socks.receiving /\ SocksEnds /\ UNCHANGED <<pc, seg>>
      BY <2>3 DEF SocksClosed, Runs, Callbacks
    <3>2. socks.state # "FREED"
      BY <3>1 DEF IInv, Inv, CtlInv, SocksInv
    <3> QED BY <3>1, <3>2, SocksEndsStep
  <2>4. ASSUME NEW len \in 1..TCP_WND, client_socks_send_handler_done(len)
        PROVE  IInv' /\ UpStep /\ DownStep
    BY <2>4, SendDoneStep
  <2>5. ASSUME NEW len \in 1..RECV_BUF, NEW n \in 0..TCP_SND_BUF, NEW out \in BOOLEAN,
               client_socks_recv_handler_done(len, n, out)
        PROVE  IInv' /\ UpStep /\ DownStep
    BY <2>5, RecvDoneStep, SMTT(30), Z3T(30)
  <2> QED BY <1>2, <2>1, <2>2, <2>3, <2>4, <2>5 DEF SocksNext
<1>3. CASE Terminate
  BY <1>3, TerminateStep
<1>4. CASE UNCHANGED vars
  <2>1. /\ client' = client /\ pcb' = pcb /\ socks' = socks /\ pc' = pc /\ seg' = seg /\ dead' = dead
        /\ hist' = hist
    BY <1>4 DEF vars
  <2>2. TypeOK'
    BY <2>1 DEF IInv, TypeOK
  <2> QED BY <2>1, <2>2 DEF IInv, UpStep, DownStep
<1> QED BY <1>1, <1>2, <1>3, <1>4 DEF Next

\* The invariant above, for every size of the windows and buffers and every number of bytes.
THEOREM ConnectionInductive == Spec => []IInv
<1>1. IInv /\ [Next]_vars => IInv'
  BY NextInductive
<1> QED BY InitInductive, <1>1, PTL DEF Spec

\* lwIP calls back into a tcp_client only while that client is allocated and owns the pcb, and a client
\* that has not let go of its pcb owns a live one, whatever the SOCKS jobs that SYNC_COMMIT runs inside
\* client_sent_func, client_recv_func and listener_accept_func have done to either.
THEOREM CallbacksAreLive == Spec => []CallbacksLive
<1>1. IInv => CallbacksLive
  BY DEF IInv, Inv, CtlInv, OwnInv, IsOpen, CallbacksLive, Open
<1> QED BY <1>1, ConnectionInductive, PTL

\* A callback returns ERR_ABRT exactly when tcp_abort was called inside it, and tcp_input never goes on
\* with a pcb that was freed.
THEOREM AbortsAreReturned == Spec => []AbortIsReturned
<1>1. IInv => AbortIsReturned
  BY DEF IInv, Inv, CtlInv, DeadInv, AbortIsReturned
<1> QED BY <1>1, ConnectionInductive, PTL

\* client_recv_func never meets more data than client->buf has room for.
THEOREM NothingRefused == Spec => []NoRefusal
<1>1. IInv => NoRefusal
  BY SMTT(30), Z3T(30) DEF IInv, Inv, CtlInv, PcbInv, NoRefusal
<1> QED BY <1>1, ConnectionInductive, PTL

\* A client waits only for something that is under way.
THEOREM NobodyStalls == Spec => []NoStall
<1>1. IInv => NoStall
  BY DEF IInv, Inv, StallInv, IsOpen, NoStall, Open
<1> QED BY <1>1, ConnectionInductive, PTL

\* Both streams pass through unchanged, across partial sends to the proxy and partial writes to lwIP.
THEOREM StreamsKeepOrder == Spec => []StreamsInOrder
<1>1. IInv => StreamsInOrder
  BY Zenon DEF IInv, Inv, ByteInv, IsOpen, StreamsInOrder, Open
<1> QED BY <1>1, ConnectionInductive, PTL

\* client_dealloc with bytes of the app undelivered only when the SOCKS connection failed or closed.
THEOREM UpstreamIsComplete == Spec => UpstreamComplete
<1>1. IInv /\ [Next]_vars =>
          [client.alloc /\ ~client'.alloc /\ ~hist'.socksEnded => hist'.toSocks = Bytes(0, hist'.up)]_vars
  BY NextInductive DEF UpStep
<1> QED BY <1>1, ConnectionInductive, PTL DEF Spec, UpstreamComplete

\* client_dealloc with bytes of the server unacknowledged only when the app closed or was lost.
THEOREM DownstreamIsComplete == Spec => DownstreamComplete
<1>1. IInv /\ [Next]_vars =>
          [client.alloc /\ ~client'.alloc /\ ~hist'.appEnded => hist'.toApp = Bytes(0, hist'.down)]_vars
  BY NextInductive DEF DownStep
<1> QED BY <1>1, ConnectionInductive, PTL DEF Spec, DownstreamComplete
=============================================================================
