------------------------------ MODULE LwipTcp ------------------------------
(***************************************************************************)
(* The part of lwIP's TCP that tun2socks depends on, as operators on one   *)
(* protocol control block: who owns the pcb, which callbacks it still has, *)
(* the receive window, the bytes queued for sending, and the closing       *)
(* states. Sequence numbers, retransmission, congestion control and        *)
(* reassembly are left out: a segment brings the next bytes in order.      *)
(*                                                                         *)
(* state "FREED" stands for memory given back to the pool.                 *)
(***************************************************************************)
EXTENDS Integers, Sequences

CONSTANTS TCP_WND,      \* the receive window, and the size of tcp_client.buf
          TCP_SND_BUF   \* the send buffer
ASSUME WindowAssumption == TCP_WND \in Nat \ {0} /\ TCP_SND_BUF \in Nat \ {0}

Min(a, b) == IF a < b THEN a ELSE b

PcbStates == {"FREED", "SYN_RCVD", "ESTABLISHED", "FIN_WAIT_1", "FIN_WAIT_2", "CLOSE_WAIT",
              "CLOSING", "LAST_ACK", "TIME_WAIT"}
ActiveStates == PcbStates \ {"FREED", "TIME_WAIT"}

\* err, recv and sent: the callback is set. input: tcp_input_pcb is this pcb. tf_closed: TF_CLOSED
\* of recv_flags. sndq: data on unsent and unacked; finq: a FIN is on them.
Pcb == [state : PcbStates, rcv_wnd : 0..TCP_WND, rxclosed : BOOLEAN,
        err : BOOLEAN, recv : BOOLEAN, sent : BOOLEAN, sndq : Seq(Nat), finq : BOOLEAN,
        refused : BOOLEAN, input : BOOLEAN, tf_closed : BOOLEAN]

FreedPcb == [state |-> "FREED", rcv_wnd |-> TCP_WND, rxclosed |-> FALSE,
             err |-> FALSE, recv |-> FALSE, sent |-> FALSE, sndq |-> <<>>, finq |-> FALSE,
             refused |-> FALSE, input |-> FALSE, tf_closed |-> FALSE]

tcp_listen_input == [FreedPcb EXCEPT !.state = "SYN_RCVD"]

tcp_sndbuf(p) == TCP_SND_BUF - Len(p.sndq)

\* tcp_err, tcp_recv and tcp_sent with NULL.
RemoveCallbacks(p) == [p EXCEPT !.err = FALSE, !.recv = FALSE, !.sent = FALSE]

\* The callers have removed the err callback.
tcp_abort(p) == FreedPcb

tcp_recved(p, len) == [p EXCEPT !.rcv_wnd = Min(@ + len, TCP_WND)]

tcp_close_shutdown_fin(p) ==
    IF p.state \in {"SYN_RCVD", "ESTABLISHED"} THEN [p EXCEPT !.state = "FIN_WAIT_1", !.finq = TRUE]
    ELSE IF p.state = "CLOSE_WAIT" THEN [p EXCEPT !.state = "LAST_ACK", !.finq = TRUE]
    ELSE p

\* Data the application has not taken makes the close a reset, which ends the connection at once,
\* but leaves the memory to tcp_input when that is running.
tcp_close_reset(p) ==
    IF p.state = "ESTABLISHED" THEN [p EXCEPT !.state = "TIME_WAIT", !.sndq = <<>>, !.refused = FALSE]
    ELSE IF p.input THEN [p EXCEPT !.sndq = <<>>, !.refused = FALSE, !.tf_closed = TRUE]
    ELSE FreedPcb

tcp_close_shutdown(p) ==
    IF p.state \in {"ESTABLISHED", "CLOSE_WAIT"} /\ (p.refused \/ p.rcv_wnd # TCP_WND)
    THEN tcp_close_reset(p)
    ELSE tcp_close_shutdown_fin(p)

tcp_close(p) == tcp_close_shutdown([p EXCEPT !.rxclosed = TRUE])

\* What tcp_receive passes on of the bytes d and a FIN behind them: what fits into the window.
Accepted(p, d, fin) ==
    LET room == IF p.state \in {"ESTABLISHED", "FIN_WAIT_1", "FIN_WAIT_2"} THEN p.rcv_wnd ELSE 0
    IN  [data |-> SubSeq(d, 1, Min(Len(d), room)), fin |-> fin /\ Len(d) < room]

\* The bytes of a segment that tcp_receive takes out of the window; a FIN counts for one.
tcp_receive(p, a) == [p EXCEPT !.rcv_wnd = @ - Len(a.data) - (IF a.fin THEN 1 ELSE 0)]

\* The state tcp_process goes to: gotfin is a FIN from the other side, ackfin an acknowledgement of
\* everything sent including our own FIN.
NextState(state, gotfin, ackfin) ==
    CASE state = "ESTABLISHED" /\ gotfin -> "CLOSE_WAIT"
      [] state = "FIN_WAIT_1" /\ gotfin /\ ackfin -> "TIME_WAIT"
      [] state = "FIN_WAIT_1" /\ gotfin /\ ~ackfin -> "CLOSING"
      [] state = "FIN_WAIT_1" /\ ~gotfin /\ ackfin -> "FIN_WAIT_2"
      [] state = "FIN_WAIT_2" /\ gotfin -> "TIME_WAIT"
      [] state = "CLOSING" /\ ackfin -> "TIME_WAIT"
      [] OTHER -> state

\* k bytes of sndq are acknowledged; a is what the segment brings.
tcp_process(p, k, ackfin, a) ==
    [tcp_receive(p, a) EXCEPT
        !.state = NextState(p.state, a.fin, ackfin),
        !.sndq = SubSeq(@, k + 1, Len(@)),
        !.finq = @ /\ ~ackfin,
        !.tf_closed = p.state = "LAST_ACK" /\ ackfin,
        !.input = TRUE]

\* The window does not wait for the application to take the FIN.
CorrectForFin(p) == [p EXCEPT !.rcv_wnd = IF @ # TCP_WND THEN @ + 1 ELSE @]

tcp_input_delayed_close(p) == IF p.tf_closed THEN FreedPcb ELSE p

\* tcp_slowtmr gives the pcb up: retransmissions or probes are exhausted, or it has stayed too long
\* in a state that only the other side can end.
TimedOut(p) ==
    \/ p.state \in ActiveStates /\ (p.sndq # <<>> \/ p.finq)
    \/ p.state \in {"SYN_RCVD", "LAST_ACK"}
    \/ p.state = "FIN_WAIT_2" /\ p.rxclosed
=============================================================================
