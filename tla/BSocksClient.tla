--------------------------- MODULE BSocksClient ----------------------------
(***************************************************************************)
(* The SOCKS5 client of badvpn: the states of the handshake and what each  *)
(* completion leads to. A completion is a connect result, a message sent   *)
(* or a message received as a whole; partial receives only wait for more.  *)
(* "ERROR" stands for report_error, upon which the owner frees the client. *)
(***************************************************************************)
EXTENDS Integers

CONSTANT AuthMethods    \* the methods of auth_info: "none" is always there, "password" may be
ASSUME AuthAssumption == AuthMethods \subseteq {"none", "password"}

Handshake == {"CONNECTING", "SENDING_HELLO", "SENT_HELLO", "SENDING_PASSWORD", "SENT_PASSWORD",
              "SENDING_REQUEST", "SENT_REQUEST", "RECEIVED_REPLY_HEADER"}

\* A connection was made, or refused, or the hello could not be built.
connector_handler == {"SENDING_HELLO", "ERROR"}

send_handler_done(state) ==
    {CASE state = "SENDING_HELLO" -> "SENT_HELLO"
       [] state = "SENDING_PASSWORD" -> "SENT_PASSWORD"
       [] state = "SENDING_REQUEST" -> "SENT_REQUEST", "ERROR"}

\* The server's hello names a method; only an offered one is taken.
ReceivedHello ==
    {IF m = "none" THEN "SENDING_REQUEST" ELSE "SENDING_PASSWORD" : m \in AuthMethods}

recv_handler_done(state) ==
    {"ERROR"} \cup
    CASE state = "SENT_HELLO" -> ReceivedHello
      [] state = "SENT_PASSWORD" -> {"SENDING_REQUEST"}
      [] state = "SENT_REQUEST" -> {"RECEIVED_REPLY_HEADER"}
      [] state = "RECEIVED_REPLY_HEADER" -> {"UP"}

\* What the next completion can make of a handshake; connection_handler fails it at any time.
HandshakeNext(state) ==
    IF state = "CONNECTING" THEN connector_handler
    ELSE IF state \in {"SENDING_HELLO", "SENDING_PASSWORD", "SENDING_REQUEST"} THEN send_handler_done(state)
    ELSE recv_handler_done(state)
=============================================================================
