------------------------------ MODULE TcpPeer ------------------------------
(***************************************************************************)
(* The world on the other side of the socket calls: the kernel's view of   *)
(* each connection of one thread, and the HTTP server that answers on it.  *)
(* Nothing of this is code of kb.  It is modelled from the calls conn_mgnt  *)
(* and the response parser make (poll, recv, send, close, connect,         *)
(* getsockopt) and from every outcome of them that the code tells apart.   *)
(*                                                                         *)
(* A request is ReqSize units; the units of a partly sent request sit in   *)
(* the send buffer, which holds SndCap units.  A response is a head token, *)
(* followed by a body token when it has a body.                            *)
(***************************************************************************)
EXTENDS Naturals, Sequences, Counting

CONSTANTS NConn,       \* args->conn, the connections of the thread
          ReqSize,     \* request_size, in units
          SndCap,      \* room of a socket's send buffer, in units
          Kinds,       \* the kinds of response this server gives
          MaxFaults    \* bound: losses, refusals and unfriendly answers

HeadKinds == {"ok", "close", "empty", "keep4", "close4", "redirect", "err5", "odd"}
Friendly  == {"ok", "empty"}          \* answers that cost no fault
Closing   == {"close", "close4"}      \* answers after which the server closes

ASSUME PeerAssumption == /\ NConn \in Nat \ {0}
                         /\ ReqSize \in Nat \ {0}
                         /\ SndCap \in Nat \ {0}
                         /\ Kinds \subseteq HeadKinds
                         /\ MaxFaults \in Nat

Conns  == 0..(NConn - 1)
Tokens == HeadKinds \cup {"body"}
Events == {"IN", "OUT", "ERR", "HUP"}

VARIABLES net,     \* per connection, the current socket and its server side
          faults   \* faults still to come
peerVars == <<net, faults>>

(***************************************************************************)
(* A socket: TCP state, pending socket error, received tokens, sent units  *)
(* the server has not read; and the server's end: the units it has of an   *)
(* incomplete request, the requests it has not answered, and whether it    *)
(* met a malformed request.                                                *)
(***************************************************************************)
Socket == [tcp  : {"SYN_SENT", "ESTABLISHED", "CLOSE_WAIT", "CLOSE"},
           err  : {"NONE", "REFUSED", "RESET", "PIPE"},
           rx   : Seq(Tokens),
           wire : Seq(1..ReqSize),
           frag : 0..(ReqSize - 1),
           srv  : Nat,
           bad  : BOOLEAN]

NewSocket == [tcp |-> "SYN_SENT", err |-> "NONE", rx |-> <<>>, wire |-> <<>>,
              frag |-> 0, srv |-> 0, bad |-> FALSE]

PeerTypeOK == net \in [Conns -> Socket] /\ faults \in 0..MaxFaults
PeerInit   == net = [c \in Conns |-> NewSocket] /\ faults = MaxFaults

-----------------------------------------------------------------------------
(* What the socket calls of kb see. *)

Smaller(a, b) == IF a <= b THEN a ELSE b

\* The sets of events poll() may report for socket s.  A dead socket has HUP
\* (and ERR while an error is pending); Linux adds IN and OUT to both, the
\* code is prepared for their absence, and both cases are considered.
Ready(s) ==
  CASE s.tcp = "SYN_SENT" -> {{}}
    [] s.tcp = "CLOSE" ->
         LET down == {"HUP"} \cup (IF s.err = "NONE" THEN {} ELSE {"ERR"})
         IN  {down, down \cup {"IN", "OUT"}}
    [] OTHER -> {(IF s.rx # <<>> \/ s.tcp = "CLOSE_WAIT" THEN {"IN"} ELSE {})
                 \cup (IF Len(s.wire) < SndCap THEN {"OUT"} ELSE {})}

\* send() of n units that continue a request at offset from: what it returns
\* ("OK" with the count, else errno) and the socket afterwards.
Units(from, n) == [k \in 1..n |-> ((from + k - 1) % ReqSize) + 1]

Sent(s, from, n) ==
  LET m == Smaller(n, SndCap - Len(s.wire))
  IN CASE s.tcp = "ESTABLISHED" /\ Len(s.wire) < SndCap ->
            [ret |-> "OK", n |-> m, peer |-> [s EXCEPT !.wire = @ \o Units(from, m)]]
       [] s.tcp = "CLOSE_WAIT" -> [ret |-> "OK", n |-> n, peer |-> s]
       [] s.tcp = "CLOSE" -> [ret |-> IF s.err = "NONE" THEN "PIPE" ELSE s.err,
                              n |-> 0, peer |-> [s EXCEPT !.err = "NONE"]]
       [] OTHER -> [ret |-> "AGAIN", n |-> 0, peer |-> s]

\* recv() finds end of file: everything read, and the peer has closed.
AtEof(s) == /\ s.rx = <<>>
            /\ \/ s.tcp = "CLOSE_WAIT"
               \/ s.tcp = "CLOSE" /\ s.err \in {"NONE", "PIPE"}

\* recv() returns -1: nothing to read yet, or a pending error (reported once).
RecvFails(s)  == s.rx = <<>> /\ ~AtEof(s)
AfterError(s) == IF s.tcp = "CLOSE" THEN [s EXCEPT !.err = "NONE"] ELSE s

\* get_tcp_conn_stat() of a socket whose peer has closed.
PeerGone(s) == s.tcp \in {"CLOSE_WAIT", "CLOSE"}

-----------------------------------------------------------------------------
(* The steps of the network and of the server. *)

Fault == faults > 0 /\ faults' = faults - 1

Gone(s, state, why) ==
  [s EXCEPT !.tcp = state, !.err = why, !.wire = <<>>, !.frag = 0, !.srv = 0, !.bad = FALSE]

Establish(c) == /\ net[c].tcp = "SYN_SENT"
                /\ net' = [net EXCEPT ![c].tcp = "ESTABLISHED"]
                /\ UNCHANGED faults

Refuse(c) == /\ net[c].tcp = "SYN_SENT"
             /\ Fault
             /\ net' = [net EXCEPT ![c] = Gone(@, "CLOSE", "REFUSED")]

\* The server reads a unit; one out of order makes the request malformed.
ReadUnit(s) ==
  LET u == Head(s.wire)
  IN  IF u = s.frag + 1
        THEN [s EXCEPT !.wire = Tail(@), !.frag = u % ReqSize,
                       !.srv = IF u = ReqSize THEN @ + 1 ELSE @]
        ELSE [s EXCEPT !.wire = <<>>, !.bad = TRUE]

ServerRead(c) ==
  /\ net[c].tcp = "ESTABLISHED" /\ net[c].wire # <<>> /\ ~net[c].bad
  /\ net' = [net EXCEPT ![c] = ReadUnit(@)]
  /\ UNCHANGED faults

Message(k) == IF k = "empty" THEN <<k>> ELSE <<k, "body">>

\* The server answers the oldest request it holds with a response of kind k.
Answer(c, k) ==
  /\ net[c].tcp = "ESTABLISHED" /\ net[c].srv > 0
  /\ IF k \in Friendly THEN UNCHANGED faults ELSE Fault
  /\ LET s == [net[c] EXCEPT !.rx = @ \o Message(k), !.srv = @ - 1]
     IN  net' = [net EXCEPT ![c] = IF k \in Closing THEN Gone(s, "CLOSE_WAIT", "NONE") ELSE s]

\* ... and a malformed one with 400 Bad Request, after which it closes.
Rejected(s) == Gone([s EXCEPT !.rx = @ \o Message("close4")], "CLOSE_WAIT", "NONE")

AnswerBad(c) ==
  /\ net[c].tcp = "ESTABLISHED" /\ net[c].srv = 0 /\ net[c].bad
  /\ net' = [net EXCEPT ![c] = Rejected(@)]
  /\ UNCHANGED faults

\* The end of a connection may cut its last response short.
Cut(s) == {s} \cup (IF s.rx # <<>> /\ s.rx[Len(s.rx)] = "body"
                      THEN {[s EXCEPT !.rx = SubSeq(@, 1, Len(@) - 1)]} ELSE {})

Fin(c) == /\ net[c].tcp = "ESTABLISHED"
          /\ Fault
          /\ \E s \in Cut(net[c]) : net' = [net EXCEPT ![c] = Gone(s, "CLOSE_WAIT", "NONE")]

\* A reset: at any time (a fault), or the answer to data sent after a close.
Rst(c) == \/ /\ net[c].tcp = "ESTABLISHED"
             /\ Fault
             /\ \E s \in Cut(net[c]) : net' = [net EXCEPT ![c] = Gone(s, "CLOSE", "RESET")]
          \/ /\ net[c].tcp = "CLOSE_WAIT"
             /\ net' = [net EXCEPT ![c] = Gone(@, "CLOSE", "PIPE")]
             /\ UNCHANGED faults

PeerStep(c) == \/ Establish(c) \/ Refuse(c) \/ ServerRead(c) \/ AnswerBad(c)
               \/ Fin(c) \/ Rst(c)
               \/ \E k \in Kinds : Answer(c, k)

\* The requests of connection c that are complete in the network, at the
\* server, or answered with a response kb has not read off the socket.
InNetwork(c) ==
  Occurrences(net[c].wire, {ReqSize}) + net[c].srv + Occurrences(net[c].rx, HeadKinds)
=============================================================================
