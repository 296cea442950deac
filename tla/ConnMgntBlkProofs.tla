-------------------------- MODULE ConnMgntBlkProofs --------------------------
(***************************************************************************)
(* Proofs about ConnMgntBlk, for any number of connections, any total and  *)
(* burst, any losses, and any server that gives no answer after which the  *)
(* loop loses its place in the stream (Orderly).  With pipelining, the     *)
(* safety of the parser's bound and of the workload is proved for every    *)
(* server, if the bursts of all connections fit the workload (Bounded).    *)
(***************************************************************************)
EXTENDS ConnMgntBlk, PeerProofs

-----------------------------------------------------------------------------
(* What the parser of a connection makes of the answers still to come.     *)

\* The answers parser m will finish out of what it holds and what socket s
\* still delivers.
Owing(m, s) == (IF m.p_state = "GARB" THEN 0 ELSE Occurrences(m.buf, Ends)) + ToCome(s, Ends)

\* Parser m knows where it is in the stream; it is off it only at an answer
\* it does not support, which it has put back.
InOrder(m, s) == /\ m.p_state # "DONE"
                 /\ m.p_state = "GARB" => m.buf # <<>> /\ Head(m.buf) = "odd"
                 /\ Framed(m.p_state, m.buf \o s.rx)

\* The answers that make the loop give a connection up.
Rejections == {"keep4", "close4", "odd"}

OfServer(m, s) == s.rx \in Seq(Known) /\ m.buf \in Seq(Known)

LEMMA ParserFacts ==
  ASSUME NEW m \in Parser
  PROVE  /\ m.buf \in Seq(Tokens) /\ m.p_state \in ParserStates
         /\ m.is_close \in BOOLEAN /\ m.status \in HeadKinds \cup {"none"}
         /\ Occurrences(m.buf, Ends) \in Nat
<1>1. m.buf \in Seq(Tokens)
  BY DEF Parser
<1> QED BY <1>1, OccType DEF Parser

LEMMA OwingType ==
  ASSUME NEW m \in Parser, NEW s \in Socket
  PROVE  Owing(m, s) \in Nat /\ ToCome(s, Ends) \in Nat /\ ToCome(s, Ends) <= Owing(m, s)
<1>1. Occurrences(m.buf, Ends) \in Nat /\ ToCome(s, Ends) \in Nat
  BY ParserFacts, ToComeType
<1> QED BY <1>1 DEF Owing

LEMMA CleanFacts ==
  /\ CleanParser \in Parser /\ CleanParser.buf = <<>> /\ CleanParser.p_state = "VER"
  /\ \A m : ResetParser(m) = CleanParser
BY DEF CleanParser, Parser, ParserStates, ResetParser

LEMMA CleanOwing ==
  ASSUME NEW s \in Socket
  PROVE  Owing(CleanParser, s) = ToCome(s, Ends)
<1>1. Occurrences(CleanParser.buf, Ends) = 0 /\ ToCome(s, Ends) \in Nat
  BY CleanFacts, OccEmpty, ToComeType
<1> QED BY <1>1 DEF Owing

\* A socket that has no answer to come.
LEMMA EmptySocket ==
  ASSUME NEW s \in {NewSocket, Connected}
  PROVE  s \in Socket /\ s.rx = <<>> /\ \A E : ToCome(s, E) = 0
<1>1. s.rx = <<>> /\ s.wire = <<>> /\ s.srv = 0
  BY DEF NewSocket, Connected
<1>2. s \in Socket
  BY NewSocketType DEF Connected, Socket
<1> QED BY <1>1, <1>2, OccEmpty DEF ToCome

\* A clean parser may begin where no answer has begun to arrive.
LEMMA CleanStart ==
  ASSUME NEW s \in Socket, s.rx = <<>>
  PROVE  InOrder(CleanParser, s) /\ OfServer(CleanParser, s)
<1>1. <<>> \o s.rx = <<>> /\ <<>> \in Seq(Known)
  OBVIOUS
<1>2. Framed("VER", <<>>)
  BY DEF Framed
<1> QED BY <1>1, <1>2, CleanFacts DEF InOrder, OfServer

LEMMA FreshOwing ==
  ASSUME NEW s \in {NewSocket, Connected}
  PROVE  /\ Owing(CleanParser, s) = 0
         /\ InOrder(CleanParser, s) /\ OfServer(CleanParser, s)
BY EmptySocket, CleanOwing, CleanStart

\* A new socket: the rest of the old stream never comes.
LEMMA ReplacedOwing ==
  ASSUME NEW m \in Parser, NEW s \in Socket, OfServer(m, s), InOrder(m, s)
  PROVE  /\ Owing(m, NewSocket) <= Owing(m, s) /\ OfServer(m, NewSocket)
         /\ InOrder(m, NewSocket)
         /\ m.buf = <<>> \/ m.p_state = "GARB" => Owing(m, NewSocket) = 0
<1>1. NewSocket \in Socket /\ NewSocket.rx = <<>> /\ ToCome(NewSocket, Ends) = 0
  BY EmptySocket
<1>2. m.buf \in Seq(Tokens) /\ s.rx \in Seq(Tokens) /\ Occurrences(m.buf, Ends) \in Nat
      /\ ToCome(s, Ends) \in Nat
  BY ParserFacts, ToComeType
<1>3. Owing(m, NewSocket) <= Owing(m, s)
  BY <1>1, <1>2 DEF Owing
<1>4. OfServer(m, NewSocket)
  BY <1>1 DEF OfServer
<1>5. Framed(m.p_state, m.buf \o NewSocket.rx)
  <2>1. m.buf \o NewSocket.rx = SubSeq(m.buf \o s.rx, 1, Len(m.buf)) /\ m.buf \o s.rx \in Seq(Tokens)
    BY <1>1, <1>2, StreamFacts
  <2>2. Len(m.buf) \in 0..Len(m.buf \o s.rx)
    BY <1>2, StreamFacts
  <2> QED BY <2>1, <2>2, FramedPrefix DEF InOrder
<1>6. ASSUME m.buf = <<>> \/ m.p_state = "GARB" PROVE Owing(m, NewSocket) = 0
  BY <1>1, <1>6, OccEmpty DEF Owing
<1> QED BY <1>3, <1>4, <1>5, <1>6 DEF InOrder

\* The world's steps, and a send.
LEMMA MovedOwing ==
  ASSUME NEW m \in Parser, NEW s \in Socket, NEW t, SocketMoves(s, t)
  PROVE  /\ Owing(m, t) <= Owing(m, s)
         /\ InOrder(m, s) => InOrder(m, t)
         /\ OfServer(m, s) => OfServer(m, t)
<1>1. t \in Socket /\ ToCome(t, Ends) <= ToCome(s, Ends) /\ RxMoves(s.rx, t.rx)
  BY DEF SocketMoves, OneEach
<1>2. /\ m.buf \in Seq(Tokens) /\ s.rx \in Seq(Tokens) /\ Occurrences(m.buf, Ends) \in Nat
      /\ ToCome(s, Ends) \in Nat /\ ToCome(t, Ends) \in Nat
  BY <1>1, ParserFacts, ToComeType
<1>3. Owing(m, t) <= Owing(m, s)
  BY <1>1, <1>2 DEF Owing
<1>4. InOrder(m, s) => InOrder(m, t)
  BY <1>1, <1>2, FramedMoves DEF InOrder
<1>5. OfServer(m, s) => OfServer(m, t)
  BY <1>1, KnownMoves DEF OfServer
<1> QED BY <1>3, <1>4, <1>5

LEMMA SentOwing ==
  ASSUME NEW m \in Parser, NEW s \in Socket, NEW n \in Nat,
         Sent(s, 0, n * ReqSize).ret = "OK", NEW t, t = Sent(s, 0, n * ReqSize).peer
  PROVE  /\ t \in Socket /\ Owing(m, t) <= Owing(m, s) + n
         /\ InOrder(m, s) => InOrder(m, t)
         /\ OfServer(m, s) => OfServer(m, t)
<1>1. t \in Socket /\ t.rx = s.rx /\ ToCome(t, Ends) <= ToCome(s, Ends) + n
  BY SentToCome
<1>2. /\ Occurrences(m.buf, Ends) \in Nat /\ ToCome(s, Ends) \in Nat /\ ToCome(t, Ends) \in Nat
  BY <1>1, ParserFacts, ToComeType
<1>3. Owing(m, t) <= Owing(m, s) + n
  BY <1>1, <1>2 DEF Owing
<1> QED BY <1>1, <1>3 DEF InOrder, OfServer

\* The parser takes a token that finishes no response.
Taken(m, o) == [buf |-> IF o.res = "NOT_SUPPORT" THEN m.buf ELSE Tail(m.buf),
                p_state |-> o.p_state, is_close |-> o.is_close, status |-> o.status]

LEMMA TakenOwing ==
  ASSUME NEW m \in Parser, NEW s \in Socket, m.buf # <<>>, InOrder(m, s), OfServer(m, s),
         NEW o \in Parse(m, Head(m.buf)), o.res # "FINISH"
  PROVE  /\ o.res \in {"MORE"} \cup Stops
         /\ Taken(m, o) \in Parser
         /\ Owing(Taken(m, o), s) <= Owing(m, s) /\ OfServer(Taken(m, o), s)
         /\ o.res \in {"MORE", "NOT_SUPPORT"} => InOrder(Taken(m, o), s)
         /\ o.res = "NOT_SUPPORT" => o.p_state = "GARB" /\ "odd" \in Kinds
         /\ o.res = "REDIRECT" => "redirect" \in Kinds
         /\ o.res \in {"CLIENT_ERR", "ERROR"} => Kinds \cap Rejections # {}
<1> DEFINE b == m.buf
           t == Head(b)
           n == Taken(m, o)
<1>1. b \in Seq(Tokens) /\ s.rx \in Seq(Tokens) /\ t \in Tokens /\ Tail(b) \in Seq(Tokens)
  BY ParserFacts, ToComeType, HeadTail
<1>2. /\ o.res \in {"MORE", "FINISH"} \cup Stops
      /\ o.p_state \in ParserStates /\ o.is_close \in BOOLEAN
      /\ o.status \in HeadKinds \cup {"none"}
  BY <1>1, OutcomeType DEF Parser
<1>3. n \in Parser /\ n.p_state = o.p_state
      /\ n.buf = IF o.res = "NOT_SUPPORT" THEN b ELSE Tail(b)
  BY <1>1, <1>2 DEF Taken, Parser
<1>4. /\ b \o s.rx \in Seq(Tokens) /\ b \o s.rx # <<>>
      /\ Head(b \o s.rx) = t /\ Tail(b \o s.rx) = Tail(b) \o s.rx
  BY <1>1, StreamFacts
<1>5. m.p_state \in {"VER", "BODY", "GARB"} /\ Framed(m.p_state, b \o s.rx)
  BY ParserFacts DEF InOrder, ParserStates
<1>6. t = "body" => m.p_state = "BODY"
  BY <1>4, <1>5, FramedHead
<1>7. t \in Known /\ Tail(b) \in Seq(Known)
  BY HeadTail DEF OfServer
<1> HIDE DEF t, n
<1>8. \/ o.res = "MORE" /\ o.p_state = "BODY" /\ m.p_state \in {"VER", "BODY"}
      \/ o.p_state = "DONE" /\ m.p_state = "VER"
         /\ \/ o.res = "REDIRECT" /\ t = "redirect"
            \/ o.res = "CLIENT_ERR" /\ t \in {"keep4", "close4"}
            \/ o.res = "SERVER_ERR"
      \/ o.res = "NOT_SUPPORT" /\ o.p_state = "GARB" /\ m.p_state = "VER" /\ t = "odd"
      \/ o.res = "ERROR" /\ o.p_state = "GARB" /\ m.p_state = "GARB"
  <2>1. o \in Parse(m, t)
    BY DEF t
  <2> QED BY <1>1, <1>5, <1>6, <2>1, ParseFramed
<1>9. Owing(n, s) <= Owing(m, s)
  <2>1. Occurrences(b, Ends) = Occurrences(Tail(b), Ends) + (IF t \in Ends THEN 1 ELSE 0)
    BY <1>1, OccTail DEF t
  <2>2. Occurrences(Tail(b), Ends) \in Nat /\ Occurrences(b, Ends) \in Nat /\ ToCome(s, Ends) \in Nat
    BY <1>1, OccType, ToComeType
  <2>3. n.p_state # "GARB" => m.p_state # "GARB" /\ n.buf = Tail(b)
    BY <1>3, <1>8
  <2> QED BY <2>1, <2>2, <2>3 DEF Owing
<1>10. ASSUME o.res \in {"MORE", "NOT_SUPPORT"} PROVE InOrder(n, s)
  <2>1. CASE o.res = "MORE"
    <3>1. n.p_state = "BODY" /\ n.buf = Tail(b)
      BY <1>3, <1>8, <2>1
    <3>2. Framed("BODY", Tail(b) \o s.rx)
      BY <1>4, <1>5, FramedTail
    <3> QED BY <3>1, <3>2 DEF InOrder
  <2>2. CASE o.res = "NOT_SUPPORT"
    <3>1. n.p_state = "GARB" /\ n.buf = b /\ t = "odd" /\ m.p_state = "VER"
      BY <1>3, <1>8, <2>2
    <3>2. Framed("GARB", b \o s.rx)
      BY <1>5, <3>1 DEF Framed
    <3> QED BY <3>1, <3>2 DEF InOrder, t
  <2> QED BY <1>10, <2>1, <2>2
<1>11. o.res = "NOT_SUPPORT" => o.p_state = "GARB" /\ "odd" \in Kinds
  BY <1>7, <1>8 DEF Known
<1>12. o.res = "REDIRECT" => "redirect" \in Kinds
  BY <1>7, <1>8 DEF Known
<1>13. OfServer(n, s)
  BY <1>3, <1>7 DEF OfServer
<1>14. o.res \in {"CLIENT_ERR", "ERROR"} => Kinds \cap Rejections # {}
  <2>1. m.p_state = "GARB" => t = "odd"
    BY DEF InOrder, t
  <2>2. o.res \in {"CLIENT_ERR", "ERROR"} => t \in Rejections
    BY <1>8, <2>1 DEF Rejections
  <2>3. t \in Rejections => t # "body"
    BY DEF Rejections
  <2> QED BY <1>7, <2>2, <2>3 DEF Known
<1> QED BY <1>2, <1>3, <1>9, <1>10, <1>11, <1>12, <1>13, <1>14 DEF n

\* The parser takes the last token of a response.
Finish(m) == [CleanParser EXCEPT !.buf = Tail(m.buf)]

LEMMA FinishOwing ==
  ASSUME NEW m \in Parser, NEW s \in Socket, m.buf # <<>>, InOrder(m, s), OfServer(m, s),
         NEW o \in Parse(m, Head(m.buf)), o.res = "FINISH"
  PROVE  /\ Finish(m) \in Parser
         /\ Owing(m, s) = Owing(Finish(m), s) + 1
         /\ InOrder(Finish(m), s) /\ OfServer(Finish(m), s)
<1> DEFINE b == m.buf
           t == Head(b)
           n == Finish(m)
<1>1. b \in Seq(Tokens) /\ s.rx \in Seq(Tokens) /\ t \in Tokens /\ Tail(b) \in Seq(Tokens)
  BY ParserFacts, ToComeType, HeadTail
<1>2. n \in Parser /\ n.p_state = "VER" /\ n.buf = Tail(b)
  BY <1>1 DEF Finish, CleanParser, Parser, ParserStates
<1>4. /\ b \o s.rx \in Seq(Tokens) /\ b \o s.rx # <<>>
      /\ Head(b \o s.rx) = t /\ Tail(b \o s.rx) = Tail(b) \o s.rx
  BY <1>1, StreamFacts
<1>5. m.p_state \in {"VER", "BODY", "GARB"} /\ Framed(m.p_state, b \o s.rx)
  BY ParserFacts DEF InOrder, ParserStates
<1>6. t = "body" => m.p_state = "BODY"
  BY <1>4, <1>5, FramedHead
<1>7. Tail(b) \in Seq(Known)
  BY HeadTail DEF OfServer
<1> HIDE DEF t, n
<1>8. t \in Ends /\ t \notin Openers /\ m.p_state # "GARB"
  <2>1. o \in Parse(m, t)
    BY DEF t
  <2>2. (m.p_state = "VER" /\ t = "empty") \/ (m.p_state = "BODY" /\ t = "body")
    BY <1>1, <1>5, <1>6, <2>1, ParseFramed
  <2> QED BY <2>2 DEF Ends, Openers, HeadKinds
<1>9. Owing(m, s) = Owing(n, s) + 1
  <2>1. Occurrences(b, Ends) = Occurrences(Tail(b), Ends) + (IF t \in Ends THEN 1 ELSE 0)
    BY <1>1, OccTail DEF t
  <2>2. Occurrences(Tail(b), Ends) \in Nat /\ Occurrences(b, Ends) \in Nat /\ ToCome(s, Ends) \in Nat
    BY <1>1, OccType, ToComeType
  <2> QED BY <1>2, <1>8, <2>1, <2>2 DEF Owing
<1>10. InOrder(n, s)
  <2>1. Framed("VER", Tail(b) \o s.rx)
    BY <1>4, <1>5, <1>8, FramedTail
  <2> QED BY <1>2, <2>1 DEF InOrder
<1>11. OfServer(n, s)
  BY <1>2, <1>7 DEF OfServer
<1> QED BY <1>2, <1>9, <1>10, <1>11 DEF n

\* recv() moves tokens from the socket to the buffer.
Filled(m, s, n) == [m EXCEPT !.buf = SubSeq(s.rx, 1, n)]
Drained(s, n)   == [s EXCEPT !.rx = SubSeq(@, n + 1, Len(@))]

LEMMA ReceivedOwing ==
  ASSUME NEW m \in Parser, NEW s \in Socket, m.buf = <<>>, InOrder(m, s), OfServer(m, s),
         NEW n \in 1..Len(s.rx)
  PROVE  /\ Filled(m, s, n) \in Parser /\ Drained(s, n) \in Socket
         /\ Owing(Filled(m, s, n), Drained(s, n)) = Owing(m, s)
         /\ InOrder(Filled(m, s, n), Drained(s, n)) /\ OfServer(Filled(m, s, n), Drained(s, n))
         /\ Drained(s, n).tcp = s.tcp /\ Drained(s, n).err = s.err
<1> DEFINE m1 == Filled(m, s, n)
           s1 == Drained(s, n)
           a == SubSeq(s.rx, 1, n)
           b == SubSeq(s.rx, n + 1, Len(s.rx))
<1>1. s.rx \in Seq(Tokens) /\ s.srv \in Nat /\ Occurrences(s.wire, {ReqSize}) \in Nat
  BY ToComeType
<1>2. a \in Seq(Tokens) /\ b \in Seq(Tokens) /\ a \o b = s.rx
  BY <1>1, SubSeqType, ReceivedStream
<1>3. a \in Seq(Known) /\ b \in Seq(Known)
  BY SubSeqType DEF OfServer
<1>4. Occurrences(s.rx, Ends) = Occurrences(a, Ends) + Occurrences(b, Ends)
  <2> HIDE DEF a, b
  <2>0. a \in Seq(Tokens) /\ b \in Seq(Tokens)
    BY <1>2
  <2>1. Occurrences(a \o b, Ends) = Occurrences(a, Ends) + Occurrences(b, Ends)
    BY <2>0, OccConcat
  <2> QED BY <1>2, <2>1
<1>5. Occurrences(a, Ends) \in Nat /\ Occurrences(b, Ends) \in Nat
  BY <1>2, OccType
<1>6. m1 = [m EXCEPT !.buf = a] /\ s1 = [s EXCEPT !.rx = b]
  BY DEF Filled, Drained
<1> HIDE DEF a, b, m1, s1
<1>7. m1 \in Parser /\ m1.buf = a /\ m1.p_state = m.p_state
  BY <1>2, <1>6 DEF Parser
<1>8. s1 \in Socket /\ s1.rx = b /\ s1.srv = s.srv /\ s1.wire = s.wire
      /\ s1.tcp = s.tcp /\ s1.err = s.err
  BY <1>2, <1>6 DEF Socket
<1>9. m.p_state # "GARB" /\ m.p_state # "DONE" /\ Framed(m.p_state, s.rx)
  <2>1. m.buf \o s.rx = s.rx
    BY <1>1
  <2> QED BY <2>1 DEF InOrder
<1>10. Owing(m1, s1) = Owing(m, s)
  <2>1. Occurrences(m.buf, Ends) = 0
    BY OccEmpty
  <2>2. ToCome(s1, Ends) = Occurrences(b, Ends) + s.srv + Occurrences(s.wire, {ReqSize})
    BY <1>8 DEF ToCome
  <2>3. ToCome(s, Ends) = Occurrences(s.rx, Ends) + s.srv + Occurrences(s.wire, {ReqSize})
    BY DEF ToCome
  <2>4. ToCome(s, Ends) = Occurrences(a, Ends) + ToCome(s1, Ends)
    BY <1>1, <1>4, <1>5, <2>2, <2>3
  <2>5. Owing(m1, s1) = Occurrences(a, Ends) + ToCome(s1, Ends)
    BY <1>7, <1>9 DEF Owing
  <2>6. Owing(m, s) = ToCome(s, Ends)
    BY <1>9, <2>1, ToComeType DEF Owing
  <2> QED BY <2>4, <2>5, <2>6
<1>11. InOrder(m1, s1)
  BY <1>2, <1>7, <1>8, <1>9 DEF InOrder
<1>12. OfServer(m1, s1)
  BY <1>3, <1>7, <1>8 DEF OfServer
<1> QED BY <1>7, <1>8, <1>10, <1>11, <1>12 DEF m1, s1

\* A parser that has nothing left to finish may be reset.
LEMMA ResetOwing ==
  ASSUME NEW m \in Parser, NEW s \in Socket, InOrder(m, s), OfServer(m, s),
         m.buf = <<>>, Owing(m, s) = 0
  PROVE  /\ Owing(CleanParser, s) = 0
         /\ InOrder(CleanParser, s) /\ OfServer(CleanParser, s)
<1>1. s.rx \in Seq(Tokens) /\ s.srv \in Nat /\ Occurrences(s.wire, {ReqSize}) \in Nat
      /\ Occurrences(s.rx, Ends) \in Nat
  BY ToComeType
<1>2. ToCome(s, Ends) = 0
  BY OwingType
<1>3. Owing(CleanParser, s) = 0
  BY <1>2, CleanOwing
<1>4. \A i \in 1..Len(s.rx) : s.rx[i] # "body"
  <2>1. Occurrences(s.rx, Ends) = 0
    BY <1>1, <1>2 DEF ToCome
  <2>2. \A i \in 1..Len(s.rx) : s.rx[i] \notin Ends
    BY <1>1, <2>1, OccZero
  <2> QED BY <2>2 DEF Ends
<1>5. InOrder(CleanParser, s)
  <2>1. CleanParser.buf \o s.rx = s.rx
    BY <1>1, CleanFacts
  <2> QED BY <1>4, <2>1, CleanFacts DEF InOrder, Framed
<1>6. OfServer(CleanParser, s)
  BY CleanFacts DEF OfServer
<1> QED BY <1>3, <1>5, <1>6

-----------------------------------------------------------------------------
(* The inductive invariant. *)

\* The servers for which the loop keeps its place in the stream.  With
\* pipelining, an unsupported answer is ignored and leaves the parser in the
\* middle of it; without, a redirection does.
Orderly == IF ENABLE_PIPE THEN "odd" \notin Kinds ELSE "redirect" \notin Kinds

\* Pipelining, with bursts of all connections that fit the 32 bits of workload:
\* so a count of requests on their way cannot wrap, however many are counted
\* twice.  (The command line allows bursts of 10000, argparse.c:116.)
Bursts == [c \in Conns |-> NUM_GAP]
Narrow == ENABLE_PIPE /\ Tally(Conns, Bursts) < U32_MOD

\* Where counts are right, or at least small.
Bounded == Orderly \/ Narrow

Parsed == pc \in {"parse", "dispatch"}

\* The requests of connection c nobody has finished an answer to yet.
Pending(c) == sock[c].sent_req - (IF Parsed /\ c = cur THEN call.fin_resp ELSE 0)

\* No more answers are still to come than requests are unanswered: without
\* this the driver, which goes on parsing when its bound is 0, finishes too many.
OwedIsPending == \A c \in Conns : Owing(sm[c], net[c]) <= Pending(c)

\* The parser has stopped, and will not go on with this stream.
Stopped(c) == pc = "dispatch" /\ c = cur /\ call.rcode \in Stops \ {"NOT_SUPPORT"}

Framing == \A c \in Conns : ~Stopped(c) => InOrder(sm[c], net[c])

FromServer == \A c \in Conns : OfServer(sm[c], net[c])

\* A connection's counters add up to its share; or, where an ignored answer
\* makes it count requests twice, no more than a burst is on its way.
Accounted(c, k) == IF Orderly THEN k.rcvd_res + k.unsent_req + k.sent_req = Share(c)
                              ELSE Narrow /\ k.sent_req <= NUM_GAP

AllAccounted == \A c \in Conns : Accounted(c, sock[c])

\* The parser's bound, and why it has returned.
CallState ==
  /\ pc = "parse" => call.rcode = "NONE" /\ call.num_reqs + call.fin_resp = sock[cur].sent_req
  /\ pc = "dispatch" =>
       /\ call.rcode # "NONE"
       /\ call.rcode \in {"POLL_DATA", "CLOSE"} =>
            /\ sm[cur].buf = <<>>
            /\ ~PeerGone(net[cur]) => call.fin_resp = sock[cur].sent_req
       /\ call.rcode = "NOT_SUPPORT" => sm[cur].p_state = "GARB" /\ "odd" \in Kinds
       /\ call.rcode = "REDIRECT" => "redirect" \in Kinds
       /\ call.rcode \in {"CLIENT_ERR", "ERROR"} => Kinds \cap Rejections # {}

\* Inside the sending loop there is something left for its remaining rounds.
BurstFits == pc = "burst" => /\ ENABLE_PIPE
                             /\ burst >= 1 /\ burst <= sock[cur].unsent_req
                             /\ sock[cur].sent_req + burst <= NUM_GAP

Base == /\ Shape /\ AllAccounted /\ OwedIsPending /\ Framing /\ FromServer
        /\ CallState /\ BurstFits

\* exit() leaves things as they are.
IInv == pc # "exit" => Base

-----------------------------------------------------------------------------
(* The pieces a step is put together of. *)

\* What holds while no parser runs.
Quiet == /\ PeerTypeOK
         /\ workload \in Int /\ all_fin \in Int /\ burst \in Nat
         /\ sock \in [Conns -> Counters] /\ sm \in [Conns -> Parser]
         /\ AllAccounted /\ FromServer
         /\ \A c \in Conns : /\ Owing(sm[c], net[c]) <= sock[c].sent_req
                             /\ InOrder(sm[c], net[c])

LEMMA ShareType == ASSUME NEW c \in Conns
                   PROVE  Share(c) \in Nat /\ Share(c) <= TOTAL_REQ /\ Share(c) >= 1
<1> DEFINE q == TOTAL_REQ \div NConn
           r == TOTAL_REQ % NConn
<1>1. TOTAL_REQ \in Nat /\ NConn \in Nat \ {0} /\ TOTAL_REQ >= NConn
  BY PeerAssumption, BlockingAssumption
<1>2. q \in Nat /\ r \in Nat /\ q + r <= TOTAL_REQ
  BY <1>1, QuotientBound
<1>3. q >= 1
  <2>1. TOTAL_REQ = NConn * q + r /\ r \in 0..(NConn - 1)
    BY <1>1, Quotient, ModRange
  <2> HIDE DEF q, r
  <2>2. q # 0
    <3>1. NConn * 0 = 0
      BY <1>1
    <3> QED BY <1>1, <2>1, <3>1
  <2> QED BY <1>2, <2>2 DEF q
<1>4. Share(c) = q + (IF c = NConn - 1 THEN r ELSE 0)
  BY DEF Share
<1> HIDE DEF q, r
<1> QED BY <1>1, <1>2, <1>3, <1>4

LEMMA CounterFacts ==
  ASSUME NEW k \in Counters, NEW c \in Conns, Accounted(c, k)
  PROVE  /\ k.sent_req \in Nat /\ k.unsent_req \in Nat /\ k.rcvd_res \in Nat
         /\ k.retry_conn_num \in Nat /\ k.up \in BOOLEAN
         /\ U32(k.sent_req) = k.sent_req
         /\ k.sent_req \in 0..(U32_MOD - 1)
<1>1. /\ k.sent_req \in Nat /\ k.unsent_req \in Nat /\ k.rcvd_res \in Nat
      /\ k.retry_conn_num \in Nat /\ k.up \in BOOLEAN
  BY DEF Counters
<1>2. k.sent_req < U32_MOD
  <2>1. CASE Orderly
    BY <1>1, <2>1, ShareType, BlockingAssumption DEF Accounted
  <2>2. CASE ~Orderly
    <3>1. Bursts \in [Conns -> Nat] /\ Bursts[c] = NUM_GAP /\ NUM_GAP \in Nat
      BY BlockingAssumption DEF Bursts
    <3>2. NUM_GAP <= Tally(Conns, Bursts) /\ Tally(Conns, Bursts) \in Nat
      BY <3>1, ConnsFinite, TallyChange
    <3>3. k.sent_req <= NUM_GAP /\ Tally(Conns, Bursts) < U32_MOD
      BY <2>2 DEF Accounted, Narrow
    <3> QED BY <1>1, <3>1, <3>2, <3>3, BlockingAssumption
  <2> QED BY <2>1, <2>2
<1>3. U32_MOD \in Nat
  BY BlockingAssumption
<1>4. k.sent_req \in 0..(U32_MOD - 1)
  BY <1>1, <1>2, <1>3
<1>5. U32(k.sent_req) = k.sent_req
  BY <1>3, <1>4, Unwrapped DEF U32
<1> QED BY <1>1, <1>2, <1>4, <1>5

LEMMA U32Type == ASSUME NEW n \in Int PROVE U32(n) \in 0..(U32_MOD - 1)
<1>1. n + U32_MOD \in Int /\ U32_MOD \in Nat \ {0}
  BY BlockingAssumption
<1> QED BY <1>1, ModRange DEF U32

\* A finished response leaves 0 at worst of the bound.
LEMMA U32Less == ASSUME NEW n \in 0..(U32_MOD - 1), n >= 1 PROVE U32(n - 1) = n - 1
<1>1. n - 1 \in 0..(U32_MOD - 1) /\ U32_MOD \in Nat
  BY BlockingAssumption
<1> QED BY <1>1, Unwrapped DEF U32

LEMMA Current ==
  ASSUME Base
  PROVE  /\ cur \in Conns /\ sock[cur] \in Counters /\ Accounted(cur, sock[cur])
         /\ sm[cur] \in Parser /\ net[cur] \in Socket /\ OfServer(sm[cur], net[cur])
         /\ Owing(sm[cur], net[cur]) <= Pending(cur)
         /\ (~Stopped(cur) => InOrder(sm[cur], net[cur]))
         /\ sock = [sock EXCEPT ![cur] = sock[cur]] /\ sm = [sm EXCEPT ![cur] = sm[cur]]
         /\ net = [net EXCEPT ![cur] = net[cur]]
         /\ call \in ParserCall /\ revents \in SUBSET Conns
         /\ workload \in Int /\ all_fin \in Int /\ burst \in Nat
BY DEF Base, Shape, PeerTypeOK, AllAccounted, FromServer, OwedIsPending, Framing

\* A step that leaves the current connection in order, outside of the parser.
LEMMA QuietStep ==
  ASSUME Base,
         NEW k \in Counters, NEW m \in Parser, NEW s \in Socket,
         Accounted(cur, k), OfServer(m, s), Owing(m, s) <= k.sent_req, InOrder(m, s),
         sock' = [sock EXCEPT ![cur] = k], sm' = [sm EXCEPT ![cur] = m],
         net' = [net EXCEPT ![cur] = s], faults' = faults,
         workload' \in Int, all_fin' \in Int, burst' \in Nat
  PROVE  Quiet'
<1>1. /\ sock \in [Conns -> Counters] /\ sm \in [Conns -> Parser] /\ net \in [Conns -> Socket]
      /\ faults \in 0..MaxFaults
  BY DEF Base, Shape, PeerTypeOK
<1>2. /\ sock' \in [Conns -> Counters] /\ sm' \in [Conns -> Parser] /\ PeerTypeOK'
  BY <1>1, Current DEF PeerTypeOK
<1>3. ASSUME NEW c \in Conns
      PROVE  /\ Accounted(c, sock'[c]) /\ OfServer(sm'[c], net'[c])
             /\ Owing(sm'[c], net'[c]) <= sock'[c].sent_req /\ InOrder(sm'[c], net'[c])
  <2>1. CASE c = cur
    BY <1>1, <2>1
  <2>2. CASE c # cur
    <3>1. sock'[c] = sock[c] /\ sm'[c] = sm[c] /\ net'[c] = net[c]
      BY <1>1, <2>2
    <3>2. Pending(c) = sock[c].sent_req /\ ~Stopped(c)
      <4>1. sock[c].sent_req \in Nat
        BY <1>1 DEF Counters
      <4> QED BY <2>2, <4>1 DEF Pending, Stopped
    <3> QED BY <3>1, <3>2 DEF Base, AllAccounted, FromServer, OwedIsPending, Framing
  <2> QED BY <2>1, <2>2
<1> QED BY <1>2, <1>3 DEF Quiet, AllAccounted, FromServer

\* The same where the counters, the parser or the socket do not change.
LEMMA StillQuiet ==
  ASSUME Base, ~Parsed
  PROVE  /\ Owing(sm[cur], net[cur]) <= sock[cur].sent_req /\ InOrder(sm[cur], net[cur])
         /\ sock[cur].sent_req \in Nat
<1>1. sock[cur].sent_req \in Nat
  BY Current DEF Counters
<1> QED BY <1>1, Current DEF Parsed, Pending, Stopped

LEMMA QuietBase ==
  ASSUME Quiet', pc' \in {"send", "inner", "timeout", "connect", "end"},
         cur' \in Conns, revents' \in SUBSET Conns, call' \in ParserCall
  PROVE  Base'
<1>1. Shape'
  BY DEF Quiet, Shape
<1>2. ASSUME NEW c \in Conns PROVE Pending(c)' = sock'[c].sent_req
  BY DEF Pending, Parsed, Quiet, Counters
<1>3. OwedIsPending' /\ Framing'
  BY <1>2 DEF OwedIsPending, Framing, Quiet
<1>4. CallState' /\ BurstFits'
  BY DEF CallState, BurstFits
<1> QED BY <1>1, <1>3, <1>4 DEF Base, Quiet

LEMMA MinOf ==
  ASSUME NEW S \in SUBSET Conns, S # {}
  PROVE  Min(S) \in S /\ \A y \in S : Min(S) <= y
<1>1. S \in SUBSET Nat
  BY DEF Conns
<1>2. \E x \in S : \A y \in S : x <= y
  BY <1>1, Smallest
<1> QED BY <1>2 DEF Min

LEMMA NoCallType == NoCall \in ParserCall
BY BlockingAssumption DEF NoCall, ParserCall, Rcodes

\* The next connection to parse, or none.
LEMMA LookAtBase ==
  ASSUME Quiet', NEW ready \in SUBSET Conns, LookAt(ready)
  PROVE  Base'
<1>1. CASE ready = {}
  <2>1. pc' = "inner" /\ cur' = 0 /\ revents' = {} /\ call' = NoCall
    BY <1>1 DEF LookAt
  <2>2. 0 \in Conns
    BY PeerAssumption DEF Conns
  <2> QED BY <2>1, <2>2, NoCallType, QuietBase
<1>2. CASE ready # {}
  <2> DEFINE c == Min(ready)
  <2>1. c \in ready
    BY <1>2, MinOf
  <2>2. /\ pc' = "parse" /\ cur' = c /\ revents' = ready \ {c}
        /\ call' = [NoCall EXCEPT !.num_reqs = U32(sock'[c].sent_req)]
    BY <1>2 DEF LookAt
  <2> HIDE DEF c
  <2>3. sock'[c] \in Counters /\ Accounted(c, sock'[c])
    BY <2>1 DEF Quiet, AllAccounted
  <2>4. U32(sock'[c].sent_req) = sock'[c].sent_req /\ sock'[c].sent_req \in 0..(U32_MOD - 1)
    BY <2>1, <2>3, CounterFacts
  <2>5. /\ call' = [num_reqs |-> sock'[c].sent_req, fin_resp |-> 0, rcode |-> "NONE"]
    BY <2>2, <2>4 DEF NoCall
  <2>6. call' \in ParserCall
    BY <2>4, <2>5 DEF ParserCall, Rcodes
  <2>7. Shape'
    BY <2>1, <2>2, <2>6 DEF Quiet, Shape
  <2>8. ASSUME NEW d \in Conns PROVE Pending(d)' = sock'[d].sent_req
    BY <2>5 DEF Pending, Quiet, Counters
  <2>9. OwedIsPending' /\ Framing'
    BY <2>2, <2>8 DEF OwedIsPending, Framing, Quiet
  <2>10. CallState' /\ BurstFits'
    BY <2>2, <2>4, <2>5 DEF CallState, BurstFits
  <2> QED BY <2>7, <2>9, <2>10 DEF Base, Quiet
<1> QED BY <1>1, <1>2

-----------------------------------------------------------------------------
(* Sending. *)

LEMMA NextSendType ==
  ASSUME Base, NextSend
  PROVE  /\ cur' \in Conns /\ pc' \in {"send", "inner"} /\ revents' \in SUBSET Conns
         /\ call' \in ParserCall /\ all_fin' \in Int /\ sm' = sm /\ faults' = faults
<1>1. cur + 1 \in Int /\ NConn \in Nat \ {0}
  BY Current, PeerAssumption DEF Conns
<1>2. cur' \in Conns
  BY <1>1, ModRange DEF NextSend, Conns
<1> QED BY <1>2, Current DEF NextSend

\* What send() of n requests makes of the counters.
Issued(k, n) == [k EXCEPT !.sent_req = @ + n, !.unsent_req = @ - n]

LEMMA IssuedType ==
  ASSUME NEW k \in Counters, NEW n \in Nat, n <= k.unsent_req, k.sent_req + n <= NUM_GAP,
         Accounted(cur, k)
  PROVE  /\ Issued(k, n) \in Counters /\ Accounted(cur, Issued(k, n))
         /\ Issued(k, n).sent_req = k.sent_req + n
         /\ Issued(k, n).unsent_req = k.unsent_req - n
         /\ Issued(k, n).rcvd_res = k.rcvd_res /\ Issued(k, n).up = k.up
<1>1. k.sent_req \in Nat /\ k.unsent_req \in Nat /\ k.rcvd_res \in Nat
  BY DEF Counters
<1> DEFINE a == k.sent_req + n
           b == k.unsent_req - n
<1>2. a \in Nat /\ b \in Nat /\ a + b = k.sent_req + k.unsent_req
  BY <1>1
<1>3. Issued(k, n) = [k EXCEPT !.sent_req = a, !.unsent_req = b]
  BY DEF Issued
<1> HIDE DEF a, b
<1>4. /\ Issued(k, n) \in Counters /\ Issued(k, n).sent_req = a /\ Issued(k, n).unsent_req = b
      /\ Issued(k, n).rcvd_res = k.rcvd_res /\ Issued(k, n).up = k.up
  BY <1>2, <1>3 DEF Counters
<1>5. Accounted(cur, Issued(k, n))
  <2>1. a <= NUM_GAP
    BY DEF a
  <2> QED BY <1>1, <1>2, <1>4, <2>1 DEF Accounted
<1> QED BY <1>4, <1>5 DEF a, b

\* send() takes all n requests.
Takes(n) == /\ Me.up /\ Sent(net[cur], 0, n * ReqSize).ret = "OK"
            /\ sock' = [sock EXCEPT ![cur] = Issued(Me, n)]
            /\ net' = [net EXCEPT ![cur] = Sent(net[cur], 0, n * ReqSize).peer]

LEMMA SendTakes ==
  ASSUME Base, ~Parsed, NEW n \in Nat, n <= Me.unsent_req, Me.sent_req + n <= NUM_GAP, Takes(n),
         sm' = sm, faults' = faults, workload' \in Int, all_fin' \in Int, burst' \in Nat
  PROVE  /\ Quiet' /\ sock'[cur].unsent_req = Me.unsent_req - n
         /\ sock'[cur].sent_req = Me.sent_req + n /\ sock'[cur].sent_req \in Nat
<1> DEFINE k == Issued(Me, n)
           s == Sent(net[cur], 0, n * ReqSize).peer
<1>1. Me \in Counters /\ Accounted(cur, Me) /\ sock \in [Conns -> Counters]
  BY Current DEF Me, Base, Shape
<1>2. k \in Counters /\ Accounted(cur, k) /\ k.sent_req = Me.sent_req + n
      /\ k.unsent_req = Me.unsent_req - n
  BY <1>1, IssuedType
<1>3. /\ Owing(sm[cur], net[cur]) <= Me.sent_req /\ InOrder(sm[cur], net[cur])
      /\ Me.sent_req \in Nat
  BY StillQuiet DEF Me
<1>4. /\ s \in Socket /\ Owing(sm[cur], s) <= Owing(sm[cur], net[cur]) + n
      /\ InOrder(sm[cur], s) /\ OfServer(sm[cur], s)
  BY <1>3, Current, SentOwing DEF Takes
<1>5. Owing(sm[cur], s) \in Nat /\ Owing(sm[cur], net[cur]) \in Nat
  BY <1>4, Current, OwingType
<1>6. Owing(sm[cur], s) <= k.sent_req
  BY <1>2, <1>3, <1>4, <1>5
<1>7. sock' = [sock EXCEPT ![cur] = k] /\ net' = [net EXCEPT ![cur] = s]
      /\ sm' = [sm EXCEPT ![cur] = sm[cur]]
  BY Current DEF Takes
<1> HIDE DEF k, s
<1>8. Quiet'
  BY <1>2, <1>4, <1>6, <1>7, Current, QuietStep
<1>9. sock'[cur] = k
  BY <1>1, <1>7, Current
<1> QED BY <1>2, <1>8, <1>9 DEF Counters

LEMMA SendSkipInv == ASSUME Base, SendSkip PROVE Base'
<1>1. pc = "send" /\ NextSend /\ UNCHANGED <<sock, burst, net>>
      /\ workload' = IF ENABLE_PIPE THEN workload ELSE U32(workload + Me.sent_req)
  BY DEF SendSkip
<1>2. Me.sent_req \in Nat /\ workload \in Int
  BY Current DEF Me, Counters
<1>3. U32(workload + Me.sent_req) \in 0..(U32_MOD - 1)
  BY <1>2, U32Type
<1>4. workload' \in Int
  BY <1>1, <1>2, <1>3
<1>5. Quiet'
  BY <1>1, <1>4, NextSendType, StillQuiet, Current, QuietStep DEF Parsed
<1> QED BY <1>1, <1>5, NextSendType, QuietBase

LEMMA SendOneInv == ASSUME Base, SendOne, pc' # "exit" PROVE Base'
<1>1. /\ pc = "send" /\ Me.sent_req = 0 /\ Me.unsent_req > 0 /\ Takes(1)
      /\ workload' = workload + 1 /\ NextSend /\ UNCHANGED burst
  BY DEF SendOne, Send, Takes, Issued
<1>2. /\ workload' \in Int /\ burst' \in Nat /\ 1 <= Me.unsent_req
      /\ Me.sent_req + 1 <= NUM_GAP
  BY <1>1, Current, BlockingAssumption DEF Me, Counters
<1>3. Quiet'
  BY <1>1, <1>2, NextSendType, SendTakes DEF Parsed
<1> QED BY <1>3, <1>1, NextSendType, QuietBase

LEMMA RoundType ==
  ASSUME Base
  PROVE  /\ Round \in Nat /\ Round <= Me.unsent_req /\ Me.unsent_req \in Nat
         /\ (Me.sent_req = 0 => Me.sent_req + Round <= NUM_GAP)
         /\ (Me.unsent_req > 0 => Round >= 1)
<1>1. Me.unsent_req \in Nat /\ NUM_GAP \in Nat \ {0}
  BY Current, BlockingAssumption DEF Me, Counters
<1> QED BY <1>1 DEF Round

LEMMA StartBurstInv == ASSUME Base, StartBurst PROVE Base'
<1>1. /\ pc = "send" /\ ENABLE_PIPE /\ Me.unsent_req > 0 /\ Me.sent_req = 0
      /\ pc' = "burst" /\ burst' = Round
      /\ UNCHANGED <<cur, revents, workload, all_fin, sock, sm, call, net, faults>>
  BY DEF StartBurst
<1>2. Shape'
  BY <1>1, RoundType DEF Base, Shape, PeerTypeOK
<1>3. ~Parsed /\ ~Parsed'
  BY <1>1 DEF Parsed
<1>4. OwedIsPending'
  BY <1>1, <1>3 DEF Base, OwedIsPending, Pending
<1>5. Framing'
  BY <1>1 DEF Base, Framing, Stopped
<1>6. AllAccounted' /\ FromServer'
  BY <1>1 DEF Base, AllAccounted, FromServer
<1>7. CallState'
  BY <1>1 DEF CallState
<1>8. BurstFits'
  BY <1>1, RoundType DEF BurstFits, Me
<1> QED BY <1>2, <1>4, <1>5, <1>6, <1>7, <1>8 DEF Base

LEMMA SendBurstInv == ASSUME Base, SendBurst, pc' # "exit" PROVE Base'
<1>1. /\ pc = "burst" /\ Takes(1) /\ burst' = burst - 1
      /\ IF burst = 1
           THEN workload' = workload + sock'[cur].sent_req /\ NextSend
           ELSE UNCHANGED <<pc, cur, revents, workload, all_fin, sm, call, faults>>
  BY DEF SendBurst, Send, Takes, Issued
<1>2. /\ ENABLE_PIPE /\ burst \in Nat /\ burst >= 1 /\ burst <= Me.unsent_req
      /\ Me.unsent_req \in Nat /\ Me.sent_req + burst <= NUM_GAP
  BY <1>1, RoundType, Current DEF Base, BurstFits, Me
<1>3. sm' = sm /\ faults' = faults /\ all_fin' \in Int /\ burst' \in Nat
  BY <1>1, <1>2, NextSendType, Current
<1>4. /\ Me \in Counters /\ Accounted(cur, Me) /\ sock \in [Conns -> Counters]
      /\ Me.sent_req \in Nat /\ NUM_GAP \in Nat
  BY Current, BlockingAssumption DEF Me, Base, Shape, Counters
<1>10. Me.sent_req + 1 <= NUM_GAP /\ 1 <= Me.unsent_req
  BY <1>2, <1>4
<1>5. sock'[cur] = Issued(Me, 1) /\ Issued(Me, 1) \in Counters
  BY <1>1, <1>4, <1>10, Current, IssuedType DEF Takes
<1>6. workload' \in Int
  BY <1>1, <1>5, Current DEF Counters
<1>7. /\ Quiet' /\ sock'[cur].unsent_req = Me.unsent_req - 1
      /\ sock'[cur].sent_req = Me.sent_req + 1
  BY <1>1, <1>3, <1>6, <1>10, SendTakes DEF Parsed
<1>8. CASE burst = 1
  BY <1>1, <1>7, <1>8, NextSendType, QuietBase
<1>9. CASE burst # 1
  <2>1. /\ UNCHANGED <<pc, cur, revents, workload, all_fin, sm, call, faults>>
        /\ pc' = "burst"
    BY <1>1, <1>9
  <2>2. Shape'
    BY <2>1, <1>7, Current DEF Quiet, Shape
  <2>3. ASSUME NEW c \in Conns PROVE Pending(c)' = sock'[c].sent_req
    BY <2>1, <1>7 DEF Pending, Parsed, Quiet, Counters
  <2>4. OwedIsPending' /\ Framing'
    BY <2>3, <1>7 DEF OwedIsPending, Framing, Quiet
  <2>5. CallState'
    BY <2>1 DEF CallState
  <2>6. BurstFits'
    BY <1>1, <1>2, <1>4, <1>7, <1>9, <2>1 DEF BurstFits
  <2> QED BY <1>7, <2>2, <2>4, <2>5, <2>6 DEF Base, Quiet
<1> QED BY <1>8, <1>9

LEMMA SendFastInv == ASSUME Base, SendFast, pc' # "exit" PROVE Base'
<1>1. /\ pc = "send" /\ Takes(Round) /\ workload' = workload + Round /\ NextSend
      /\ Me.sent_req = 0 /\ UNCHANGED burst
  BY DEF SendFast, Send, Takes, Issued
<1>2. workload' \in Int /\ burst' \in Nat
  BY <1>1, Current, RoundType
<1>3. Quiet'
  BY <1>1, <1>2, RoundType, NextSendType, SendTakes DEF Parsed
<1> QED BY <1>3, <1>1, NextSendType, QuietBase

-----------------------------------------------------------------------------
(* Waiting. *)

\* A step that changes nothing but where the loop is.
LEMMA LoopQuiet ==
  ASSUME Base, ~Parsed, UNCHANGED <<sock, sm, net, faults, workload, all_fin, burst>>
  PROVE  Quiet'
BY StillQuiet, Current, QuietStep

LEMMA RoundOverInv == ASSUME Base, RoundOver PROVE Base'
<1>1. /\ pc = "inner" /\ pc' \in {"send", "end"}
      /\ UNCHANGED <<cur, revents, workload, all_fin, sock, sm, call, burst, net, faults>>
  BY DEF RoundOver
<1> QED BY <1>1, LoopQuiet, Current, QuietBase DEF Parsed

LEMMA PollInv == ASSUME Base, Poll PROVE Base'
<1>1. /\ pc = "inner" /\ UNCHANGED <<sock, workload, all_fin, sm, burst, net, faults>>
      /\ LookAt(Readable)
  BY DEF Poll
<1>2. Readable \in SUBSET Conns
  BY DEF Readable
<1> QED BY <1>1, <1>2, LoopQuiet, LookAtBase DEF Parsed

LEMMA PollTimeoutInv == ASSUME Base, PollTimeout PROVE Base'
<1>1. /\ pc = "inner" /\ pc' = "timeout"
      /\ UNCHANGED <<cur, revents, workload, all_fin, sock, sm, call, burst, net, faults>>
  BY DEF PollTimeout
<1> QED BY <1>1, LoopQuiet, Current, QuietBase DEF Parsed

LEMMA NextTimeoutType ==
  ASSUME Base, NextTimeout
  PROVE  /\ cur' \in Conns /\ pc' \in {"timeout", "inner"} /\ revents' \in SUBSET Conns
         /\ call' \in ParserCall
<1>1. cur + 1 \in Int /\ NConn \in Nat \ {0}
  BY Current, PeerAssumption DEF Conns
<1>2. cur' \in Conns
  BY <1>1, ModRange DEF NextTimeout, Conns
<1> QED BY <1>2, Current DEF NextTimeout

\* A new socket for the current connection.
Replaced(k) == [k EXCEPT !.retry_conn_num = @ + 1]

LEMMA ReplacedType ==
  ASSUME NEW k \in Counters, Accounted(cur, k)
  PROVE  /\ Replaced(k) \in Counters /\ Accounted(cur, Replaced(k))
         /\ Replaced(k).sent_req = k.sent_req /\ Replaced(k).unsent_req = k.unsent_req
         /\ Replaced(k).rcvd_res = k.rcvd_res /\ Replaced(k).up = k.up
BY DEF Replaced, Counters, Accounted

LEMMA ReconnectBase ==
  ASSUME Base, NEW k \in Counters, Accounted(cur, k), Reconnect(k), NEW m \in Parser,
         sm' = [sm EXCEPT ![cur] = m], faults' = faults,
         Owing(m, NewSocket) <= k.sent_req, InOrder(m, NewSocket), OfServer(m, NewSocket),
         workload' \in Int, all_fin' \in Int, burst' \in Nat
  PROVE  Base'
<1>1. /\ sock' = [sock EXCEPT ![cur] = Replaced(k)] /\ net' = [net EXCEPT ![cur] = NewSocket]
      /\ pc' = "connect" /\ UNCHANGED <<cur, revents, call>>
  BY DEF Reconnect, Replaced
<1>2. Quiet'
  BY <1>1, ReplacedType, NewSocketType, QuietStep
<1> QED BY <1>1, <1>2, Current, QuietBase

LEMMA CheckTimeoutInv == ASSUME Base, CheckTimeout PROVE Base'
<1>1. pc = "timeout" /\ UNCHANGED <<workload, all_fin, sm, burst, faults>>
  BY DEF CheckTimeout
<1>2. CASE NextTimeout /\ UNCHANGED <<sock, net>>
  BY <1>1, <1>2, NextTimeoutType, LoopQuiet, QuietBase DEF Parsed
<1>3. CASE Reconnect(Me)
  <2>1. /\ Me \in Counters /\ Accounted(cur, Me) /\ sm[cur] \in Parser
        /\ sm' = [sm EXCEPT ![cur] = sm[cur]]
        /\ workload' \in Int /\ all_fin' \in Int /\ burst' \in Nat
    BY <1>1, Current DEF Me
  <2>2. /\ Owing(sm[cur], net[cur]) <= Me.sent_req /\ InOrder(sm[cur], net[cur])
        /\ Me.sent_req \in Nat
    BY <1>1, StillQuiet DEF Me, Parsed
  <2>3. /\ Owing(sm[cur], NewSocket) <= Owing(sm[cur], net[cur])
        /\ OfServer(sm[cur], NewSocket) /\ InOrder(sm[cur], NewSocket)
    BY <2>2, Current, ReplacedOwing
  <2>4. Owing(sm[cur], NewSocket) \in Nat /\ Owing(sm[cur], net[cur]) \in Nat
    BY Current, OwingType, NewSocketType
  <2>5. Owing(sm[cur], NewSocket) <= Me.sent_req
    BY <2>2, <2>3, <2>4
  <2> QED BY <1>1, <1>3, <2>1, <2>3, <2>5, ReconnectBase
<1> QED BY <1>2, <1>3 DEF CheckTimeout

LEMMA ConnectReturnsInv == ASSUME Base, ConnectReturns PROVE Base'
<1> DEFINE u == net[cur].err # "REFUSED"
           k == [Me EXCEPT !.up = u]
<1>1. /\ pc = "connect" /\ sock' = [sock EXCEPT ![cur].up = u]
      /\ UNCHANGED <<workload, all_fin, sm, burst, net, faults>>
      /\ NextTimeout \/ LookAt(revents)
  BY DEF ConnectReturns
<1>2. Me \in Counters /\ Accounted(cur, Me) /\ u \in BOOLEAN
  BY Current DEF Me
<1>3. sock' = [sock EXCEPT ![cur] = k]
  BY <1>1 DEF Me
<1> HIDE DEF u
<1>4. k \in Counters /\ Accounted(cur, k) /\ k.sent_req = Me.sent_req
  BY <1>2 DEF Counters, Accounted
<1> HIDE DEF k
<1>5. Owing(sm[cur], net[cur]) <= k.sent_req /\ InOrder(sm[cur], net[cur])
  BY <1>1, <1>4, StillQuiet DEF Me, Parsed
<1>6. Quiet'
  BY <1>1, <1>3, <1>4, <1>5, Current, QuietStep
<1>7. CASE NextTimeout
  BY <1>6, <1>7, NextTimeoutType, QuietBase
<1>8. CASE LookAt(revents)
  BY <1>6, <1>8, Current, LookAtBase
<1> QED BY <1>1, <1>7, <1>8

-----------------------------------------------------------------------------
(* The parser. *)

\* A running parser call.
LEMMA InCall ==
  ASSUME Base
  PROVE  /\ call.num_reqs \in 0..(U32_MOD - 1) /\ call.num_reqs \in Nat /\ call.fin_resp \in Nat
         /\ call.rcode \in Rcodes
         /\ sock[cur].sent_req \in Nat /\ Owing(sm[cur], net[cur]) \in Nat
         /\ Parsed => /\ Pending(cur) = sock[cur].sent_req - call.fin_resp
                      /\ Owing(sm[cur], net[cur]) + call.fin_resp <= sock[cur].sent_req
<1>1. /\ call.num_reqs \in 0..(U32_MOD - 1) /\ call.fin_resp \in Nat /\ call.rcode \in Rcodes
      /\ sock[cur].sent_req \in Nat /\ Owing(sm[cur], net[cur]) \in Nat /\ U32_MOD \in Nat
  BY Current, OwingType, BlockingAssumption DEF ParserCall, Counters
<1>2. ASSUME Parsed
      PROVE  /\ Pending(cur) = sock[cur].sent_req - call.fin_resp
             /\ Owing(sm[cur], net[cur]) + call.fin_resp <= sock[cur].sent_req
  BY <1>1, <1>2, Current DEF Pending
<1> QED BY <1>1, <1>2

\* A step of the parser.
LEMMA ParseStep ==
  ASSUME Base, Parsing, NEW m \in Parser, NEW s \in Socket, NEW k \in ParserCall,
         sm' = [sm EXCEPT ![cur] = m], net' = [net EXCEPT ![cur] = s], call' = k,
         Owing(m, s) + k.fin_resp <= sock[cur].sent_req, OfServer(m, s),
         pc' \in {"parse", "dispatch"},
         (pc' = "dispatch" /\ k.rcode \in Stops \ {"NOT_SUPPORT"}) \/ InOrder(m, s),
         pc' = "parse" => k.rcode = "NONE" /\ k.num_reqs + k.fin_resp = sock[cur].sent_req,
         pc' = "dispatch" =>
           /\ k.rcode # "NONE"
           /\ k.rcode \in {"POLL_DATA", "CLOSE"} =>
                m.buf = <<>> /\ (~PeerGone(s) => k.fin_resp = sock[cur].sent_req)
           /\ k.rcode = "NOT_SUPPORT" => m.p_state = "GARB" /\ "odd" \in Kinds
           /\ k.rcode = "REDIRECT" => "redirect" \in Kinds
           /\ k.rcode \in {"CLIENT_ERR", "ERROR"} => Kinds \cap Rejections # {}
  PROVE  Base'
<1>1. /\ pc = "parse" /\ UNCHANGED <<cur, revents, workload, all_fin, sock, burst, faults>>
      /\ sock \in [Conns -> Counters] /\ sm \in [Conns -> Parser] /\ net \in [Conns -> Socket]
  BY DEF Parsing, Base, Shape, PeerTypeOK
<1>2. Shape'
  BY <1>1, Current DEF Base, Shape, PeerTypeOK
<1>3. sm'[cur] = m /\ net'[cur] = s /\ call' = k /\ cur' = cur /\ sock' = sock /\ cur \in Conns
  BY <1>1, Current
<1>4. k.fin_resp \in Nat /\ Owing(m, s) \in Nat /\ sock[cur].sent_req \in Nat
  BY OwingType, InCall DEF ParserCall
<1>5. ASSUME NEW c \in Conns
      PROVE  /\ Owing(sm[c], net[c])' <= Pending(c)'
             /\ ~Stopped(c)' => InOrder(sm[c], net[c])'
             /\ OfServer(sm[c], net[c])'
  <2>1. CASE c = cur
    <3>1. Pending(c)' = sock[cur].sent_req - k.fin_resp
      BY <1>3, <2>1 DEF Pending, Parsed
    <3>2. Owing(m, s) <= Pending(c)'
      BY <1>4, <3>1
    <3>3. ~Stopped(c)' => InOrder(m, s)
      BY <1>3, <2>1 DEF Stopped
    <3> QED BY <1>3, <2>1, <3>2, <3>3
  <2>2. CASE c # cur
    <3>1. sm'[c] = sm[c] /\ net'[c] = net[c]
      BY <1>1, <2>2
    <3>2. Pending(c)' = Pending(c) /\ ~Stopped(c)
      BY <1>3, <2>2 DEF Pending, Stopped
    <3> QED BY <3>1, <3>2 DEF Base, FromServer, OwedIsPending, Framing
  <2> QED BY <2>1, <2>2
<1>6. OwedIsPending' /\ Framing' /\ FromServer'
  BY <1>5 DEF FromServer, OwedIsPending, Framing
<1>7. CallState'
  BY <1>3 DEF CallState
<1>8. AllAccounted' /\ BurstFits'
  BY <1>1 DEF Base, AllAccounted, BurstFits
<1> QED BY <1>2, <1>6, <1>7, <1>8 DEF Base

\* The parser of the current connection is in order as long as it runs.
LEMMA Running ==
  ASSUME Base, Parsing
  PROVE  InOrder(sm[cur], net[cur]) /\ call.rcode = "NONE"
         /\ call.num_reqs + call.fin_resp = sock[cur].sent_req
         /\ Owing(sm[cur], net[cur]) + call.fin_resp <= sock[cur].sent_req
BY Current, InCall DEF Parsing, Base, Stopped, CallState, Parsed

\* The parser call returns rc.
Return(rc) == [call EXCEPT !.rcode = rc]

LEMMA ReturnType ==
  ASSUME Base, NEW rc \in Rcodes
  PROVE  /\ Return(rc) \in ParserCall /\ Return(rc).rcode = rc
         /\ Return(rc).fin_resp = call.fin_resp /\ Return(rc).num_reqs = call.num_reqs
BY Current DEF Return, ParserCall

LEMMA ParseTokenInv == ASSUME Base, ParseToken PROVE Base'
<1> DEFINE m == sm[cur]
           s == net[cur]
<1>1. Parsing /\ m.buf # <<>> /\ net' = net
  BY DEF ParseToken, HasData
<1>2. PICK o \in Parse(m, Head(m.buf)) :
        /\ o.res # "FINISH"
        /\ sm' = [sm EXCEPT ![cur] = Taken(m, o)]
        /\ IF o.res = "MORE" THEN UNCHANGED <<pc, call>> ELSE Returns(o.res)
  BY Current DEF ParseToken, Taken
<1> DEFINE n == Taken(m, o)
<1>3. m \in Parser /\ s \in Socket /\ OfServer(m, s) /\ net' = [net EXCEPT ![cur] = s]
  BY <1>1, Current
<1>4. /\ InOrder(m, s) /\ call.rcode = "NONE" /\ call.num_reqs + call.fin_resp = sock[cur].sent_req
      /\ Owing(m, s) + call.fin_resp <= sock[cur].sent_req /\ pc = "parse"
  BY <1>1, Running DEF Parsing
<1> HIDE DEF m, s
<1>5. /\ o.res \in {"MORE"} \cup Stops
      /\ n \in Parser /\ Owing(n, s) <= Owing(m, s) /\ OfServer(n, s)
      /\ o.res \in {"MORE", "NOT_SUPPORT"} => InOrder(n, s)
      /\ o.res = "NOT_SUPPORT" => n.p_state = "GARB" /\ "odd" \in Kinds
      /\ o.res = "REDIRECT" => "redirect" \in Kinds
      /\ o.res \in {"CLIENT_ERR", "ERROR"} => Kinds \cap Rejections # {}
  <2>1. n.p_state = o.p_state
    BY DEF Taken
  <2> HIDE DEF n
  <2> QED BY <1>1, <1>2, <1>3, <1>4, <2>1, TakenOwing DEF n
<1> HIDE DEF n
<1>6. Owing(n, s) + call.fin_resp <= sock[cur].sent_req
  <2>1. Owing(n, s) \in Nat /\ Owing(m, s) \in Nat
    BY <1>3, <1>5, OwingType
  <2> QED BY <1>4, <1>5, <2>1, InCall
<1>7. CASE o.res = "MORE"
  <2>1. pc' = "parse" /\ call' = call /\ InOrder(n, s)
    BY <1>2, <1>4, <1>5, <1>7
  <2> QED BY <1>1, <1>2, <1>3, <1>4, <1>5, <1>6, <2>1, Current, ParseStep DEF n, m
<1>8. CASE o.res # "MORE"
  <2>1. pc' = "dispatch" /\ call' = Return(o.res) /\ o.res \in Stops
    BY <1>2, <1>5, <1>8 DEF Returns, Return
  <2>2. o.res \in Rcodes /\ o.res # "NONE" /\ o.res \notin {"POLL_DATA", "CLOSE"}
    BY <2>1 DEF Rcodes, Stops
  <2>3. /\ Return(o.res) \in ParserCall /\ Return(o.res).rcode = o.res
        /\ Return(o.res).fin_resp = call.fin_resp
    BY <2>2, ReturnType
  <2>4. o.res \in Stops \ {"NOT_SUPPORT"} \/ InOrder(n, s)
    BY <1>5, <2>1
  <2>5. sm' = [sm EXCEPT ![cur] = n]
    BY <1>2 DEF n, m
  <2> QED BY <1>1, <1>3, <1>5, <1>6, <2>1, <2>2, <2>3, <2>4, <2>5, ParseStep
<1> QED BY <1>7, <1>8

LEMMA ParseFinishInv == ASSUME Base, ParseFinish PROVE Base'
<1> DEFINE m == sm[cur]
           s == net[cur]
           n == Finish(m)
<1>1. Parsing /\ m.buf # <<>> /\ UNCHANGED <<pc, net>>
  BY DEF ParseFinish, HasData
<1>2. PICK o \in Parse(m, Head(m.buf)) :
        /\ o.res = "FINISH" /\ sm' = [sm EXCEPT ![cur] = n]
        /\ call' = [call EXCEPT !.num_reqs = U32(@ - 1), !.fin_resp = @ + 1]
  BY DEF ParseFinish, Finish
<1>3. m \in Parser /\ s \in Socket /\ OfServer(m, s) /\ net' = [net EXCEPT ![cur] = s]
  BY <1>1, Current
<1>4. /\ InOrder(m, s) /\ call.rcode = "NONE" /\ call.num_reqs + call.fin_resp = sock[cur].sent_req
      /\ Owing(m, s) + call.fin_resp <= sock[cur].sent_req /\ pc = "parse"
  BY <1>1, Running DEF Parsing
<1> HIDE DEF m, s
<1>5. /\ n \in Parser /\ Owing(m, s) = Owing(n, s) + 1 /\ InOrder(n, s) /\ OfServer(n, s)
  BY <1>1, <1>2, <1>3, <1>4, FinishOwing
<1> HIDE DEF n
<1>6. /\ Owing(n, s) \in Nat /\ call.num_reqs \in 0..(U32_MOD - 1) /\ call.num_reqs \in Nat
      /\ call.fin_resp \in Nat /\ sock[cur].sent_req \in Nat
  BY <1>3, <1>5, OwingType, InCall
<1>7. call.num_reqs >= 1
  BY <1>4, <1>5, <1>6
<1>8. U32(call.num_reqs - 1) = call.num_reqs - 1
  BY <1>6, <1>7, U32Less
<1> DEFINE a == call.num_reqs - 1
           b == call.fin_resp + 1
           k == [call EXCEPT !.num_reqs = a, !.fin_resp = b]
<1>9. call' = k
  BY <1>2, <1>8
<1>10. a \in 0..(U32_MOD - 1) /\ b \in Nat /\ a + b = sock[cur].sent_req
       /\ Owing(n, s) + b <= sock[cur].sent_req
  BY <1>4, <1>5, <1>6, <1>7, BlockingAssumption
<1> HIDE DEF a, b
<1>11. k \in ParserCall /\ k.rcode = "NONE" /\ k.num_reqs = a /\ k.fin_resp = b
  BY <1>4, <1>10, Current DEF ParserCall
<1> HIDE DEF k
<1>12. pc' = "parse"
  BY <1>1, <1>4
<1> QED BY <1>1, <1>2, <1>3, <1>5, <1>9, <1>10, <1>11, <1>12, ParseStep

LEMMA NothingExpectedInv == ASSUME Base, NothingExpected PROVE Base'
<1>1. /\ Parsing /\ sm[cur].buf = <<>> /\ call.num_reqs = 0 /\ UNCHANGED <<sm, net>>
      /\ pc' = "dispatch" /\ call' = Return("POLL_DATA")
  BY DEF NothingExpected, HasData, Returns, Return
<1>2. /\ InOrder(sm[cur], net[cur]) /\ call.num_reqs + call.fin_resp = sock[cur].sent_req
      /\ Owing(sm[cur], net[cur]) + call.fin_resp <= sock[cur].sent_req
  BY <1>1, Running
<1>3. call.fin_resp = sock[cur].sent_req
  BY <1>1, <1>2, InCall
<1>4. "POLL_DATA" \in Rcodes /\ "POLL_DATA" \notin Stops
  BY DEF Rcodes, Stops
<1>5. /\ Return("POLL_DATA") \in ParserCall /\ Return("POLL_DATA").rcode = "POLL_DATA"
      /\ Return("POLL_DATA").fin_resp = call.fin_resp
  BY <1>4, ReturnType
<1>6. /\ sm' = [sm EXCEPT ![cur] = sm[cur]] /\ net' = [net EXCEPT ![cur] = net[cur]]
      /\ sm[cur] \in Parser /\ net[cur] \in Socket /\ OfServer(sm[cur], net[cur])
  BY <1>1, Current
<1> QED BY <1>1, <1>2, <1>3, <1>5, <1>6, ParseStep

LEMMA RecvInv == ASSUME Base, Recv PROVE Base'
<1> DEFINE m == sm[cur]
           s == net[cur]
<1>1. Parsing /\ m.buf = <<>> /\ UNCHANGED <<pc, call>>
  BY DEF Recv, HasData
<1>2. PICK n \in 1..Len(s.rx) :
        /\ sm' = [sm EXCEPT ![cur].buf = SubSeq(s.rx, 1, n)]
        /\ net' = [net EXCEPT ![cur].rx = SubSeq(@, n + 1, Len(@))]
  BY DEF Recv
<1> DEFINE m1 == Filled(m, s, n)
           s1 == Drained(s, n)
<1>3. /\ sm' = [sm EXCEPT ![cur] = m1] /\ net' = [net EXCEPT ![cur] = s1]
  BY <1>2 DEF Filled, Drained
<1>4. m \in Parser /\ s \in Socket /\ OfServer(m, s) /\ call \in ParserCall
  BY Current
<1>5. /\ InOrder(m, s) /\ call.rcode = "NONE" /\ call.num_reqs + call.fin_resp = sock[cur].sent_req
      /\ Owing(m, s) + call.fin_resp <= sock[cur].sent_req /\ pc = "parse"
  BY <1>1, Running DEF Parsing
<1>6. /\ m1 \in Parser /\ s1 \in Socket /\ Owing(m1, s1) = Owing(m, s)
      /\ InOrder(m1, s1) /\ OfServer(m1, s1)
  <2>1. m.buf = <<>> /\ InOrder(m, s) /\ OfServer(m, s) /\ m \in Parser /\ s \in Socket
        /\ n \in 1..Len(s.rx)
    BY <1>1, <1>2, <1>4, <1>5
  <2> HIDE DEF m, s
  <2> QED BY <2>1, ReceivedOwing
<1> HIDE DEF m1, s1
<1>7. Owing(m1, s1) + call.fin_resp <= sock[cur].sent_req /\ pc' = "parse" /\ call' = call
  BY <1>1, <1>5, <1>6
<1> QED BY <1>1, <1>3, <1>4, <1>5, <1>6, <1>7, ParseStep

LEMMA RecvEofInv == ASSUME Base, RecvEof PROVE Base'
<1> DEFINE s == net[cur]
<1>1. /\ Parsing /\ AtEof(s) /\ net' = net
      /\ sm' = [sm EXCEPT ![cur] = CleanParser]
      /\ pc' = "dispatch" /\ call' = Return("CLOSE")
  BY CleanFacts DEF RecvEof, Returns, Return
<1>2. s.rx = <<>> /\ PeerGone(s)
  BY <1>1 DEF AtEof, PeerGone
<1>3. s \in Socket /\ net' = [net EXCEPT ![cur] = s] /\ sm[cur] \in Parser
  BY <1>1, Current
<1>4. Owing(sm[cur], s) + call.fin_resp <= sock[cur].sent_req
  BY <1>1, Running
<1>5. InOrder(CleanParser, s) /\ OfServer(CleanParser, s)
  BY <1>2, <1>3, CleanStart
<1>6. Owing(CleanParser, s) + call.fin_resp <= sock[cur].sent_req
  <2>1. Owing(CleanParser, s) = ToCome(s, Ends) /\ ToCome(s, Ends) <= Owing(sm[cur], s)
        /\ ToCome(s, Ends) \in Nat /\ Owing(sm[cur], s) \in Nat
    BY <1>3, CleanOwing, OwingType
  <2> QED BY <1>4, <2>1, InCall
<1>7. "CLOSE" \in Rcodes /\ "CLOSE" \notin Stops
  BY DEF Rcodes, Stops
<1>8. /\ Return("CLOSE") \in ParserCall /\ Return("CLOSE").rcode = "CLOSE"
      /\ Return("CLOSE").fin_resp = call.fin_resp
  BY <1>7, ReturnType
<1> QED BY <1>1, <1>2, <1>3, <1>5, <1>6, <1>8, CleanFacts, ParseStep

LEMMA RecvErrorInv == ASSUME Base, RecvError PROVE Base'
<1> DEFINE s == net[cur]
           m == sm[cur]
           s1 == [s EXCEPT !.err = "NONE"]
<1>1. /\ Parsing /\ m.buf = <<>> /\ s.tcp = "CLOSE" /\ sm' = sm
      /\ net' = [net EXCEPT ![cur] = s1]
      /\ pc' = "dispatch" /\ call' = Return("POLL_DATA")
  BY DEF RecvError, Returns, Return, HasData, AfterError
<1>2. /\ m \in Parser /\ s \in Socket /\ OfServer(m, s) /\ sm' = [sm EXCEPT ![cur] = m]
  BY <1>1, Current
<1>3. InOrder(m, s) /\ Owing(m, s) + call.fin_resp <= sock[cur].sent_req
  BY <1>1, Running
<1>4. /\ s1 \in Socket /\ s1.rx = s.rx /\ s1.srv = s.srv /\ s1.wire = s.wire /\ s1.tcp = "CLOSE"
  BY <1>1, <1>2 DEF Socket
<1> HIDE DEF s1
<1>5. Owing(m, s1) = Owing(m, s) /\ InOrder(m, s1) /\ OfServer(m, s1) /\ PeerGone(s1)
  BY <1>2, <1>3, <1>4 DEF Owing, ToCome, InOrder, OfServer, PeerGone
<1>6. "POLL_DATA" \in Rcodes /\ "POLL_DATA" \notin Stops
  BY DEF Rcodes, Stops
<1>7. /\ Return("POLL_DATA") \in ParserCall /\ Return("POLL_DATA").rcode = "POLL_DATA"
      /\ Return("POLL_DATA").fin_resp = call.fin_resp
  BY <1>6, ReturnType
<1> QED BY <1>1, <1>2, <1>3, <1>4, <1>5, <1>7, ParseStep

-----------------------------------------------------------------------------
(* The switch. *)

LEMMA CreditedType ==
  ASSUME NEW k \in Counters, NEW n \in Nat, n <= k.sent_req, Accounted(cur, k)
  PROVE  /\ Credited(k, n) \in Counters
         /\ Credited(k, n).sent_req = k.sent_req - n
         /\ Credited(k, n).rcvd_res = k.rcvd_res + n
         /\ Credited(k, n).unsent_req = k.unsent_req + (k.sent_req - n)
         /\ Credited(k, n).up = k.up
         /\ (n = k.sent_req \/ ~Orderly => Accounted(cur, Credited(k, n)))
<1> DEFINE a == k.rcvd_res + n
           b == k.unsent_req + (k.sent_req - n)
           d == k.sent_req - n
<1>1. k.sent_req \in Nat /\ k.unsent_req \in Nat /\ k.rcvd_res \in Nat
  BY DEF Counters
<1>2. a \in Nat /\ b \in Nat /\ d \in Nat
  BY <1>1
<1>3. n = k.sent_req => a + b + d = k.rcvd_res + k.unsent_req + k.sent_req
  BY <1>1
<1>4. Credited(k, n) = [k EXCEPT !.rcvd_res = a, !.unsent_req = b, !.sent_req = d]
  BY DEF Credited
<1> HIDE DEF a, b, d
<1>5. /\ Credited(k, n) \in Counters /\ Credited(k, n).sent_req = d
      /\ Credited(k, n).rcvd_res = a /\ Credited(k, n).unsent_req = b
      /\ Credited(k, n).up = k.up
  BY <1>2, <1>4 DEF Counters
<1>6. ASSUME n = k.sent_req \/ ~Orderly PROVE Accounted(cur, Credited(k, n))
  <2>1. CASE Orderly
    BY <1>3, <1>5, <1>6, <2>1 DEF Accounted
  <2>2. CASE ~Orderly
    <3>1. Narrow /\ k.sent_req <= NUM_GAP /\ NUM_GAP \in Nat
      BY <2>2, BlockingAssumption DEF Accounted
    <3>2. d <= NUM_GAP
      BY <1>1, <3>1 DEF d
    <3> QED BY <1>5, <2>2, <3>1, <3>2 DEF Accounted
  <2> QED BY <2>1, <2>2
<1> QED BY <1>5, <1>6 DEF a, b, d

\* Its unanswered requests have become unsent ones.
Abandoned(k, n) == [Credited(k, n) EXCEPT !.sent_req = 0]

LEMMA AbandonedType ==
  ASSUME NEW k \in Counters, NEW n \in Nat, n <= k.sent_req, Accounted(cur, k)
  PROVE  /\ Abandoned(k, n) \in Counters /\ Accounted(cur, Abandoned(k, n))
         /\ Abandoned(k, n).sent_req = 0 /\ Abandoned(k, n).rcvd_res = k.rcvd_res + n
         /\ Abandoned(k, n).unsent_req = k.unsent_req + (k.sent_req - n)
         /\ Abandoned(k, n).up = k.up
<1> DEFINE d == Credited(k, n)
<1>1. /\ d \in Counters /\ d.rcvd_res = k.rcvd_res + n
      /\ d.unsent_req = k.unsent_req + (k.sent_req - n) /\ d.up = k.up
  BY CreditedType
<1>2. Abandoned(k, n) = [d EXCEPT !.sent_req = 0]
  BY DEF Abandoned
<1> HIDE DEF d
<1>3. /\ Abandoned(k, n) \in Counters /\ Abandoned(k, n).sent_req = 0
      /\ Abandoned(k, n).rcvd_res = k.rcvd_res + n /\ Abandoned(k, n).up = k.up
      /\ Abandoned(k, n).unsent_req = k.unsent_req + (k.sent_req - n)
  BY <1>1, <1>2 DEF Counters
<1>4. k.sent_req \in Nat /\ k.unsent_req \in Nat /\ k.rcvd_res \in Nat
  BY DEF Counters
<1>5. Accounted(cur, Abandoned(k, n))
  <2>1. CASE Orderly
    BY <1>3, <1>4, <2>1 DEF Accounted
  <2>2. CASE ~Orderly
    BY <1>3, <2>2, BlockingAssumption DEF Accounted
  <2> QED BY <2>1, <2>2
<1> QED BY <1>3, <1>5

\* The switch counts what the parser has finished.
LEMMA DispatchFacts ==
  ASSUME Base, NEW rcodes, NEW n, Dispatch(rcodes, n), call.rcode # "REDIRECT"
  PROVE  /\ pc = "dispatch" /\ n = call.fin_resp /\ n \in Nat /\ n <= Me.sent_req
         /\ call.rcode \in rcodes /\ all_fin' = all_fin + n /\ all_fin' \in Int
         /\ UNCHANGED <<burst, faults>> /\ burst' \in Nat
         /\ Owing(sm[cur], net[cur]) + n <= Me.sent_req /\ Owing(sm[cur], net[cur]) \in Nat
         /\ Me \in Counters /\ Accounted(cur, Me) /\ Me.sent_req \in Nat
<1>1. /\ pc = "dispatch" /\ n = call.fin_resp /\ call.rcode \in rcodes
      /\ all_fin' = all_fin + n /\ UNCHANGED <<burst, faults>>
  BY DEF Dispatch, NumResp
<1>2. /\ n \in Nat /\ Owing(sm[cur], net[cur]) \in Nat
      /\ Owing(sm[cur], net[cur]) + n <= Me.sent_req /\ Me.sent_req \in Nat
  BY <1>1, InCall DEF Parsed, Me
<1>3. Me \in Counters /\ Accounted(cur, Me) /\ all_fin \in Int /\ burst \in Nat
  BY Current DEF Me
<1>4. n <= Me.sent_req
  BY <1>2
<1> QED BY <1>1, <1>2, <1>3, <1>4

\* A connection given up: its parser starts afresh, or has nothing to finish.
LEMMA GiveUpBase ==
  ASSUME Base, NEW n \in Nat, n <= Me.sent_req, NEW m \in Parser,
         sm' = [sm EXCEPT ![cur] = m], faults' = faults, Reconnect(Abandoned(Me, n)),
         Owing(m, NewSocket) = 0, InOrder(m, NewSocket), OfServer(m, NewSocket),
         workload' \in Int, all_fin' \in Int, burst' \in Nat
  PROVE  Base'
<1>1. Me \in Counters /\ Accounted(cur, Me)
  BY Current DEF Me
<1>2. /\ Abandoned(Me, n) \in Counters /\ Accounted(cur, Abandoned(Me, n))
      /\ Abandoned(Me, n).sent_req = 0
  BY <1>1, AbandonedType
<1>3. Owing(m, NewSocket) <= Abandoned(Me, n).sent_req
  BY <1>2
<1> QED BY <1>2, <1>3, ReconnectBase

LEMMA DispatchAnsweredInv == ASSUME Base, DispatchAnswered PROVE Base'
<1> DEFINE m == sm[cur]
           s == net[cur]
           m1 == IF ENABLE_PIPE THEN CleanParser ELSE m
<1>1. PICK n \in NumResp :
        LET k == Credited(Me, n)
        IN  /\ Dispatch({"POLL_DATA", "CLOSE"} \cup (IF ENABLE_PIPE THEN {} ELSE {"NOT_SUPPORT"}), n)
            /\ sm' = [sm EXCEPT ![cur] = m1]
            /\ IF MustReplace(k)
                 THEN /\ workload' = U32(workload - n - GivenUp(k))
                      /\ Reconnect([k EXCEPT !.sent_req = 0])
                 ELSE /\ workload' = U32(workload - n)
                      /\ sock' = [sock EXCEPT ![cur] = k]
                      /\ LookAt(revents)
                      /\ UNCHANGED net
  BY Current, CleanFacts DEF DispatchAnswered
<1> DEFINE k == Credited(Me, n)
<1>2. /\ call.rcode \in {"POLL_DATA", "CLOSE", "NOT_SUPPORT"}
      /\ call.rcode = "NOT_SUPPORT" => ~ENABLE_PIPE
      /\ call.rcode # "REDIRECT"
  BY <1>1 DEF Dispatch
<1>3. /\ pc = "dispatch" /\ n = call.fin_resp /\ n \in Nat /\ n <= Me.sent_req
      /\ all_fin' \in Int /\ faults' = faults /\ burst' \in Nat
      /\ Owing(m, s) + n <= Me.sent_req /\ Owing(m, s) \in Nat
      /\ Me \in Counters /\ Accounted(cur, Me) /\ Me.sent_req \in Nat
  BY <1>1, <1>2, DispatchFacts
<1>4. /\ m \in Parser /\ s \in Socket /\ InOrder(m, s) /\ OfServer(m, s)
      /\ revents \in SUBSET Conns /\ workload \in Int
  BY <1>2, Current DEF Stopped, Stops
<1>5. /\ k \in Counters /\ k.sent_req = Me.sent_req - n
      /\ (n = Me.sent_req => Accounted(cur, k))
  BY <1>3, CreditedType
<1>6. m.buf = <<>> \/ m.p_state = "GARB"
  BY <1>2, <1>3 DEF Base, CallState
<1>7. m1 \in Parser
  BY <1>4, CleanFacts
<1>8. workload' \in Int
  <2>1. workload - n - GivenUp(k) \in Int /\ workload - n \in Int
    BY <1>3, <1>4, <1>5 DEF GivenUp, Counters
  <2> HIDE DEF k
  <2>2. U32(workload - n - GivenUp(k)) \in 0..(U32_MOD - 1) /\ U32(workload - n) \in 0..(U32_MOD - 1)
    BY <2>1, U32Type
  <2> QED BY <1>1, <2>2 DEF k
<1>9. CASE MustReplace(k)
  <2>1. Reconnect(Abandoned(Me, n)) /\ sm' = [sm EXCEPT ![cur] = m1]
    BY <1>1, <1>9 DEF Abandoned
  <2>2. Owing(m1, NewSocket) = 0 /\ InOrder(m1, NewSocket) /\ OfServer(m1, NewSocket)
    <3>1. Owing(m, NewSocket) = 0 /\ InOrder(m, NewSocket) /\ OfServer(m, NewSocket)
      BY <1>4, <1>6, ReplacedOwing
    <3> HIDE DEF m
    <3> QED BY <3>1, FreshOwing
  <2> HIDE DEF m1
  <2> QED BY <1>3, <1>7, <1>8, <2>1, <2>2, GiveUpBase
<1>10. CASE ~MustReplace(k)
  <2>1. n = Me.sent_req
    <3>1. CASE k.sent_req = 0
      BY <1>3, <1>5, <3>1
    <3>2. CASE k.sent_req # 0
      <4>1. ENABLE_PIPE /\ ~PeerGone(s)
        BY <1>5, <1>10, <3>2 DEF MustReplace, Counters
      <4>2. call.rcode \in {"POLL_DATA", "CLOSE"}
        BY <1>2, <4>1
      <4> QED BY <1>3, <4>1, <4>2 DEF Base, CallState, Me
    <3> QED BY <3>1, <3>2
  <2>2. Accounted(cur, k) /\ k.sent_req = 0 /\ Owing(m, s) = 0
    BY <1>3, <1>5, <2>1
  <2>3. Owing(m1, s) <= k.sent_req /\ InOrder(m1, s) /\ OfServer(m1, s)
    <3>1. CASE ~ENABLE_PIPE
      BY <1>4, <2>2, <3>1
    <3>2. CASE ENABLE_PIPE
      <4>1. m.buf = <<>>
        BY <1>2, <1>3, <3>2 DEF Base, CallState
      <4>2. Owing(CleanParser, s) = 0 /\ InOrder(CleanParser, s) /\ OfServer(CleanParser, s)
        BY <1>4, <2>2, <4>1, ResetOwing
      <4>3. m1 = CleanParser
        BY <3>2
      <4> QED BY <2>2, <4>2, <4>3
    <3> QED BY <3>1, <3>2
  <2>4. /\ sock' = [sock EXCEPT ![cur] = k] /\ sm' = [sm EXCEPT ![cur] = m1]
        /\ LookAt(revents) /\ net' = [net EXCEPT ![cur] = s]
    BY <1>1, <1>10, Current
  <2> HIDE DEF k, m1, s
  <2>5. Quiet'
    BY <1>3, <1>4, <1>5, <1>7, <1>8, <2>2, <2>3, <2>4, QuietStep
  <2> QED BY <1>4, <2>4, <2>5, LookAtBase
<1> QED BY <1>9, <1>10

LEMMA DispatchAbandonInv == ASSUME Base, DispatchAbandon PROVE Base'
<1>1. PICK n \in NumResp :
        /\ Dispatch({"CLIENT_ERR", "ERROR"}, n)
        /\ workload' = U32(workload - n)
        /\ sm' = [sm EXCEPT ![cur] = CleanParser]
        /\ Reconnect(Abandoned(Me, n))
  BY CleanFacts DEF DispatchAbandon, Abandoned
<1>2. call.rcode # "REDIRECT"
  BY <1>1 DEF Dispatch
<1>3. /\ n \in Nat /\ n <= Me.sent_req /\ all_fin' \in Int /\ faults' = faults /\ burst' \in Nat
  BY <1>1, <1>2, DispatchFacts
<1>4. workload' \in Int
  <2>1. workload - n \in Int
    BY <1>3, Current
  <2> QED BY <1>1, <2>1, U32Type
<1> QED BY <1>1, <1>3, <1>4, CleanFacts, FreshOwing, GiveUpBase

\* An answer that is not supported: the parser has put it back, and its request
\* and those behind it count as unanswered and as unsent.
LEMMA DispatchIgnoredInv == ASSUME Base, ~Orderly, DispatchIgnored PROVE Base'
<1> DEFINE m == sm[cur]
           s == net[cur]
<1>1. ENABLE_PIPE /\ Narrow
  BY Current DEF Accounted, Narrow
<1>2. PICK n \in NumResp :
        /\ Dispatch({"NOT_SUPPORT"}, n) /\ workload' = U32(workload - n)
        /\ sock' = [sock EXCEPT ![cur] = Credited(Me, n)]
        /\ LookAt(revents) /\ UNCHANGED <<sm, net>>
  BY <1>1 DEF DispatchIgnored, Me
<1> DEFINE k == Credited(Me, n)
<1>3. call.rcode = "NOT_SUPPORT" /\ call.rcode # "REDIRECT"
  BY <1>2 DEF Dispatch
<1>4. /\ pc = "dispatch" /\ n \in Nat /\ n <= Me.sent_req
      /\ all_fin' \in Int /\ faults' = faults /\ burst' \in Nat
      /\ Owing(m, s) + n <= Me.sent_req /\ Owing(m, s) \in Nat
      /\ Me \in Counters /\ Accounted(cur, Me) /\ Me.sent_req \in Nat
  BY <1>2, <1>3, DispatchFacts
<1>5. /\ m \in Parser /\ s \in Socket /\ InOrder(m, s) /\ OfServer(m, s)
      /\ revents \in SUBSET Conns /\ workload \in Int
      /\ sm' = [sm EXCEPT ![cur] = m] /\ net' = [net EXCEPT ![cur] = s]
  BY <1>2, <1>3, Current DEF Stopped
<1>6. k \in Counters /\ k.sent_req = Me.sent_req - n /\ Accounted(cur, k)
  BY <1>4, CreditedType
<1>7. workload' \in Int
  <2>1. workload - n \in Int
    BY <1>4, <1>5
  <2> QED BY <1>2, <2>1, U32Type
<1>8. sock' = [sock EXCEPT ![cur] = k] /\ Owing(m, s) <= k.sent_req
  BY <1>2, <1>4, <1>6
<1> HIDE DEF k, m, s
<1>9. Quiet'
  BY <1>4, <1>5, <1>6, <1>7, <1>8, QuietStep
<1> QED BY <1>2, <1>5, <1>9, LookAtBase

\* An orderly server gives no answer the switch would ignore.
LEMMA NothingIgnored == ASSUME Base, Orderly PROVE ~DispatchIgnored
<1> SUFFICES ASSUME DispatchIgnored PROVE FALSE
  OBVIOUS
<1>1. pc = "dispatch" /\ call.rcode = IF ENABLE_PIPE THEN "NOT_SUPPORT" ELSE "REDIRECT"
  BY DEF DispatchIgnored, Dispatch
<1> QED BY <1>1 DEF Base, CallState, Orderly

-----------------------------------------------------------------------------
(* The world, and the whole. *)

LEMMA PeerMoves ==
  ASSUME Base, Peer
  PROVE  /\ pc \notin {"end", "exit"} /\ UNCHANGED progVars /\ PeerTypeOK'
         /\ \E c \in Conns : \E t \in Socket :
              net' = [net EXCEPT ![c] = t] /\ SocketMoves(net[c], t)
<1>1. PICK c \in Conns : NetworkStep(c)
  BY DEF Peer, FromPeer
<1>2. \/ Establish(c) \/ Refuse(c) \/ ServerRead(c) \/ Fin(c) \/ Rst(c)
      \/ \E k \in Kinds : Answer(c, k)
  BY <1>1 DEF NetworkStep
<1>3. PeerTypeOK
  BY DEF Base, Shape
<1>4. PeerTypeOK'
  BY <1>2, <1>3, PeerStepType DEF PeerStep
<1> QED BY <1>2, <1>3, <1>4, StepMovesSocket DEF Peer, FromPeer, Over

LEMMA PeerInv == ASSUME Base, Peer PROVE Base'
<1>1. /\ UNCHANGED <<pc, cur, revents, workload, all_fin, sock, sm, call, burst>> /\ PeerTypeOK'
  BY PeerMoves DEF progVars
<1>2. PICK d \in Conns, t \in Socket :
        net' = [net EXCEPT ![d] = t] /\ SocketMoves(net[d], t)
  BY PeerMoves
<1>3. net \in [Conns -> Socket] /\ sm \in [Conns -> Parser]
  BY DEF Base, Shape, PeerTypeOK
<1>4. Shape'
  BY <1>1 DEF Base, Shape
<1>5. AllAccounted' /\ BurstFits'
  BY <1>1 DEF Base, AllAccounted, BurstFits
<1>6. ASSUME NEW c \in Conns
      PROVE  /\ Owing(sm[c], net[c])' <= Pending(c)'
             /\ ~Stopped(c)' => InOrder(sm[c], net[c])'
             /\ OfServer(sm[c], net[c])'
             /\ PeerGone(net[c]) => PeerGone(net[c])'
  <2>1. Pending(c)' = Pending(c) /\ Stopped(c)' = Stopped(c) /\ sm'[c] = sm[c]
    BY <1>1 DEF Pending, Stopped, Parsed
  <2>2. /\ Owing(sm[c], net[c]) <= Pending(c) /\ (~Stopped(c) => InOrder(sm[c], net[c]))
        /\ OfServer(sm[c], net[c])
    BY DEF Base, OwedIsPending, Framing, FromServer
  <2>3. CASE c # d
    <3>1. net'[c] = net[c]
      BY <1>2, <1>3, <2>3
    <3> QED BY <2>1, <2>2, <3>1
  <2>4. CASE c = d
    <3>1. net'[c] = t /\ SocketMoves(net[c], t)
      BY <1>2, <1>3, <2>4
    <3>2. /\ Owing(sm[c], t) <= Owing(sm[c], net[c])
          /\ InOrder(sm[c], net[c]) => InOrder(sm[c], t)
          /\ OfServer(sm[c], net[c]) => OfServer(sm[c], t)
      BY <1>3, <3>1, MovedOwing
    <3>3. Owing(sm[c], t) \in Nat /\ Owing(sm[c], net[c]) \in Nat /\ Pending(c) \in Int
      <4>1. call.fin_resp \in Nat /\ sock[c].sent_req \in Nat
        BY InCall DEF Base, Shape, Counters
      <4> QED BY <1>3, <4>1, OwingType DEF Pending
    <3>4. Owing(sm[c], t) <= Pending(c)
      BY <2>2, <3>2, <3>3
    <3>5. PeerGone(net[c]) => PeerGone(t)
      BY <3>1 DEF SocketMoves
    <3> QED BY <2>1, <2>2, <3>1, <3>2, <3>4, <3>5
  <2> QED BY <2>3, <2>4
<1>7. OwedIsPending' /\ Framing' /\ FromServer'
  BY <1>6 DEF FromServer, OwedIsPending, Framing
<1>8. CallState'
  <2>1. cur \in Conns /\ CallState /\ (PeerGone(net[cur]) => PeerGone(net'[cur]))
    BY <1>6, Current DEF Base
  <2> QED BY <1>1, <2>1 DEF CallState
<1> QED BY <1>4, <1>5, <1>7, <1>8 DEF Base

LEMMA InitInv == ASSUME Bounded, Init PROVE Base
<1>1. Connected \in Socket
  BY EmptySocket
<1>2. PeerTypeOK
  BY <1>1, PeerAssumption DEF Init, PeerTypeOK
<1>3. ASSUME NEW c \in Conns
      PROVE  /\ sock[c] \in Counters /\ Accounted(c, sock[c]) /\ sock[c].sent_req = 0
             /\ sm[c] = CleanParser /\ net[c] = Connected
  BY ShareType, BlockingAssumption DEF Init, Counters, Accounted, Bounded
<1>4. sock \in [Conns -> Counters] /\ sm \in [Conns -> Parser]
  BY <1>3, CleanFacts DEF Init
<1>5. Shape
  <2>1. pc = "send" /\ cur = 0 /\ revents = {} /\ all_fin = 0 /\ workload = 0 /\ call = NoCall /\ burst = 0
    BY DEF Init
  <2>2. cur \in Conns
    BY <2>1, PeerAssumption DEF Conns
  <2> QED BY <1>2, <1>4, <2>1, <2>2, NoCallType DEF Shape
<1>6. ASSUME NEW c \in Conns
      PROVE  /\ Owing(sm[c], net[c]) <= Pending(c)
             /\ InOrder(sm[c], net[c]) /\ OfServer(sm[c], net[c])
  <2>1. Pending(c) = 0
    BY <1>3 DEF Init, Pending, Parsed
  <2> QED BY <1>3, <2>1, FreshOwing
<1>7. OwedIsPending /\ Framing /\ FromServer /\ AllAccounted
  BY <1>3, <1>6 DEF OwedIsPending, Framing, FromServer, AllAccounted
<1>8. CallState /\ BurstFits
  BY DEF Init, CallState, BurstFits
<1> QED BY <1>5, <1>7, <1>8 DEF Base

LEMMA NoStepAfterEnd == pc \in {"end", "exit"} => ~Program
BY DEF Program, Sending, SendSkip, SendOne, StartBurst, SendBurst, SendFast,
   Waiting, RoundOver, Poll, PollTimeout, CheckTimeout, ConnectReturns,
   Receiving, ParseToken, ParseFinish, NothingExpected, Recv, RecvEof, RecvError, Parsing,
   Answering, DispatchAnswered, DispatchAbandon, DispatchIgnored, DispatchExit, Dispatch

LEMMA NextInv == ASSUME IInv, [Next]_vars PROVE IInv'
<1>1. CASE UNCHANGED vars
  BY <1>1 DEF vars, progVars, IInv, Base, Shape, PeerTypeOK, AllAccounted, OwedIsPending, Framing,
     FromServer, CallState, BurstFits, Pending, Parsed, Stopped
<1>2. CASE pc # "exit" /\ Program
  <2> SUFFICES ASSUME pc' # "exit" PROVE Base'
    BY DEF IInv
  <2>1. Base
    BY <1>2 DEF IInv
  <2>2. CASE Sending
    BY <2>1, <2>2, SendSkipInv, SendOneInv, StartBurstInv, SendBurstInv, SendFastInv DEF Sending
  <2>3. CASE Waiting
    BY <2>1, <2>3, RoundOverInv, PollInv, PollTimeoutInv, CheckTimeoutInv, ConnectReturnsInv
       DEF Waiting
  <2>4. CASE Receiving
    BY <2>1, <2>4, ParseTokenInv, ParseFinishInv, NothingExpectedInv, RecvInv, RecvEofInv,
       RecvErrorInv DEF Receiving
  <2>5. CASE Answering
    <3>1. ~DispatchExit
      BY DEF DispatchExit
    <3>2. CASE DispatchIgnored
      BY <2>1, <3>2, DispatchIgnoredInv, NothingIgnored
    <3> QED BY <2>1, <2>5, <3>1, <3>2, DispatchAnsweredInv, DispatchAbandonInv DEF Answering
  <2> QED BY <1>2, <2>2, <2>3, <2>4, <2>5 DEF Program
<1>3. CASE Peer
  BY <1>3, PeerInv DEF IInv, Peer, FromPeer, Over
<1>4. pc \in {"end", "exit"} => ~Program
  BY NoStepAfterEnd
<1> QED BY <1>1, <1>2, <1>3, <1>4 DEF Next, Finished

LEMMA Invariant == ASSUME Bounded PROVE Spec => []IInv
<1>1. Init => IInv
  BY InitInv DEF IInv
<1>2. IInv /\ [Next]_vars => IInv'
  BY NextInv
<1> QED BY <1>1, <1>2, PTL DEF Spec

-----------------------------------------------------------------------------
(* Answers begun.  As heads go, too, no more answers are to come than      *)
(* requests are unanswered; so a parser that stops at a head has one       *)
(* unanswered request at least.                                            *)

\* The answers parser m is in the middle of, or will begin.
Started(m, s) == Occurrences(m.buf, HeadKinds) + (IF m.p_state = "BODY" THEN 1 ELSE 0)
                 + ToCome(s, HeadKinds)

\* Between two responses nothing is left of the last one.
Tidy(m) == m.p_state = "VER" => m.is_close = FALSE /\ m.status = "none"

LEMMA StartedType ==
  ASSUME NEW m \in Parser, NEW s \in Socket
  PROVE  /\ Started(m, s) \in Nat /\ ToCome(s, HeadKinds) \in Nat
         /\ Occurrences(m.buf, HeadKinds) \in Nat
         /\ ToCome(s, HeadKinds) <= Started(m, s)
<1>1. Occurrences(m.buf, HeadKinds) \in Nat /\ ToCome(s, HeadKinds) \in Nat
  BY ParserFacts, OccType, ToComeType
<1> QED BY <1>1 DEF Started

LEMMA CleanStarted ==
  ASSUME NEW s \in Socket
  PROVE  Started(CleanParser, s) = ToCome(s, HeadKinds) /\ Tidy(CleanParser)
<1>1. Occurrences(CleanParser.buf, HeadKinds) = 0 /\ ToCome(s, HeadKinds) \in Nat
  BY CleanFacts, OccEmpty, ToComeType
<1> QED BY <1>1 DEF Started, CleanParser, Tidy

\* A parser that has begun no answer, and is between two, is clean.
LEMMA NothingStarted ==
  ASSUME NEW m \in Parser, NEW s \in Socket, Started(m, s) = 0, m.buf = <<>>,
         InOrder(m, s), Tidy(m)
  PROVE  m = CleanParser
<1>1. m.p_state # "BODY"
  BY StartedType DEF Started
<1>2. m.p_state = "VER"
  BY <1>1, ParserFacts DEF InOrder, ParserStates
<1> QED BY <1>2 DEF Tidy, CleanParser, Parser

LEMMA TakenStarted ==
  ASSUME NEW m \in Parser, NEW s \in Socket, m.buf # <<>>, InOrder(m, s),
         NEW o \in Parse(m, Head(m.buf)), o.res # "FINISH"
  PROVE  /\ Started(Taken(m, o), s) <= Started(m, s) /\ Tidy(Taken(m, o))
         /\ o.res # "MORE" => Started(m, s) >= 1
<1> DEFINE b == m.buf
           t == Head(b)
           n == Taken(m, o)
<1>1. b \in Seq(Tokens) /\ s.rx \in Seq(Tokens) /\ t \in Tokens /\ Tail(b) \in Seq(Tokens)
  BY ParserFacts, ToComeType, HeadTail
<1>2. n.p_state = o.p_state /\ n.buf = IF o.res = "NOT_SUPPORT" THEN b ELSE Tail(b)
  BY DEF Taken
<1>3. Head(b \o s.rx) = t /\ b \o s.rx \in Seq(Tokens) /\ b \o s.rx # <<>>
  BY <1>1, StreamFacts
<1>4. m.p_state \in {"VER", "BODY", "GARB"} /\ Framed(m.p_state, b \o s.rx)
  BY ParserFacts DEF InOrder, ParserStates
<1>5. t = "body" => m.p_state = "BODY"
  BY <1>3, <1>4, FramedHead
<1>6. /\ Occurrences(b, HeadKinds) = Occurrences(Tail(b), HeadKinds)
                                     + (IF t \in HeadKinds THEN 1 ELSE 0)
      /\ Occurrences(Tail(b), HeadKinds) \in Nat /\ Occurrences(b, HeadKinds) \in Nat
      /\ ToCome(s, HeadKinds) \in Nat
  <2>1. Occurrences(b, HeadKinds) = Occurrences(Tail(b), HeadKinds)
                                    + (IF t \in HeadKinds THEN 1 ELSE 0)
    BY <1>1, OccTail
  <2> QED BY <1>1, <2>1, OccType, ToComeType
<1> HIDE DEF t, n
<1>7. o \in Parse(m, t) /\ (t # "body" => t \in HeadKinds)
  BY <1>1 DEF t, Tokens
<1>8. \/ /\ o.res = "MORE" /\ o.p_state = "BODY"
         /\ (m.p_state = "VER" /\ t \in {"ok", "close"}) \/ (m.p_state = "BODY" /\ t # "body")
      \/ o.p_state = "DONE" /\ m.p_state = "VER" /\ t # "body" /\ o.res \in Stops \ {"NOT_SUPPORT"}
      \/ o.res = "NOT_SUPPORT" /\ o.p_state = "GARB" /\ m.p_state = "VER" /\ t # "body"
      \/ o.res = "ERROR" /\ o.p_state = "GARB" /\ m.p_state = "GARB" /\ t # "body"
  BY <1>1, <1>4, <1>5, <1>7, ParseFramed DEF Stops
<1>9. CASE o.res = "MORE"
  <2>1. /\ n.p_state = "BODY" /\ n.buf = Tail(b) /\ t \in HeadKinds /\ o.p_state = "BODY"
    BY <1>2, <1>7, <1>8, <1>9 DEF HeadKinds, Stops
  <2> QED BY <1>6, <1>9, <2>1 DEF Started, Tidy, n
<1>10. CASE o.res # "MORE"
  <2>1. /\ n.p_state \in {"DONE", "GARB"} /\ n.buf \in {b, Tail(b)} /\ t \in HeadKinds
        /\ m.p_state # "BODY"
    BY <1>2, <1>7, <1>8, <1>10
  <2>2. Started(m, s) = Occurrences(b, HeadKinds) + ToCome(s, HeadKinds)
    BY <1>6, <2>1 DEF Started
  <2>3. Started(n, s) = Occurrences(n.buf, HeadKinds) + ToCome(s, HeadKinds)
    <3>1. Occurrences(n.buf, HeadKinds) \in Nat
      BY <1>6, <2>1
    <3> QED BY <1>6, <2>1, <3>1 DEF Started
  <2>4. Occurrences(n.buf, HeadKinds) <= Occurrences(b, HeadKinds) /\ Occurrences(b, HeadKinds) >= 1
        /\ Occurrences(n.buf, HeadKinds) \in Nat
    <3>1. CASE n.buf = b
      BY <1>6, <2>1, <3>1
    <3>2. CASE n.buf = Tail(b)
      BY <1>6, <2>1, <3>2
    <3> QED BY <2>1, <3>1, <3>2
  <2>5. Started(n, s) <= Started(m, s) /\ Started(m, s) >= 1
    BY <1>6, <2>2, <2>3, <2>4
  <2> QED BY <2>1, <2>5 DEF Tidy, n
<1> QED BY <1>9, <1>10

LEMMA FinishStarted ==
  ASSUME NEW m \in Parser, NEW s \in Socket, m.buf # <<>>, InOrder(m, s),
         NEW o \in Parse(m, Head(m.buf)), o.res = "FINISH"
  PROVE  Started(Finish(m), s) + 1 <= Started(m, s) /\ Tidy(Finish(m))
<1> DEFINE b == m.buf
           t == Head(b)
           n == Finish(m)
<1>1. b \in Seq(Tokens) /\ s.rx \in Seq(Tokens) /\ t \in Tokens /\ Tail(b) \in Seq(Tokens)
  BY ParserFacts, ToComeType, HeadTail
<1>2. n.p_state = "VER" /\ n.buf = Tail(b) /\ Tidy(n)
  BY DEF Finish, CleanParser, Tidy
<1>3. Head(b \o s.rx) = t /\ b \o s.rx \in Seq(Tokens) /\ b \o s.rx # <<>>
  BY <1>1, StreamFacts
<1>4. m.p_state \in {"VER", "BODY", "GARB"} /\ Framed(m.p_state, b \o s.rx)
  BY ParserFacts DEF InOrder, ParserStates
<1>5. t = "body" => m.p_state = "BODY"
  BY <1>3, <1>4, FramedHead
<1>6. /\ Occurrences(b, HeadKinds) = Occurrences(Tail(b), HeadKinds)
                                     + (IF t \in HeadKinds THEN 1 ELSE 0)
      /\ Occurrences(Tail(b), HeadKinds) \in Nat /\ Occurrences(b, HeadKinds) \in Nat
      /\ ToCome(s, HeadKinds) \in Nat
  <2>1. Occurrences(b, HeadKinds) = Occurrences(Tail(b), HeadKinds)
                                    + (IF t \in HeadKinds THEN 1 ELSE 0)
    BY <1>1, OccTail
  <2> QED BY <1>1, <2>1, OccType, ToComeType
<1> HIDE DEF t, n
<1>7. o \in Parse(m, t)
  BY DEF t
<1>8. (m.p_state = "VER" /\ t = "empty") \/ (m.p_state = "BODY" /\ t = "body")
  BY <1>1, <1>4, <1>5, <1>7, ParseFramed
<1>9. Started(n, s) = Occurrences(Tail(b), HeadKinds) + ToCome(s, HeadKinds)
  BY <1>2, <1>6 DEF Started
<1>10. Started(m, s) >= Occurrences(Tail(b), HeadKinds) + 1 + ToCome(s, HeadKinds)
  <2>1. CASE m.p_state = "VER" /\ t = "empty"
    <3>1. t \in HeadKinds
      BY <2>1 DEF HeadKinds
    <3> QED BY <1>6, <2>1, <3>1 DEF Started
  <2>2. CASE m.p_state = "BODY"
    BY <1>6, <2>2 DEF Started
  <2> QED BY <1>8, <2>1, <2>2
<1> QED BY <1>2, <1>6, <1>9, <1>10 DEF n

LEMMA ReceivedStarted ==
  ASSUME NEW m \in Parser, NEW s \in Socket, m.buf = <<>>, NEW n \in 1..Len(s.rx),
         Filled(m, s, n) \in Parser, Drained(s, n) \in Socket
  PROVE  /\ Started(Filled(m, s, n), Drained(s, n)) = Started(m, s)
         /\ Tidy(m) => Tidy(Filled(m, s, n))
<1> DEFINE a == SubSeq(s.rx, 1, n)
           b == SubSeq(s.rx, n + 1, Len(s.rx))
           m1 == Filled(m, s, n)
           s1 == Drained(s, n)
<1>1. s.rx \in Seq(Tokens) /\ s.srv \in Nat /\ Occurrences(s.wire, {ReqSize}) \in Nat
  BY ToComeType
<1>2. a \in Seq(Tokens) /\ b \in Seq(Tokens) /\ a \o b = s.rx
  BY <1>1, SubSeqType, ReceivedStream
<1>3. m1 = [m EXCEPT !.buf = a] /\ s1 = [s EXCEPT !.rx = b]
  BY DEF Filled, Drained
<1> HIDE DEF a, b, m1, s1
<1>4. Occurrences(s.rx, HeadKinds) = Occurrences(a, HeadKinds) + Occurrences(b, HeadKinds)
  <2>1. a \in Seq(Tokens) /\ b \in Seq(Tokens)
    BY <1>2
  <2>2. Occurrences(a \o b, HeadKinds) = Occurrences(a, HeadKinds) + Occurrences(b, HeadKinds)
    BY <2>1, OccConcat
  <2> QED BY <1>2, <2>2
<1>5. Occurrences(a, HeadKinds) \in Nat /\ Occurrences(b, HeadKinds) \in Nat
  BY <1>2, OccType
<1>6. /\ m1.buf = a /\ m1.p_state = m.p_state /\ m1.is_close = m.is_close
      /\ m1.status = m.status
  BY <1>3 DEF Parser
<1>7. s1.rx = b /\ s1.srv = s.srv /\ s1.wire = s.wire
  BY <1>3 DEF Socket
<1>8. Started(m1, s1) = Started(m, s)
  <2>1. Occurrences(m.buf, HeadKinds) = 0
    BY OccEmpty
  <2>2. ToCome(s1, HeadKinds) = Occurrences(b, HeadKinds) + s.srv + Occurrences(s.wire, {ReqSize})
    BY <1>7 DEF ToCome
  <2>3. ToCome(s, HeadKinds) = Occurrences(s.rx, HeadKinds) + s.srv
                               + Occurrences(s.wire, {ReqSize})
    BY DEF ToCome
  <2>4. ToCome(s, HeadKinds) = Occurrences(a, HeadKinds) + ToCome(s1, HeadKinds)
        /\ ToCome(s1, HeadKinds) \in Nat
    BY <1>1, <1>4, <1>5, <2>2, <2>3
  <2> QED BY <1>5, <1>6, <2>1, <2>4 DEF Started
<1>9. Tidy(m) => Tidy(m1)
  BY <1>6 DEF Tidy
<1> QED BY <1>8, <1>9 DEF m1, s1

LEMMA MovedStarted ==
  ASSUME NEW m \in Parser, NEW s \in Socket, NEW t, SocketMoves(s, t)
  PROVE  Started(m, t) <= Started(m, s)
<1>1. t \in Socket /\ ToCome(t, HeadKinds) <= ToCome(s, HeadKinds)
  BY DEF SocketMoves, OneEach
<1> QED BY <1>1, StartedType DEF Started

-----------------------------------------------------------------------------
(* The second layer of the invariant: clean parsers.                       *)

\* Where parsers stay clean between calls: without pipelining, where nothing
\* but the end of the stream can cut an answer short.
Fresh == ENABLE_PIPE \/ ("odd" \notin Kinds /\ "RST" \notin Losses)

\* A connection whose connect() has returned.
Open(c) == net[c].tcp # "SYN_SENT" /\ (sock[c].up => net[c].err # "REFUSED")

\* A parser between two calls: clean, or, after an ignored answer, at that
\* answer.
Rests(m) == m = CleanParser \/ (ENABLE_PIPE /\ ~Orderly /\ m.p_state = "GARB")

ParsersClean == \A c \in Conns : IF Parsed /\ c = cur THEN Tidy(sm[c]) ELSE Rests(sm[c])

StartedIsPending == \A c \in Conns : Started(sm[c], net[c]) <= Pending(c)

\* A call that stops in an answer leaves it unfinished; one that ends between
\* answers leaves the parser clean.
StopState ==
  pc = "dispatch" =>
    /\ call.rcode \in Stops => call.fin_resp < sock[cur].sent_req
    /\ ~ENABLE_PIPE /\ call.rcode \in {"POLL_DATA", "CLOSE"} => sm[cur] = CleanParser

\* The round over the connections poll() has reported.
RoundState ==
  /\ cur \notin revents /\ \A c \in revents : sock[c].up
  /\ Parsed => sock[cur].up
  /\ pc \in {"send", "burst", "inner", "timeout", "end"} => revents = {} /\ call = NoCall
  /\ pc = "connect" /\ call = NoCall => revents = {}

Opened == \A c \in Conns : ~(pc = "connect" /\ c = cur) => Open(c)

NeverReset == "RST" \notin Losses => \A c \in Conns : net[c].err # "RESET"

Clean == /\ ParsersClean /\ StartedIsPending /\ StopState /\ RoundState
         /\ Opened /\ NeverReset

CInv == IF pc = "exit" THEN \A c \in Conns : net[c].tcp # "SYN_SENT" ELSE Clean

\* What holds of it while no parser runs.
Hushed == /\ \A c \in Conns : Rests(sm[c]) /\ Started(sm[c], net[c]) <= sock[c].sent_req
          /\ NeverReset

LEMMA CleanTypes ==
  ASSUME Base
  PROVE  /\ sock \in [Conns -> Counters] /\ sm \in [Conns -> Parser] /\ net \in [Conns -> Socket]
         /\ \A c \in Conns : sock[c].sent_req \in Nat /\ net[c] \in Socket /\ sm[c] \in Parser
BY DEF Base, Shape, PeerTypeOK, Counters

LEMMA RestsTidy == ASSUME NEW m, Rests(m) PROVE Tidy(m)
BY DEF Rests, Tidy, CleanParser

LEMMA HushedStep ==
  ASSUME Base, Clean, NEW k \in Counters, NEW s \in Socket, NEW m, Rests(m),
         sock' = [sock EXCEPT ![cur] = k], sm' = [sm EXCEPT ![cur] = m],
         net' = [net EXCEPT ![cur] = s],
         Started(m, s) <= k.sent_req, "RST" \notin Losses => s.err # "RESET"
  PROVE  /\ Hushed' /\ \A c \in Conns \ {cur} : Open(c)'
         /\ \A c \in Conns \ {cur} : sock'[c] = sock[c]
         /\ sock'[cur] = k /\ net'[cur] = s
<1>1. ASSUME NEW c \in Conns
      PROVE  Rests(sm'[c]) /\ Started(sm'[c], net'[c]) <= sock'[c].sent_req
  <2>1. CASE c = cur
    BY <2>1, CleanTypes
  <2>2. CASE c # cur
    <3>1. /\ sm'[c] = sm[c] /\ net'[c] = net[c] /\ sock'[c] = sock[c]
          /\ Rests(sm[c]) /\ Started(sm[c], net[c]) <= Pending(c)
      BY <2>2, CleanTypes DEF Clean, ParsersClean, StartedIsPending
    <3>2. Pending(c) = sock[c].sent_req
      BY <2>2, CleanTypes DEF Pending
    <3> QED BY <3>1, <3>2
  <2> QED BY <2>1, <2>2
<1>2. cur \in Conns /\ sock'[cur] = k /\ net'[cur] = s
  BY Current, CleanTypes
<1>3. \A c \in Conns \ {cur} : sock'[c] = sock[c] /\ net'[c] = net[c]
  BY CleanTypes
<1>4. NeverReset'
  BY <1>2, <1>3 DEF Clean, NeverReset
<1>5. \A c \in Conns \ {cur} : Open(c)'
  BY <1>3 DEF Clean, Opened, Open
<1> QED BY <1>1, <1>2, <1>3, <1>4, <1>5 DEF Hushed

LEMMA HushedStarted ==
  ASSUME Hushed', Base', NEW c \in Conns
  PROVE  Started(sm'[c], net'[c]) <= sock'[c].sent_req /\ Rests(sm'[c])
         /\ Tidy(sm'[c]) /\ sock'[c].sent_req \in Nat
<1>1. sock'[c].sent_req \in Nat
  BY DEF Base, Shape, PeerTypeOK, Counters
<1>2. Rests(sm'[c]) /\ Started(sm'[c], net'[c]) <= sock'[c].sent_req
  BY DEF Hushed
<1> QED BY <1>1, <1>2, RestsTidy

\* Between two connections of a loop; while connect() runs; on to the next
\* connection to parse.
LEMMA HushedClean ==
  ASSUME Hushed', Base', pc' \in {"send", "burst", "inner", "timeout", "connect", "end"},
         \A c \in Conns : ~(pc' = "connect" /\ c = cur') => Open(c)', RoundState'
  PROVE  Clean'
<1>1. ~Parsed'
  BY DEF Parsed
<1>2. ParsersClean' /\ StopState'
  BY <1>1, HushedStarted DEF ParsersClean, StopState
<1>3. StartedIsPending'
  <2> SUFFICES ASSUME NEW c \in Conns PROVE Started(sm'[c], net'[c]) <= Pending(c)'
    BY DEF StartedIsPending
  <2>1. Pending(c)' = sock'[c].sent_req
    BY <1>1, HushedStarted DEF Pending
  <2> QED BY <2>1, HushedStarted
<1> QED BY <1>2, <1>3 DEF Clean, Opened, Hushed

LEMMA HushedLook ==
  ASSUME Hushed', Base', \A c \in Conns : Open(c)',
         NEW ready \in SUBSET Conns, \A c \in ready : sock'[c].up, LookAt(ready)
  PROVE  Clean'
<1>1. CASE ready = {}
  <2>1. pc' = "inner" /\ revents' = {} /\ call' = NoCall
    BY <1>1 DEF LookAt
  <2>2. RoundState'
    BY <2>1 DEF RoundState, Parsed
  <2> QED BY <2>1, <2>2, HushedClean
<1>2. CASE ready # {}
  <2> DEFINE c == Min(ready)
  <2>1. c \in ready
    BY <1>2, MinOf
  <2>2. /\ pc' = "parse" /\ cur' = c /\ revents' = ready \ {c}
        /\ call'.fin_resp = 0
    BY <1>2 DEF LookAt, NoCall
  <2> HIDE DEF c
  <2>3. RoundState'
    BY <2>1, <2>2 DEF RoundState
  <2>4. ParsersClean' /\ StopState' /\ Opened'
    BY <2>2, HushedStarted DEF ParsersClean, StopState, Opened
  <2>5. StartedIsPending'
    <3> SUFFICES ASSUME NEW d \in Conns PROVE Started(sm'[d], net'[d]) <= Pending(d)'
      BY DEF StartedIsPending
    <3>1. Pending(d)' = sock'[d].sent_req
      BY <2>2, HushedStarted DEF Pending
    <3> QED BY <3>1, HushedStarted
  <2> QED BY <2>3, <2>4, <2>5 DEF Clean, Hushed
<1> QED BY <1>1, <1>2

\* What the layer says of the current connection outside of the parser.
LEMMA CleanNow ==
  ASSUME Base, Clean, ~Parsed
  PROVE  /\ Rests(sm[cur]) /\ Started(sm[cur], net[cur]) <= sock[cur].sent_req
         /\ sm' = sm => sm' = [sm EXCEPT ![cur] = sm[cur]]
         /\ "RST" \notin Losses => net[cur].err # "RESET"
<1>1. cur \in Conns /\ Rests(sm[cur]) /\ Started(sm[cur], net[cur]) <= Pending(cur)
      /\ sm = [sm EXCEPT ![cur] = sm[cur]] /\ net[cur] \in Socket
  BY Current DEF Clean, ParsersClean, StartedIsPending
<1>2. Pending(cur) = sock[cur].sent_req
  BY <1>1, CleanTypes DEF Pending
<1>3. "RST" \notin Losses => net[cur].err # "RESET"
  BY <1>1 DEF Clean, NeverReset
<1> QED BY <1>1, <1>2, <1>3

\* A step outside of the parser that leaves the current connection as it is.
LEMMA HushedStill ==
  ASSUME Base, Clean, ~Parsed, UNCHANGED <<sock, sm, net>>
  PROVE  Hushed' /\ \A c \in Conns : ~(pc = "connect" /\ c = cur) => Open(c)'
<1>1. Hushed'
  BY CleanNow, Current, HushedStep
<1> QED BY <1>1 DEF Clean, Opened, Open

LEMMA SendClean ==
  ASSUME Base, Clean, pc \in {"send", "burst"}, NEW n \in Nat, Takes(n), n <= Me.unsent_req,
         Me.sent_req + n <= NUM_GAP, sm' = sm
  PROVE  Hushed' /\ \A c \in Conns : Open(c)'
<1> DEFINE s == net[cur]
           m == sm[cur]
           t == Sent(s, 0, n * ReqSize).peer
           k == Issued(Me, n)
<1>1. /\ sock' = [sock EXCEPT ![cur] = k] /\ net' = [net EXCEPT ![cur] = t]
      /\ Sent(s, 0, n * ReqSize).ret = "OK" /\ s \in Socket /\ m \in Parser
      /\ Me \in Counters /\ Accounted(cur, Me) /\ cur \in Conns
  BY Current DEF Takes, Me
<1>2. /\ t \in Socket /\ t.tcp = s.tcp /\ t.err = s.err
      /\ ToCome(t, HeadKinds) <= ToCome(s, HeadKinds) + n
  BY <1>1, SentToCome
<1>3. k \in Counters /\ k.sent_req = Me.sent_req + n /\ k.up = Me.up
  BY <1>1, IssuedType
<1>4. /\ Started(m, s) <= Me.sent_req /\ sm' = [sm EXCEPT ![cur] = m] /\ Rests(m)
      /\ ("RST" \notin Losses => s.err # "RESET")
  BY CleanNow DEF Parsed, Me
<1>5. Me.sent_req \in Nat
  BY <1>1 DEF Counters
<1>7. Open(cur)
  BY <1>1 DEF Clean, Opened
<1> HIDE DEF s, t, k, m
<1>6. Started(m, t) <= k.sent_req
  <2>1. /\ ToCome(t, HeadKinds) \in Nat /\ ToCome(s, HeadKinds) \in Nat
        /\ Started(m, s) \in Nat /\ Started(m, t) \in Nat
    BY <1>1, <1>2, StartedType
  <2>2. Started(m, t) <= Started(m, s) + n
    <3>1. Occurrences(m.buf, HeadKinds) \in Nat
      BY <1>1, <1>2, StartedType
    <3> QED BY <1>2, <2>1, <3>1 DEF Started
  <2> QED BY <1>3, <1>4, <1>5, <2>1, <2>2
<1>8. /\ Hushed' /\ \A c \in Conns \ {cur} : Open(c)'
      /\ sock'[cur] = k /\ net'[cur] = t
  BY <1>1, <1>2, <1>3, <1>4, <1>6, HushedStep
<1>9. ASSUME NEW c \in Conns, c = cur PROVE Open(c)'
  <2>1. s = net[cur] /\ Me = sock[cur]
    BY DEF s, Me
  <2>2. sock'[c] = k /\ net'[c] = t /\ net[c] = s /\ sock[c] = Me
    BY <1>8, <1>9, <2>1
  <2> QED BY <1>2, <1>3, <1>7, <1>9, <2>2 DEF Open
<1> QED BY <1>8, <1>9

\* Of what a parser is to see, a new socket brings nothing.
LEMMA StartedAnew ==
  ASSUME NEW m \in Parser, NEW s \in Socket
  PROVE  /\ Started(m, NewSocket) \in Nat /\ Started(m, NewSocket) <= Started(m, s)
         /\ Started(CleanParser, NewSocket) = 0
<1>1. NewSocket \in Socket /\ ToCome(NewSocket, HeadKinds) = 0
  BY EmptySocket
<1>2. Started(CleanParser, NewSocket) = 0
  BY <1>1, CleanStarted
<1>3. /\ Started(m, s) \in Nat /\ ToCome(s, HeadKinds) \in Nat
      /\ Occurrences(m.buf, HeadKinds) \in Nat
  BY StartedType
<1> QED BY <1>1, <1>2, <1>3 DEF Started

\* A connection replaced.
LEMMA ReconnectClean ==
  ASSUME Base, Clean, Base', NEW k \in Counters, Reconnect(k),
         NEW m, Rests(m), sm' = [sm EXCEPT ![cur] = m], Started(m, NewSocket) <= k.sent_req,
         call = NoCall => revents = {}
  PROVE  Clean'
<1>1. /\ sock' = [sock EXCEPT ![cur] = [k EXCEPT !.retry_conn_num = @ + 1]]
      /\ net' = [net EXCEPT ![cur] = NewSocket]
      /\ pc' = "connect" /\ UNCHANGED <<cur, revents, call>>
  BY DEF Reconnect
<1> DEFINE r == [k EXCEPT !.retry_conn_num = @ + 1]
<1>2. r \in Counters /\ r.sent_req = k.sent_req
  BY DEF Counters
<1>3. NewSocket \in Socket /\ NewSocket.err # "RESET"
  BY EmptySocket DEF NewSocket
<1>4. sock' = [sock EXCEPT ![cur] = r]
  BY <1>1
<1>5. Started(m, NewSocket) <= r.sent_req
  BY <1>2
<1> HIDE DEF r
<1>6. /\ Hushed' /\ \A c \in Conns \ {cur} : Open(c)'
      /\ \A c \in Conns \ {cur} : sock'[c] = sock[c]
  BY <1>1, <1>2, <1>3, <1>4, <1>5, HushedStep
<1>7. RoundState'
  <2>1. cur \notin revents /\ \A c \in revents : sock[c].up
    BY DEF Clean, RoundState
  <2>2. \A c \in revents : sock'[c].up
    BY <1>6, <2>1, Current
  <2> QED BY <1>1, <2>1, <2>2 DEF RoundState, Parsed
<1> QED BY <1>1, <1>6, <1>7, HushedClean

LEMMA SendingClean == ASSUME Base, Clean, Base', Sending, pc' # "exit" PROVE Clean'
<1>1. pc \in {"send", "burst"}
  BY DEF Sending, SendSkip, SendOne, StartBurst, SendBurst, SendFast
<1>2. ~Parsed /\ revents = {} /\ call = NoCall
  BY <1>1 DEF Clean, RoundState, Parsed
<1>3. /\ pc' \in {"send", "burst", "inner"} /\ revents' = {} /\ call' = NoCall /\ sm' = sm
  <2>1. CASE NextSend
    BY <1>2, <2>1 DEF NextSend
  <2>2. CASE ~NextSend
    BY <1>1, <1>2, <2>2 DEF Sending, SendSkip, SendOne, StartBurst, SendBurst, SendFast, Send
  <2> QED BY <2>1, <2>2
<1>4. RoundState'
  BY <1>3 DEF RoundState, Parsed
<1>5. Hushed' /\ \A c \in Conns : Open(c)'
  <2>1. CASE UNCHANGED <<sock, net>>
    BY <1>1, <1>2, <1>3, <2>1, HushedStill
  <2>2. CASE SendOne \/ SendBurst
    <3>1. Takes(1) /\ 1 <= Me.unsent_req /\ Me.sent_req + 1 <= NUM_GAP
      <4>1. Takes(1)
        BY <2>2 DEF SendOne, SendBurst, Send, Takes, Issued
      <4>2. Me.unsent_req \in Nat /\ Me.sent_req \in Nat /\ burst \in Nat
            /\ NUM_GAP \in Nat \ {0}
        BY Current, BlockingAssumption DEF Me, Counters
      <4>3. CASE SendOne
        BY <4>1, <4>2, <4>3 DEF SendOne
      <4>4. CASE SendBurst
        <5>1. pc = "burst"
          BY <4>4 DEF SendBurst
        <5>2. 1 <= burst /\ burst <= Me.unsent_req /\ Me.sent_req + burst <= NUM_GAP
          BY <5>1 DEF Base, BurstFits, Me
        <5> QED BY <4>1, <4>2, <5>2
      <4> QED BY <2>2, <4>3, <4>4
    <3> QED BY <1>1, <1>3, <3>1, SendClean
  <2>3. CASE SendFast
    <3>1. Takes(Round) /\ Me.sent_req = 0
      BY <2>3 DEF SendFast, Send, Takes, Issued
    <3> QED BY <1>1, <1>3, <3>1, RoundType, SendClean
  <2>4. CASE SendSkip \/ StartBurst
    BY <2>1, <2>4 DEF SendSkip, StartBurst
  <2> QED BY <2>2, <2>3, <2>4 DEF Sending
<1> QED BY <1>3, <1>4, <1>5, HushedClean

LEMMA WaitingClean == ASSUME Base, Clean, Base', Waiting PROVE Clean'
<1>1. CASE RoundOver \/ PollTimeout
  <2>1. /\ pc = "inner" /\ pc' \in {"send", "end", "timeout"}
        /\ UNCHANGED <<revents, sock, sm, call, net>>
    BY <1>1 DEF RoundOver, PollTimeout
  <2>2. Hushed' /\ \A c \in Conns : Open(c)'
    BY <2>1, HushedStill DEF Parsed
  <2>3. RoundState'
    BY <2>1 DEF Clean, RoundState, Parsed
  <2> QED BY <2>1, <2>2, <2>3, HushedClean
<1>2. CASE Poll
  <2>1. pc = "inner" /\ UNCHANGED <<sock, sm, net>> /\ LookAt(Readable)
    BY <1>2 DEF Poll
  <2>2. Hushed' /\ \A c \in Conns : Open(c)'
    BY <2>1, HushedStill DEF Parsed
  <2>3. Readable \in SUBSET Conns /\ \A c \in Readable : sock'[c].up
    BY <2>1 DEF Readable
  <2> QED BY <2>1, <2>2, <2>3, HushedLook
<1>3. CASE CheckTimeout
  <2>1. pc = "timeout" /\ sm' = sm /\ revents = {} /\ call = NoCall /\ ~Parsed
    BY <1>3 DEF CheckTimeout, Clean, RoundState, Parsed
  <2>2. CASE NextTimeout /\ UNCHANGED <<sock, net>>
    <3>1. Hushed' /\ \A c \in Conns : Open(c)'
      BY <2>1, <2>2, HushedStill
    <3>2. pc' \in {"timeout", "inner"} /\ revents' = {} /\ call' = NoCall
      BY <2>1, <2>2 DEF NextTimeout
    <3>3. RoundState'
      BY <3>2 DEF RoundState, Parsed
    <3> QED BY <3>1, <3>2, <3>3, HushedClean
  <2>3. CASE Reconnect(Me)
    <3> DEFINE m == sm[cur]
    <3>1. m \in Parser /\ net[cur] \in Socket /\ Me \in Counters /\ Me.sent_req \in Nat
      BY Current DEF Me, Counters
    <3>2. Rests(m) /\ Started(m, net[cur]) <= Me.sent_req /\ sm' = [sm EXCEPT ![cur] = m]
      BY <2>1, CleanNow DEF Me
    <3> HIDE DEF m
    <3>3. Started(m, NewSocket) <= Me.sent_req
      <4>1. /\ Started(m, NewSocket) \in Nat /\ Started(m, NewSocket) <= Started(m, net[cur])
            /\ Started(m, net[cur]) \in Nat
        BY <3>1, StartedAnew, StartedType
      <4> QED BY <3>1, <3>2, <4>1
    <3> QED BY <2>1, <2>3, <3>1, <3>2, <3>3, ReconnectClean
  <2> QED BY <1>3, <2>2, <2>3 DEF CheckTimeout
<1>4. CASE ConnectReturns
  <2> DEFINE u == net[cur].err # "REFUSED"
             k == [Me EXCEPT !.up = u]
             s == net[cur]
             m == sm[cur]
  <2>1. /\ pc = "connect" /\ s.tcp # "SYN_SENT" /\ sock' = [sock EXCEPT ![cur] = k]
        /\ sm' = sm /\ net' = [net EXCEPT ![cur] = s] /\ ~Parsed
        /\ IF call = NoCall THEN NextTimeout ELSE LookAt(revents)
    BY <1>4, Current DEF ConnectReturns, Me, Parsed
  <2>2. Me \in Counters /\ u \in BOOLEAN /\ s \in Socket /\ cur \in Conns
    BY Current DEF Me
  <2> HIDE DEF u
  <2>3. k \in Counters /\ k.sent_req = Me.sent_req /\ k.up = u
    BY <2>2 DEF Counters
  <2> HIDE DEF k
  <2>4. /\ Started(m, s) <= k.sent_req /\ sm' = [sm EXCEPT ![cur] = m] /\ Rests(m)
        /\ "RST" \notin Losses => s.err # "RESET"
    BY <2>1, <2>3, CleanNow DEF Me
  <2> HIDE DEF s, m
  <2>5. /\ Hushed' /\ \A c \in Conns \ {cur} : Open(c)'
        /\ \A c \in Conns \ {cur} : sock'[c] = sock[c]
        /\ sock'[cur] = k /\ net'[cur] = s
    BY <2>1, <2>2, <2>3, <2>4, HushedStep
  <2>6. \A c \in Conns : Open(c)'
    <3> SUFFICES ASSUME NEW c \in Conns PROVE Open(c)'
      OBVIOUS
    <3>1. CASE c = cur
      <4>1. sock'[c] = k /\ net'[c] = s /\ (u <=> s.err # "REFUSED")
        BY <2>5, <3>1 DEF u, s
      <4> QED BY <2>1, <2>3, <4>1 DEF Open
    <3> QED BY <2>5, <3>1
  <2>7. CASE call = NoCall
    <3>1. NextTimeout /\ revents = {}
      BY <2>1, <2>7 DEF Clean, RoundState
    <3>2. pc' \in {"timeout", "inner"} /\ revents' = {} /\ call' = NoCall
      BY <2>7, <3>1 DEF NextTimeout
    <3>3. RoundState'
      BY <3>2 DEF RoundState, Parsed
    <3> QED BY <2>5, <2>6, <3>2, <3>3, HushedClean
  <2>8. CASE call # NoCall
    <3>1. LookAt(revents) /\ revents \in SUBSET Conns
      BY <2>1, <2>8, Current
    <3>2. \A c \in revents : sock'[c].up
      BY <2>5, <3>1 DEF Clean, RoundState
    <3> QED BY <2>5, <2>6, <3>1, <3>2, HushedLook
  <2> QED BY <2>7, <2>8
<1> QED BY <1>1, <1>2, <1>3, <1>4 DEF Waiting

-----------------------------------------------------------------------------
(* The parser. *)

LEMMA CleanCall ==
  ASSUME Base, Clean, Parsed
  PROVE  /\ Tidy(sm[cur]) /\ sock[cur].up /\ Open(cur)
         /\ Started(sm[cur], net[cur]) \in Nat
         /\ Started(sm[cur], net[cur]) + call.fin_resp <= sock[cur].sent_req
         /\ "RST" \notin Losses => net[cur].err # "RESET"
<1>1. /\ Tidy(sm[cur]) /\ sock[cur].up /\ Open(cur) /\ Started(sm[cur], net[cur]) <= Pending(cur)
      /\ "RST" \notin Losses => net[cur].err # "RESET"
  BY Current DEF Clean, ParsersClean, StartedIsPending, RoundState, Opened, NeverReset, Parsed
<1>2. Started(sm[cur], net[cur]) \in Nat
  BY Current, StartedType
<1> QED BY <1>1, <1>2, InCall

LEMMA ParseClean ==
  ASSUME Base, Clean, Base', Parsing, NEW m \in Parser, NEW s \in Socket, NEW k \in ParserCall,
         sm' = [sm EXCEPT ![cur] = m], net' = [net EXCEPT ![cur] = s], call' = k,
         Started(m, s) + k.fin_resp <= sock[cur].sent_req, Tidy(m),
         pc' \in {"parse", "dispatch"},
         s.tcp = net[cur].tcp, s.err \in {net[cur].err, "NONE"},
         pc' = "dispatch" /\ k.rcode \in Stops => k.fin_resp < sock[cur].sent_req,
         pc' = "dispatch" /\ ~ENABLE_PIPE /\ k.rcode \in {"POLL_DATA", "CLOSE"} => m = CleanParser
  PROVE  Clean'
<1>1. pc = "parse" /\ UNCHANGED <<cur, revents, sock>> /\ cur \in Conns /\ Parsed /\ Parsed'
  BY Current DEF Parsing, Parsed
<1>2. sm'[cur] = m /\ net'[cur] = s
  BY <1>1, CleanTypes
<1>3. \A c \in Conns \ {cur} : sm'[c] = sm[c] /\ net'[c] = net[c]
  BY CleanTypes
<1>4. ParsersClean'
  BY <1>1, <1>2, <1>3 DEF Clean, ParsersClean
<1>5. StartedIsPending'
  <2> SUFFICES ASSUME NEW c \in Conns PROVE Started(sm'[c], net'[c]) <= Pending(c)'
    BY DEF StartedIsPending
  <2>1. CASE c = cur
    <3>1. Pending(c)' = sock[cur].sent_req - k.fin_resp
      BY <1>1, <2>1 DEF Pending
    <3>2. Started(m, s) \in Nat /\ k.fin_resp \in Nat /\ sock[cur].sent_req \in Nat
      BY <1>1, CleanTypes, StartedType DEF ParserCall
    <3>3. Started(m, s) <= Pending(c)'
      BY <3>1, <3>2
    <3> QED BY <1>2, <2>1, <3>3
  <2>2. CASE c # cur
    <3>1. Pending(c)' = Pending(c)
      BY <1>1, <2>2 DEF Pending
    <3> QED BY <1>3, <2>2, <3>1 DEF Clean, StartedIsPending
  <2> QED BY <2>1, <2>2
<1>6. StopState'
  BY <1>1, <1>2 DEF StopState
<1>7. RoundState'
  BY <1>1 DEF Clean, RoundState, Parsed
<1>8. Opened' /\ NeverReset'
  <2> SUFFICES ASSUME NEW c \in Conns
               PROVE  Open(c)' /\ ("RST" \notin Losses => net'[c].err # "RESET")
    BY DEF Opened, NeverReset
  <2>1. Open(c) /\ ("RST" \notin Losses => net[c].err # "RESET")
    BY <1>1 DEF Clean, Opened, NeverReset
  <2>2. CASE c = cur
    BY <1>1, <1>2, <2>1, <2>2 DEF Open
  <2>3. CASE c # cur
    BY <1>1, <1>3, <2>1, <2>3 DEF Open
  <2> QED BY <2>2, <2>3
<1> QED BY <1>4, <1>5, <1>6, <1>7, <1>8 DEF Clean

LEMMA ParseTokenClean == ASSUME Base, Clean, Base', ParseToken PROVE Clean'
<1> DEFINE m == sm[cur]
           s == net[cur]
<1>1. Parsing /\ m.buf # <<>> /\ net' = net /\ pc = "parse" /\ Parsed
  BY DEF ParseToken, HasData, Parsing, Parsed
<1>2. PICK o \in Parse(m, Head(m.buf)) :
        /\ o.res # "FINISH"
        /\ sm' = [sm EXCEPT ![cur] = Taken(m, o)]
        /\ IF o.res = "MORE" THEN UNCHANGED <<pc, call>> ELSE Returns(o.res)
  BY Current DEF ParseToken, Taken
<1> DEFINE n == Taken(m, o)
<1>3. m \in Parser /\ s \in Socket /\ OfServer(m, s) /\ net' = [net EXCEPT ![cur] = s]
  BY <1>1, Current
<1>4. /\ InOrder(m, s) /\ Started(m, s) \in Nat
      /\ Started(m, s) + call.fin_resp <= sock[cur].sent_req
  BY <1>1, Running, CleanCall
<1> HIDE DEF m, s
<1>5. /\ n \in Parser /\ o.res \in {"MORE"} \cup Stops
      /\ Started(n, s) <= Started(m, s) /\ Tidy(n)
      /\ o.res # "MORE" => Started(m, s) >= 1
  BY <1>1, <1>2, <1>3, <1>4, TakenOwing, TakenStarted
<1>6. call.fin_resp \in Nat /\ sock[cur].sent_req \in Nat /\ Started(n, s) \in Nat
  <2> HIDE DEF n
  <2> QED BY <1>3, <1>5, InCall, StartedType
<1>7. /\ Started(n, s) + call.fin_resp <= sock[cur].sent_req
      /\ o.res # "MORE" => call.fin_resp < sock[cur].sent_req
  BY <1>4, <1>5, <1>6
<1>8. sm' = [sm EXCEPT ![cur] = n]
  BY <1>2
<1> HIDE DEF n
<1>9. CASE o.res = "MORE"
  <2>1. pc' = "parse" /\ call' = call /\ call \in ParserCall
    BY <1>1, <1>2, <1>9, Current
  <2> QED BY <1>1, <1>3, <1>5, <1>7, <1>8, <2>1, ParseClean DEF s
<1>10. CASE o.res # "MORE"
  <2>1. pc' = "dispatch" /\ call' = Return(o.res) /\ o.res \in Stops
    BY <1>2, <1>5, <1>10 DEF Returns, Return
  <2>2. o.res \in Rcodes /\ o.res \notin {"POLL_DATA", "CLOSE"}
    BY <2>1 DEF Rcodes, Stops
  <2>3. /\ Return(o.res) \in ParserCall /\ Return(o.res).rcode = o.res
        /\ Return(o.res).fin_resp = call.fin_resp
    BY <2>2, ReturnType
  <2> QED BY <1>1, <1>3, <1>5, <1>7, <1>8, <1>10, <2>1, <2>2, <2>3, ParseClean DEF s
<1> QED BY <1>9, <1>10

LEMMA ParseFinishClean == ASSUME Base, Clean, Base', ParseFinish PROVE Clean'
<1> DEFINE m == sm[cur]
           s == net[cur]
           n == Finish(m)
           b == call.fin_resp + 1
<1>1. Parsing /\ m.buf # <<>> /\ pc = "parse" /\ UNCHANGED <<pc, net>> /\ Parsed
  BY DEF ParseFinish, HasData, Parsing, Parsed
<1>2. PICK o \in Parse(m, Head(m.buf)) :
        /\ o.res = "FINISH" /\ sm' = [sm EXCEPT ![cur] = n]
        /\ call' = [call EXCEPT !.num_reqs = U32(@ - 1), !.fin_resp = @ + 1]
  BY DEF ParseFinish, Finish
<1>3. m \in Parser /\ s \in Socket /\ OfServer(m, s) /\ net' = [net EXCEPT ![cur] = s]
  BY <1>1, Current
<1>4. /\ InOrder(m, s) /\ Started(m, s) \in Nat
      /\ Started(m, s) + call.fin_resp <= sock[cur].sent_req
  BY <1>1, Running, CleanCall
<1> HIDE DEF m, s
<1>5. n \in Parser /\ Started(n, s) + 1 <= Started(m, s) /\ Tidy(n)
  BY <1>1, <1>2, <1>3, <1>4, FinishOwing, FinishStarted
<1> HIDE DEF n
<1>6. call.fin_resp \in Nat /\ sock[cur].sent_req \in Nat /\ Started(n, s) \in Nat
  BY <1>3, <1>5, InCall, StartedType
<1>7. Started(n, s) + b <= sock[cur].sent_req
  BY <1>4, <1>5, <1>6
<1>8. call' \in ParserCall
  BY DEF Base, Shape
<1>9. call'.fin_resp = b
  BY <1>2, Current DEF ParserCall
<1> HIDE DEF b
<1>10. Started(n, s) + call'.fin_resp <= sock[cur].sent_req
  BY <1>7, <1>9
<1>11. pc' = "parse"
  BY <1>1
<1>12. PICK k \in ParserCall : k = call'
  BY <1>8
<1> QED BY <1>1, <1>2, <1>3, <1>5, <1>10, <1>11, <1>12, ParseClean DEF s

LEMMA NothingExpectedClean == ASSUME Base, Clean, Base', NothingExpected PROVE Clean'
<1>1. /\ Parsing /\ sm[cur].buf = <<>> /\ call.num_reqs = 0 /\ UNCHANGED <<sm, net>>
      /\ pc' = "dispatch" /\ call' = Return("POLL_DATA") /\ Parsed
  BY DEF NothingExpected, HasData, Returns, Return, Parsing, Parsed
<1>2. InOrder(sm[cur], net[cur]) /\ call.num_reqs + call.fin_resp = sock[cur].sent_req
  BY <1>1, Running
<1>3. /\ Tidy(sm[cur]) /\ Started(sm[cur], net[cur]) \in Nat
      /\ Started(sm[cur], net[cur]) + call.fin_resp <= sock[cur].sent_req
  BY <1>1, CleanCall
<1>4. /\ sm' = [sm EXCEPT ![cur] = sm[cur]] /\ net' = [net EXCEPT ![cur] = net[cur]]
      /\ sm[cur] \in Parser /\ net[cur] \in Socket
  BY <1>1, Current
<1>5. Started(sm[cur], net[cur]) = 0
  BY <1>1, <1>2, <1>3, InCall
<1>6. sm[cur] = CleanParser
  BY <1>1, <1>2, <1>3, <1>4, <1>5, NothingStarted
<1>7. "POLL_DATA" \in Rcodes /\ "POLL_DATA" \notin Stops
  BY DEF Rcodes, Stops
<1>8. /\ Return("POLL_DATA") \in ParserCall /\ Return("POLL_DATA").rcode = "POLL_DATA"
      /\ Return("POLL_DATA").fin_resp = call.fin_resp
  BY <1>7, ReturnType
<1> QED BY <1>1, <1>3, <1>4, <1>6, <1>7, <1>8, ParseClean

LEMMA RecvClean == ASSUME Base, Clean, Base', Recv PROVE Clean'
<1> DEFINE m == sm[cur]
           s == net[cur]
<1>1. Parsing /\ m.buf = <<>> /\ pc = "parse" /\ UNCHANGED <<pc, call>> /\ Parsed
  BY DEF Recv, HasData, Parsing, Parsed
<1>2. PICK n \in 1..Len(s.rx) :
        /\ sm' = [sm EXCEPT ![cur] = Filled(m, s, n)]
        /\ net' = [net EXCEPT ![cur] = Drained(s, n)]
  BY DEF Recv, Filled, Drained
<1>3. m \in Parser /\ s \in Socket /\ OfServer(m, s) /\ call \in ParserCall
  BY Current
<1>4. /\ InOrder(m, s) /\ Tidy(m) /\ Started(m, s) \in Nat
      /\ Started(m, s) + call.fin_resp <= sock[cur].sent_req
  BY <1>1, Running, CleanCall
<1>5. m.buf = <<>> /\ n \in 1..Len(s.rx)
  BY <1>1, <1>2
<1> HIDE DEF m, s
<1>6. /\ Filled(m, s, n) \in Parser /\ Drained(s, n) \in Socket
      /\ Drained(s, n).tcp = s.tcp /\ Drained(s, n).err = s.err
  BY <1>3, <1>4, <1>5, ReceivedOwing
<1>7. /\ Started(Filled(m, s, n), Drained(s, n)) = Started(m, s) /\ Tidy(Filled(m, s, n))
  BY <1>3, <1>4, <1>5, <1>6, ReceivedStarted
<1>8. pc' = "parse" /\ call' = call
  BY <1>1
<1>9. Started(Filled(m, s, n), Drained(s, n)) + call.fin_resp <= sock[cur].sent_req
  BY <1>4, <1>7
<1> QED BY <1>1, <1>2, <1>3, <1>6, <1>7, <1>8, <1>9, ParseClean DEF s

LEMMA RecvEofClean == ASSUME Base, Clean, Base', RecvEof PROVE Clean'
<1> DEFINE s == net[cur]
<1>1. /\ Parsing /\ net' = net /\ sm' = [sm EXCEPT ![cur] = CleanParser]
      /\ pc' = "dispatch" /\ call' = Return("CLOSE") /\ Parsed
  BY CleanFacts DEF RecvEof, Returns, Return, Parsing, Parsed
<1>2. s \in Socket /\ net' = [net EXCEPT ![cur] = s] /\ sm[cur] \in Parser
  BY <1>1, Current
<1>3. /\ Started(sm[cur], s) \in Nat /\ Started(sm[cur], s) + call.fin_resp <= sock[cur].sent_req
  BY <1>1, CleanCall
<1>4. Started(CleanParser, s) + call.fin_resp <= sock[cur].sent_req
  <2>1. Started(CleanParser, s) = ToCome(s, HeadKinds) /\ ToCome(s, HeadKinds) <= Started(sm[cur], s)
        /\ ToCome(s, HeadKinds) \in Nat
    BY <1>2, CleanStarted, StartedType
  <2> QED BY <1>3, <2>1, InCall
<1>5. "CLOSE" \in Rcodes /\ "CLOSE" \notin Stops /\ Tidy(CleanParser)
  BY <1>2, CleanStarted DEF Rcodes, Stops
<1>6. /\ Return("CLOSE") \in ParserCall /\ Return("CLOSE").rcode = "CLOSE"
      /\ Return("CLOSE").fin_resp = call.fin_resp
  BY <1>5, ReturnType
<1> QED BY <1>1, <1>2, <1>4, <1>5, <1>6, CleanFacts, ParseClean

LEMMA RecvErrorClean == ASSUME Base, Clean, Fresh, Base', RecvError PROVE Clean'
<1> DEFINE s == net[cur]
           m == sm[cur]
           s1 == [s EXCEPT !.err = "NONE"]
<1>1. /\ Parsing /\ s.tcp = "CLOSE" /\ sm' = sm /\ RecvFails(s)
      /\ net' = [net EXCEPT ![cur] = s1] /\ Parsed
      /\ pc' = "dispatch" /\ call' = Return("POLL_DATA")
  BY DEF RecvError, Returns, Return, AfterError, Parsing, Parsed
<1>2. /\ m \in Parser /\ s \in Socket /\ sm' = [sm EXCEPT ![cur] = m]
  BY <1>1, Current
<1>3. /\ Tidy(m) /\ Started(m, s) + call.fin_resp <= sock[cur].sent_req
      /\ s.err # "REFUSED" /\ ("RST" \notin Losses => s.err # "RESET")
  BY <1>1, CleanCall DEF Open
<1>4. ENABLE_PIPE
  <2>1. s.err \in {"REFUSED", "RESET"}
    BY <1>1, <1>2 DEF RecvFails, AtEof, Socket
  <2> QED BY <1>3, <2>1 DEF Fresh
<1>5. /\ s1 \in Socket /\ s1.rx = s.rx /\ s1.srv = s.srv /\ s1.wire = s.wire
      /\ s1.tcp = s.tcp /\ s1.err = "NONE"
  BY <1>1, <1>2 DEF Socket
<1> HIDE DEF s1
<1>6. Started(m, s1) = Started(m, s)
  BY <1>5 DEF Started, ToCome
<1>7. "POLL_DATA" \in Rcodes /\ "POLL_DATA" \notin Stops
  BY DEF Rcodes, Stops
<1>8. /\ Return("POLL_DATA") \in ParserCall /\ Return("POLL_DATA").rcode = "POLL_DATA"
      /\ Return("POLL_DATA").fin_resp = call.fin_resp
  BY <1>7, ReturnType
<1> QED BY <1>1, <1>2, <1>3, <1>4, <1>5, <1>6, <1>7, <1>8, ParseClean

-----------------------------------------------------------------------------
(* The switch, the world, and the whole. *)

LEMMA AnsweredClean == ASSUME Fresh, Base, Clean, Base', DispatchAnswered PROVE Clean'
<1> DEFINE m == sm[cur]
           s == net[cur]
<1>1. PICK n \in NumResp :
        LET k == Credited(Me, n)
        IN  /\ Dispatch({"POLL_DATA", "CLOSE"} \cup (IF ENABLE_PIPE THEN {} ELSE {"NOT_SUPPORT"}), n)
            /\ sm' = [sm EXCEPT ![cur] = IF ENABLE_PIPE THEN CleanParser ELSE m]
            /\ IF MustReplace(k)
                 THEN Reconnect([k EXCEPT !.sent_req = 0])
                 ELSE /\ sock' = [sock EXCEPT ![cur] = k]
                      /\ LookAt(revents)
                      /\ UNCHANGED net
  BY CleanFacts DEF DispatchAnswered
<1> DEFINE k == Credited(Me, n)
<1>2. /\ pc = "dispatch" /\ call.rcode \in {"POLL_DATA", "CLOSE"} /\ call.rcode # "REDIRECT"
  BY <1>1 DEF Dispatch, Base, CallState, Fresh
<1>3. /\ n = call.fin_resp /\ n \in Nat /\ n <= Me.sent_req
      /\ Me \in Counters /\ Accounted(cur, Me) /\ Me.sent_req \in Nat
  BY <1>1, <1>2, DispatchFacts
<1>4. sm' = [sm EXCEPT ![cur] = CleanParser]
  BY <1>1, <1>2 DEF Clean, StopState
<1>5. call # NoCall /\ Rests(CleanParser)
  BY <1>2 DEF NoCall, Rests
<1>6. CASE MustReplace(k)
  <2>1. Reconnect(Abandoned(Me, n)) /\ Abandoned(Me, n) \in Counters
    BY <1>1, <1>3, <1>6, AbandonedType DEF Abandoned
  <2>2. Started(CleanParser, NewSocket) <= Abandoned(Me, n).sent_req
    BY <1>3, Current, StartedAnew DEF Abandoned, Credited, Counters
  <2> QED BY <1>4, <1>5, <2>1, <2>2, ReconnectClean
<1>7. CASE ~MustReplace(k)
  <2>1. sock' = [sock EXCEPT ![cur] = k] /\ LookAt(revents) /\ net' = [net EXCEPT ![cur] = s]
    BY <1>1, <1>7, Current
  <2>2. k \in Counters /\ k.sent_req = Me.sent_req - n /\ k.up = Me.up /\ s \in Socket
    BY <1>3, CreditedType, Current
  <2>3. /\ Started(m, s) + n <= Me.sent_req /\ Open(cur) /\ ("RST" \notin Losses => s.err # "RESET")
        /\ Started(m, s) \in Nat
    BY <1>2, <1>3, CleanCall DEF Parsed, Me
  <2>4. Started(CleanParser, s) <= k.sent_req
    <3>1. /\ ToCome(s, HeadKinds) <= Started(m, s) /\ ToCome(s, HeadKinds) \in Nat
          /\ Started(CleanParser, s) = ToCome(s, HeadKinds)
      BY Current, StartedType, CleanStarted
    <3> QED BY <1>3, <2>2, <2>3, <3>1
  <2>5. s = net[cur] /\ Me = sock[cur] /\ cur \in Conns /\ revents \in SUBSET Conns
    BY Current DEF Me
  <2> HIDE DEF k, s, m
  <2>6. /\ Hushed' /\ \A c \in Conns \ {cur} : Open(c)'
        /\ \A c \in Conns \ {cur} : sock'[c] = sock[c]
        /\ sock'[cur] = k /\ net'[cur] = s
    BY <1>4, <1>5, <2>1, <2>2, <2>3, <2>4, HushedStep
  <2>7. ASSUME NEW c \in Conns PROVE Open(c)'
    <3>1. CASE c = cur
      <4>1. sock'[c] = k /\ net'[c] = s /\ sock[c] = Me /\ net[c] = s
        BY <2>5, <2>6, <3>1
      <4> QED BY <2>2, <2>3, <3>1, <4>1 DEF Open
    <3> QED BY <2>6, <3>1
  <2>8. \A c \in revents : sock'[c].up
    BY <2>5, <2>6 DEF Clean, RoundState
  <2> QED BY <2>1, <2>5, <2>6, <2>7, <2>8, HushedLook
<1> QED BY <1>6, <1>7

LEMMA AbandonClean == ASSUME Base, Clean, Base', DispatchAbandon PROVE Clean'
<1>1. PICK n \in NumResp :
        /\ Dispatch({"CLIENT_ERR", "ERROR"}, n)
        /\ sm' = [sm EXCEPT ![cur] = CleanParser]
        /\ Reconnect(Abandoned(Me, n))
  BY CleanFacts DEF DispatchAbandon, Abandoned
<1>2. call.rcode # "REDIRECT" /\ call # NoCall
  BY <1>1 DEF Dispatch, NoCall
<1>3. n \in Nat /\ n <= Me.sent_req /\ Me \in Counters /\ Accounted(cur, Me)
  BY <1>1, <1>2, DispatchFacts
<1>4. Abandoned(Me, n) \in Counters
  BY <1>3, AbandonedType
<1>5. Rests(CleanParser) /\ Started(CleanParser, NewSocket) <= Abandoned(Me, n).sent_req
  BY <1>3, Current, StartedAnew DEF Rests, Abandoned, Credited, Counters
<1> QED BY <1>1, <1>2, <1>4, <1>5, ReconnectClean

\* After an ignored answer the parser rests at it.
LEMMA IgnoredClean == ASSUME ~Orderly, ENABLE_PIPE, Base, Clean, Base', DispatchIgnored PROVE Clean'
<1> DEFINE m == sm[cur]
           s == net[cur]
<1>1. PICK n \in NumResp :
        /\ Dispatch({"NOT_SUPPORT"}, n) /\ sock' = [sock EXCEPT ![cur] = Credited(Me, n)]
        /\ LookAt(revents) /\ UNCHANGED <<sm, net>>
  BY DEF DispatchIgnored, Me
<1> DEFINE k == Credited(Me, n)
<1>2. pc = "dispatch" /\ call.rcode = "NOT_SUPPORT" /\ call.rcode # "REDIRECT"
  BY <1>1 DEF Dispatch
<1>3. /\ n = call.fin_resp /\ n \in Nat /\ n <= Me.sent_req
      /\ Me \in Counters /\ Accounted(cur, Me) /\ Me.sent_req \in Nat
  BY <1>1, <1>2, DispatchFacts
<1>4. Rests(m)
  BY <1>2 DEF Base, CallState, Rests
<1>5. /\ sock' = [sock EXCEPT ![cur] = k] /\ LookAt(revents)
      /\ net' = [net EXCEPT ![cur] = s] /\ sm' = [sm EXCEPT ![cur] = m]
  BY <1>1, Current
<1>6. k \in Counters /\ k.sent_req = Me.sent_req - n /\ k.up = Me.up /\ s \in Socket
  BY <1>3, CreditedType, Current
<1>7. /\ Started(m, s) + n <= Me.sent_req /\ Open(cur) /\ ("RST" \notin Losses => s.err # "RESET")
      /\ Started(m, s) \in Nat
  BY <1>2, <1>3, CleanCall DEF Parsed, Me
<1>8. Started(m, s) <= k.sent_req
  BY <1>3, <1>6, <1>7
<1>9. s = net[cur] /\ Me = sock[cur] /\ cur \in Conns /\ revents \in SUBSET Conns
  BY Current DEF Me
<1> HIDE DEF k, s, m
<1>10. /\ Hushed' /\ \A c \in Conns \ {cur} : Open(c)'
       /\ \A c \in Conns \ {cur} : sock'[c] = sock[c]
       /\ sock'[cur] = k /\ net'[cur] = s
  BY <1>4, <1>5, <1>6, <1>7, <1>8, HushedStep
<1>11. ASSUME NEW c \in Conns PROVE Open(c)'
  <2>1. CASE c = cur
    <3>1. sock'[c] = k /\ net'[c] = s /\ sock[c] = Me /\ net[c] = s
      BY <1>9, <1>10, <2>1
    <3> QED BY <1>6, <1>7, <2>1, <3>1 DEF Open
  <2> QED BY <1>10, <2>1
<1>12. \A c \in revents : sock'[c].up
  BY <1>9, <1>10 DEF Clean, RoundState
<1> QED BY <1>5, <1>9, <1>10, <1>11, <1>12, HushedLook

\* Where no connection is reset, no step resets one.
LEMMA StepResets ==
  ASSUME Base, NEW c \in Conns, NetworkStep(c), "RST" \notin Losses, NEW d \in Conns,
         net'[d].err = "RESET"
  PROVE  net[d].err = "RESET"
<1>1. net \in [Conns -> Socket] /\ net[c] \in Socket /\ net[d] \in Socket
  BY CleanTypes
<1>2. CASE Establish(c)
  BY <1>1, <1>2 DEF Establish, Socket
<1>3. CASE ServerRead(c)
  <2>1. ReadUnit(net[c]).err = net[c].err
    BY <1>1, <1>3, ReadUnitToCome DEF ServerRead
  <2> QED BY <1>1, <1>3, <2>1 DEF ServerRead
<1>4. ASSUME NEW s \in Socket, NEW state, NEW why \in {"NONE", "PIPE", "REFUSED"},
             net' = [net EXCEPT ![c] = Gone(s, state, why)]
      PROVE  net[d].err = "RESET"
  <2>1. Gone(s, state, why).err = why
    BY DEF Gone, Socket
  <2> QED BY <1>1, <1>4, <2>1
<1>5. CASE \E k \in Kinds : Answer(c, k)
  <2> PICK k \in Kinds : Answer(c, k)
    BY <1>5
  <2> DEFINE t == Answered(net[c], k)
  <2>1. k \in HeadKinds
    BY PeerAssumption
  <2>2. net[c].srv > 0 /\ net' = [net EXCEPT ![c] = IF k \in Closing THEN Gone(t, "CLOSE_WAIT", "NONE") ELSE t]
    BY DEF Answer, Answered
  <2>3. t \in Socket /\ t.err = net[c].err
    <3>1. net[c].srv > 0 /\ net[c] \in Socket
      BY <1>1, <2>2
    <3>2. PICK s \in Socket : s = net[c]
      BY <3>1
    <3>3. s.srv > 0
      BY <3>1, <3>2
    <3>4. Answered(s, k) \in Socket /\ Answered(s, k).err = s.err
      BY <2>1, <3>3, AnsweredType
    <3> QED BY <3>2, <3>4
  <2> HIDE DEF t
  <2>4. CASE k \in Closing
    BY <1>4, <2>2, <2>3, <2>4
  <2>5. CASE k \notin Closing
    BY <1>1, <2>2, <2>3, <2>5
  <2> QED BY <2>4, <2>5
<1>6. CASE Refuse(c)
  BY <1>1, <1>4, <1>6 DEF Refuse
<1>7. CASE Fin(c)
  <2>1. PICK s \in Cut(net[c]) : net' = [net EXCEPT ![c] = Gone(s, "CLOSE_WAIT", "NONE")]
    BY <1>7 DEF Fin
  <2>2. s \in Socket
    BY <1>1, CutType
  <2> QED BY <1>4, <2>1, <2>2
<1>8. CASE Rst(c) /\ net[c].tcp = "CLOSE_WAIT"
  BY <1>1, <1>4, <1>8 DEF Rst
<1> QED BY <1>2, <1>3, <1>5, <1>6, <1>7, <1>8 DEF NetworkStep

LEMMA PeerClean == ASSUME Base, Clean, Peer PROVE Clean'
<1>1. UNCHANGED <<pc, cur, revents, workload, all_fin, sock, sm, call, burst>>
  BY PeerMoves DEF progVars
<1>2. PICK d \in Conns, t \in Socket :
        net' = [net EXCEPT ![d] = t] /\ SocketMoves(net[d], t)
  BY PeerMoves
<1>3. ASSUME NEW c \in Conns
      PROVE  Started(sm[c], net[c])' <= Pending(c)' /\ (Open(c) => Open(c)')
  <2>1. Pending(c)' = Pending(c) /\ sm'[c] = sm[c] /\ sock'[c] = sock[c]
    BY <1>1 DEF Pending, Parsed
  <2>2. Started(sm[c], net[c]) <= Pending(c)
    BY DEF Clean, StartedIsPending
  <2>3. CASE c # d
    <3>1. net'[c] = net[c]
      BY <1>2, <2>3, CleanTypes
    <3> QED BY <2>1, <2>2, <3>1 DEF Open
  <2>4. CASE c = d
    <3>1. net'[c] = t /\ SocketMoves(net[c], t) /\ sm[c] \in Parser /\ net[c] \in Socket
      BY <1>2, <2>4, CleanTypes
    <3>2. Started(sm[c], t) <= Started(sm[c], net[c])
      BY <3>1, MovedStarted
    <3>3. /\ Started(sm[c], t) \in Nat /\ Started(sm[c], net[c]) \in Nat /\ Pending(c) \in Int
      <4>1. call.fin_resp \in Nat /\ sock[c].sent_req \in Nat
        BY InCall, CleanTypes
      <4> QED BY <3>1, <4>1, StartedType DEF Pending
    <3>4. Started(sm[c], t) <= Pending(c)
      BY <2>2, <3>2, <3>3
    <3>5. Open(c) => t.tcp # "SYN_SENT" /\ (sock[c].up => t.err # "REFUSED")
      BY <3>1 DEF SocketMoves, Open
    <3> QED BY <2>1, <3>1, <3>4, <3>5 DEF Open
  <2> QED BY <2>3, <2>4
<1>4. NeverReset'
  <2>1. PICK c \in Conns : NetworkStep(c)
    BY DEF Peer, FromPeer
  <2> QED BY <2>1, StepResets DEF Clean, NeverReset
<1>5. StartedIsPending' /\ Opened'
  BY <1>1, <1>3 DEF Clean, StartedIsPending, Opened
<1> QED BY <1>1, <1>4, <1>5 DEF Clean, ParsersClean, StopState, RoundState, Parsed

LEMMA InitClean == ASSUME Init, Base PROVE Clean
<1>1. ASSUME NEW c \in Conns
      PROVE  /\ sm[c] = CleanParser /\ net[c] = Connected /\ sock[c].sent_req = 0
             /\ net[c].tcp = "ESTABLISHED" /\ net[c].err = "NONE" /\ Pending(c) = 0
  BY DEF Init, Connected, NewSocket, Pending, Parsed
<1>2. ASSUME NEW c \in Conns PROVE Started(sm[c], net[c]) = 0
  BY <1>1, EmptySocket, CleanStarted
<1>3. StartedIsPending
  BY <1>1, <1>2 DEF StartedIsPending
<1>4. ParsersClean /\ Opened /\ NeverReset
  BY <1>1 DEF Init, ParsersClean, Rests, Opened, NeverReset, Open, Parsed
<1> QED BY <1>3, <1>4 DEF Init, Clean, StopState, RoundState, Parsed

LEMMA NextClean ==
  ASSUME Bounded, Fresh, IInv, IInv', CInv, [Next]_vars
  PROVE  CInv'
<1>1. CASE UNCHANGED vars
  BY <1>1 DEF vars, progVars, CInv, Clean, ParsersClean, StartedIsPending, StopState, RoundState,
     Opened, Open, NeverReset, Pending, Parsed
<1>2. CASE pc # "exit" /\ Program /\ pc' # "exit"
  <2> SUFFICES Clean'
    BY <1>2 DEF CInv
  <2>1. Base /\ Base' /\ Clean
    BY <1>2 DEF IInv, CInv
  <2>2. CASE Sending
    BY <1>2, <2>1, <2>2, SendingClean
  <2>3. CASE Waiting
    BY <2>1, <2>3, WaitingClean
  <2>4. CASE Receiving
    BY <2>1, <2>4, ParseTokenClean, ParseFinishClean, NothingExpectedClean, RecvClean,
       RecvEofClean, RecvErrorClean DEF Receiving
  <2>5. CASE Answering
    <3>1. ~DispatchExit
      BY <1>2 DEF DispatchExit
    <3>2. CASE DispatchIgnored
      BY <2>1, <3>2, IgnoredClean, NothingIgnored DEF Bounded, Narrow
    <3> QED BY <2>1, <2>5, <3>1, <3>2, AnsweredClean, AbandonClean DEF Answering
  <2> QED BY <1>2, <2>2, <2>3, <2>4, <2>5 DEF Program
<1>3. CASE pc # "exit" /\ Program /\ pc' = "exit"
  <2>1. Clean /\ Base
    BY <1>3 DEF CInv, IInv
  <2>2. net' = net /\ pc # "connect"
    <3>1. CASE Sending
      BY <1>3, <3>1 DEF Sending, SendSkip, SendOne, StartBurst, SendBurst, SendFast, Send, NextSend
    <3>2. CASE Waiting
      BY <1>3, <3>2 DEF Waiting, RoundOver, Poll, PollTimeout, CheckTimeout, ConnectReturns,
         LookAt, NextTimeout, Reconnect
    <3>3. CASE Receiving
      BY <1>3, <3>3 DEF Receiving, ParseToken, ParseFinish, NothingExpected, Recv, RecvEof,
         RecvError, Parsing, Returns
    <3>4. CASE Answering
      BY <1>3, <3>4 DEF Answering, DispatchAnswered, DispatchAbandon, DispatchIgnored,
         DispatchExit, Dispatch, LookAt, Reconnect
    <3> QED BY <1>3, <3>1, <3>2, <3>3, <3>4 DEF Program
  <2> QED BY <1>3, <2>1, <2>2 DEF CInv, Clean, Opened, Open
<1>4. CASE Peer
  BY <1>4, PeerClean DEF IInv, CInv, Peer, FromPeer, Over, progVars
<1>5. pc \in {"end", "exit"} => ~Program
  BY NoStepAfterEnd
<1> QED BY <1>1, <1>2, <1>3, <1>4, <1>5 DEF Next, Finished

LEMMA CleanInvariant == ASSUME Bounded, Fresh PROVE Spec => []CInv
<1>1. Init => CInv
  BY InitInv, InitClean DEF CInv, Init
<1>2. IInv /\ IInv' /\ CInv /\ [Next]_vars => CInv'
  BY NextClean
<1> QED BY <1>1, <1>2, Invariant, PTL DEF Spec

-----------------------------------------------------------------------------
(* The third layer: sums over the connections. *)

Shares   == [c \in Conns |-> Share(c)]
Unclosed == [c \in Conns |-> sock[c].sent_req]
Answers  == [c \in Conns |-> sock[c].rcvd_res]
OnTheWay == Tally(Conns, Unclosed)

\* Where no connection is abandoned by the switch, which leaves the requests
\* given up in the workload.
Settled == ENABLE_PIPE => Kinds \cap Rejections = {}

\* The most requests that can be on their way at once.
Most == IF Orderly THEN TOTAL_REQ ELSE Tally(Conns, Bursts)

SumState ==
  /\ all_fin = Tally(Conns, Answers)
  /\ pc = "send" => /\ workload = OnTheWay
                    /\ \A c \in Conns : c >= cur => sock[c].sent_req = 0
  /\ pc = "burst" => /\ workload + sock[cur].sent_req = OnTheWay
                     /\ \A c \in Conns : c > cur => sock[c].sent_req = 0
  /\ pc \notin {"send", "burst"} => /\ OnTheWay <= workload /\ workload <= Most
                                    /\ Settled => workload = OnTheWay
  /\ pc = "end" => all_fin >= TOTAL_REQ

SInv == pc # "exit" => SumState

\* The shares add up to the total.
LEMMA SharesSum == Shares \in [Conns -> Nat] /\ Tally(Conns, Shares) = TOTAL_REQ
BY BlockingAssumption, DealtSum DEF Shares, Share, Dealt

\* The sums over any counters s that are accounted for.
LEMMA SumsOf ==
  ASSUME NEW s \in [Conns -> Counters], \A c \in Conns : Accounted(c, s[c]),
         NEW f, f = [c \in Conns |-> s[c].sent_req], NEW g, g = [c \in Conns |-> s[c].rcvd_res]
  PROVE  /\ f \in [Conns -> Nat] /\ g \in [Conns -> Nat]
         /\ Tally(Conns, f) \in Nat /\ Tally(Conns, g) \in Nat
         /\ Tally(Conns, f) <= Most /\ Most \in Nat /\ Most < U32_MOD /\ U32_MOD \in Nat
         /\ Orderly => \A c \in Conns : g[c] <= Shares[c]
<1>1. ASSUME NEW c \in Conns
      PROVE  /\ s[c].sent_req \in Nat /\ s[c].rcvd_res \in Nat
             /\ Orderly => s[c].sent_req <= Share(c) /\ s[c].rcvd_res <= Share(c)
             /\ ~Orderly => Narrow /\ s[c].sent_req <= NUM_GAP
  <2>1. s[c] \in Counters /\ Accounted(c, s[c])
    OBVIOUS
  <2>2. s[c].sent_req \in Nat /\ s[c].rcvd_res \in Nat /\ s[c].unsent_req \in Nat
    BY <2>1 DEF Counters
  <2> QED BY <2>1, <2>2, ShareType DEF Accounted
<1>2. f \in [Conns -> Nat] /\ g \in [Conns -> Nat]
  BY <1>1
<1>3. Orderly => \A c \in Conns : f[c] <= Shares[c] /\ g[c] <= Shares[c]
  BY <1>1 DEF Shares
<1>4. Tally(Conns, f) \in Nat /\ Tally(Conns, g) \in Nat
  BY <1>2, ConnsFinite, TallyType
<1>5. CASE Orderly
  <2>1. Tally(Conns, f) <= TOTAL_REQ
    BY <1>2, <1>3, <1>5, ConnsFinite, SharesSum, TallyOrder
  <2> QED BY <1>2, <1>3, <1>4, <1>5, <2>1, BlockingAssumption DEF Most
<1>6. CASE ~Orderly
  <2>1. Bursts \in [Conns -> Nat] /\ \A c \in Conns : f[c] <= Bursts[c]
    BY <1>1, <1>6, BlockingAssumption DEF Bursts
  <2>2. Tally(Conns, f) <= Tally(Conns, Bursts) /\ Tally(Conns, Bursts) \in Nat
    BY <1>2, <2>1, ConnsFinite, TallyOrder, TallyType
  <2>3. Narrow
    <3>1. 0 \in Conns
      BY PeerAssumption DEF Conns
    <3> QED BY <1>1, <1>6, <3>1
  <2> QED BY <1>2, <1>4, <1>6, <2>2, <2>3, BlockingAssumption DEF Most, Narrow
<1> QED BY <1>5, <1>6

LEMMA SumTypes ==
  ASSUME Base
  PROVE  /\ Unclosed \in [Conns -> Nat] /\ Answers \in [Conns -> Nat]
         /\ OnTheWay \in Nat /\ Tally(Conns, Answers) \in Nat
         /\ OnTheWay <= Most /\ Most \in Nat /\ Most < U32_MOD /\ U32_MOD \in Nat
         /\ Orderly => \A c \in Conns : Answers[c] <= Shares[c]
<1>1. sock \in [Conns -> Counters] /\ \A c \in Conns : Accounted(c, sock[c])
  BY DEF Base, Shape, AllAccounted
<1> QED BY <1>1, SumsOf DEF Unclosed, Answers, OnTheWay

\* New counters for the current connection.
LEMMA SumStep ==
  ASSUME Base, Base', NEW k \in Counters, sock' = [sock EXCEPT ![cur] = k]
  PROVE  /\ OnTheWay' = OnTheWay + k.sent_req - sock[cur].sent_req
         /\ Tally(Conns, Answers)' = Tally(Conns, Answers) + k.rcvd_res - sock[cur].rcvd_res
         /\ sock[cur].sent_req <= OnTheWay
         /\ sock'[cur] = k /\ \A c \in Conns \ {cur} : sock'[c] = sock[c]
         /\ OnTheWay \in Nat /\ OnTheWay' \in Nat /\ OnTheWay' <= Most
         /\ Tally(Conns, Answers) \in Nat
         /\ k.sent_req \in Nat /\ k.rcvd_res \in Nat
         /\ sock[cur].sent_req \in Nat /\ sock[cur].rcvd_res \in Nat
<1>1. /\ sock \in [Conns -> Counters] /\ cur \in Conns
      /\ k.sent_req \in Nat /\ k.rcvd_res \in Nat
      /\ sock[cur].sent_req \in Nat /\ sock[cur].rcvd_res \in Nat
  BY Current DEF Base, Shape, Counters
<1>2. sock'[cur] = k /\ \A c \in Conns \ {cur} : sock'[c] = sock[c]
  BY <1>1
<1>3. PICK i \in Conns : i = cur
  BY <1>1
<1> DEFINE f == Unclosed
           f1 == Unclosed'
           g == Answers
           g1 == Answers'
<1>4. f \in [Conns -> Nat] /\ g \in [Conns -> Nat] /\ f1 \in [Conns -> Nat] /\ g1 \in [Conns -> Nat]
      /\ OnTheWay' \in Nat /\ OnTheWay' <= Most
  <2>1. sock' \in [Conns -> Counters] /\ \A c \in Conns : Accounted(c, sock'[c])
    BY DEF Base, Shape, AllAccounted
  <2>2. f1 = [c \in Conns |-> sock'[c].sent_req] /\ g1 = [c \in Conns |-> sock'[c].rcvd_res]
    BY DEF Unclosed, Answers
  <2> HIDE DEF f1, g1
  <2>3. f1 \in [Conns -> Nat] /\ g1 \in [Conns -> Nat]
        /\ Tally(Conns, f1) \in Nat /\ Tally(Conns, f1) <= Most
    BY <2>1, <2>2, SumsOf
  <2> QED BY <2>3, SumTypes DEF f1, OnTheWay
<1>5. /\ \A c \in Conns \ {i} : f1[c] = f[c] /\ g1[c] = g[c]
      /\ f1[i] = k.sent_req /\ f[i] = sock[cur].sent_req
      /\ g1[i] = k.rcvd_res /\ g[i] = sock[cur].rcvd_res
  BY <1>2, <1>3 DEF Unclosed, Answers
<1>6. OnTheWay = Tally(Conns, f) /\ OnTheWay' = Tally(Conns, f1)
      /\ Tally(Conns, Answers)' = Tally(Conns, g1)
  BY DEF OnTheWay
<1> HIDE DEF f, f1, g1
<1>7. /\ Tally(Conns, f) \in Nat /\ Tally(Conns, f1) = Tally(Conns, f) + f1[i] - f[i]
      /\ f[i] <= Tally(Conns, f)
  BY <1>4, <1>5, ConnsFinite, TallyChange
<1> HIDE DEF g
<1>8. Tally(Conns, g) \in Nat /\ Tally(Conns, g1) = Tally(Conns, g) + g1[i] - g[i]
  BY <1>4, <1>5, ConnsFinite, TallyChange
<1> QED BY <1>1, <1>2, <1>4, <1>5, <1>6, <1>7, <1>8 DEF g

\* The next connection to send on.
LEMMA SendingSum ==
  ASSUME Base, Base', SumState, NextSend, NEW k \in Counters,
         sock' = [sock EXCEPT ![cur] = k], k.rcvd_res = sock[cur].rcvd_res,
         workload' = OnTheWay', \A c \in Conns : c > cur => sock[c].sent_req = 0
  PROVE  SumState'
<1>1. /\ all_fin' = Tally(Conns, Answers)' /\ OnTheWay' \in Nat /\ OnTheWay' <= Most
      /\ \A c \in Conns \ {cur} : sock'[c] = sock[c]
  <2>1. /\ Tally(Conns, Answers)' = Tally(Conns, Answers) + k.rcvd_res - sock[cur].rcvd_res
        /\ Tally(Conns, Answers) \in Nat /\ k.rcvd_res \in Nat /\ sock[cur].rcvd_res \in Nat
        /\ OnTheWay' \in Nat /\ OnTheWay' <= Most
        /\ \A c \in Conns \ {cur} : sock'[c] = sock[c]
    BY SumStep
  <2>2. all_fin' = all_fin /\ all_fin = Tally(Conns, Answers)
    BY DEF NextSend, SumState
  <2> QED BY <2>1, <2>2
<1>2. cur \in Nat /\ cur + 1 \in Nat /\ NConn \in Nat \ {0}
  BY Current, PeerAssumption DEF Conns
<1>3. CASE cur + 1 < NConn
  <2>1. cur + 1 \in 0..(NConn - 1)
    BY <1>2, <1>3
  <2>2. pc' = "send" /\ cur' = cur + 1
    BY <1>2, <1>3, <2>1, Remainder DEF NextSend
  <2>3. ASSUME NEW c \in Conns, c >= cur' PROVE sock'[c].sent_req = 0
    <3>1. c # cur /\ c > cur
      BY <1>2, <2>2, <2>3 DEF Conns
    <3> QED BY <1>1, <3>1
  <2> QED BY <1>1, <2>2, <2>3 DEF SumState
<1>4. CASE ~(cur + 1 < NConn)
  <2>1. pc' = "inner"
    BY <1>4 DEF NextSend
  <2> QED BY <1>1, <2>1 DEF SumState
<1> QED BY <1>3, <1>4

LEMMA SendSum == ASSUME Base, Base', SumState, Sending, pc' # "exit" PROVE SumState'
<1>1. Me \in Counters /\ Accounted(cur, Me) /\ sock = [sock EXCEPT ![cur] = Me] /\ cur \in Conns
      /\ Me = sock[cur] /\ cur \in Nat
  BY Current DEF Me, Conns
<1>2. /\ OnTheWay \in Nat /\ OnTheWay <= Most /\ Most \in Nat /\ Most < U32_MOD
      /\ U32_MOD \in Nat /\ Me.sent_req \in Nat
  BY <1>1, SumTypes DEF Counters
<1>3. pc = "send" => /\ workload = OnTheWay /\ Me.sent_req = 0
                     /\ \A c \in Conns : c > cur => sock[c].sent_req = 0
  <2> SUFFICES ASSUME pc = "send"
               PROVE  /\ workload = OnTheWay /\ Me.sent_req = 0
                      /\ \A c \in Conns : c > cur => sock[c].sent_req = 0
    OBVIOUS
  <2>1. workload = OnTheWay /\ \A c \in Conns : c >= cur => sock[c].sent_req = 0
    BY DEF SumState
  <2>2. cur >= cur /\ \A c \in Conns : c > cur => c >= cur
    BY <1>1 DEF Conns
  <2> QED BY <1>1, <2>1, <2>2
<1>4. pc = "burst" => /\ workload + Me.sent_req = OnTheWay
                      /\ \A c \in Conns : c > cur => sock[c].sent_req = 0
  BY <1>1 DEF SumState
<1>5. ASSUME NEW n \in Nat, Takes(n), n <= Me.unsent_req, Me.sent_req + n <= NUM_GAP
      PROVE  /\ sock' = [sock EXCEPT ![cur] = Issued(Me, n)] /\ Issued(Me, n) \in Counters
             /\ Issued(Me, n).rcvd_res = sock[cur].rcvd_res
             /\ OnTheWay' = OnTheWay + n /\ sock'[cur].sent_req = Me.sent_req + n
             /\ \A c \in Conns \ {cur} : sock'[c] = sock[c]
             /\ Tally(Conns, Answers)' = Tally(Conns, Answers)
  <2>1. /\ Issued(Me, n) \in Counters /\ Issued(Me, n).sent_req = Me.sent_req + n
        /\ Issued(Me, n).rcvd_res = Me.rcvd_res
        /\ sock' = [sock EXCEPT ![cur] = Issued(Me, n)]
    BY <1>1, <1>5, IssuedType DEF Takes
  <2>2. /\ OnTheWay' = OnTheWay + Issued(Me, n).sent_req - sock[cur].sent_req
        /\ Tally(Conns, Answers)' = Tally(Conns, Answers) + Issued(Me, n).rcvd_res - sock[cur].rcvd_res
        /\ Tally(Conns, Answers) \in Nat /\ sock[cur].rcvd_res \in Nat
        /\ sock'[cur] = Issued(Me, n) /\ \A c \in Conns \ {cur} : sock'[c] = sock[c]
    BY <2>1, SumStep
  <2> QED BY <1>1, <1>2, <2>1, <2>2
<1>6. CASE SendSkip
  <2>1. /\ pc = "send" /\ NextSend /\ sock' = sock
        /\ workload' = IF ENABLE_PIPE THEN workload ELSE U32(workload + Me.sent_req)
    BY <1>6 DEF SendSkip
  <2>2. OnTheWay' = OnTheWay
    BY <2>1 DEF OnTheWay, Unclosed
  <2>3. workload + Me.sent_req = OnTheWay /\ workload = OnTheWay
    BY <1>2, <1>3, <2>1
  <2>4. OnTheWay \in 0..(U32_MOD - 1) /\ U32_MOD \in Nat
    BY <1>2
  <2>5. workload' = OnTheWay'
    BY <2>1, <2>2, <2>3, <2>4, Unwrapped DEF U32
  <2> QED BY <1>1, <1>3, <2>1, <2>5, SendingSum
<1>7. CASE SendOne
  <2>1. /\ pc = "send" /\ Takes(1) /\ workload' = workload + 1 /\ NextSend /\ Me.unsent_req > 0
    BY <1>7 DEF SendOne, Send, Takes, Issued
  <2>2. 1 <= Me.unsent_req /\ Me.sent_req + 1 <= NUM_GAP
    BY <1>1, <1>3, <2>1, BlockingAssumption DEF Counters
  <2>3. workload' = OnTheWay'
    BY <1>2, <1>3, <1>5, <2>1, <2>2
  <2> QED BY <1>3, <1>5, <2>1, <2>2, <2>3, SendingSum
<1>8. CASE SendFast
  <2>1. /\ pc = "send" /\ Takes(Round) /\ workload' = workload + Round /\ NextSend
    BY <1>8 DEF SendFast, Send, Takes, Issued
  <2>2. Round \in Nat /\ Round <= Me.unsent_req /\ Me.sent_req + Round <= NUM_GAP
    BY <1>3, <2>1, RoundType
  <2>3. workload' = OnTheWay'
    BY <1>2, <1>3, <1>5, <2>1, <2>2
  <2> QED BY <1>3, <1>5, <2>1, <2>2, <2>3, SendingSum
<1>9. CASE StartBurst
  <2>1. pc = "send" /\ pc' = "burst" /\ UNCHANGED <<sock, workload, all_fin, cur>>
    BY <1>9 DEF StartBurst
  <2>2. OnTheWay' = OnTheWay /\ Tally(Conns, Answers)' = Tally(Conns, Answers)
    BY <2>1 DEF OnTheWay, Unclosed, Answers
  <2>3. workload + sock[cur].sent_req = OnTheWay /\ all_fin = Tally(Conns, Answers)
    BY <1>1, <1>2, <1>3, <2>1 DEF SumState
  <2> QED BY <1>3, <2>1, <2>2, <2>3 DEF SumState
<1>10. CASE SendBurst
  <2>1. /\ pc = "burst" /\ Takes(1)
        /\ IF burst = 1
             THEN workload' = workload + sock'[cur].sent_req /\ NextSend
             ELSE UNCHANGED <<pc, cur, workload, all_fin>>
    BY <1>10 DEF SendBurst, Send, Takes, Issued
  <2>2. 1 <= Me.unsent_req /\ Me.sent_req + 1 <= NUM_GAP
    <3>1. /\ burst >= 1 /\ burst <= Me.unsent_req /\ burst \in Nat /\ Me.unsent_req \in Nat
          /\ Me.sent_req + burst <= NUM_GAP /\ NUM_GAP \in Nat
      BY <1>1, <2>1, Current, BlockingAssumption DEF Base, BurstFits, Counters
    <3> QED BY <1>2, <3>1
  <2>3. /\ OnTheWay' = OnTheWay + 1 /\ sock'[cur].sent_req = Me.sent_req + 1
        /\ workload + Me.sent_req = OnTheWay /\ workload \in Int
    BY <1>4, <1>5, <2>1, <2>2, Current
  <2>4. workload + sock'[cur].sent_req = OnTheWay'
    BY <1>2, <2>3
  <2>5. CASE burst = 1
    BY <1>4, <1>5, <2>1, <2>2, <2>4, <2>5, SendingSum
  <2>6. CASE burst # 1
    <3>1. pc' = "burst" /\ UNCHANGED <<cur, workload, all_fin>>
      BY <2>1, <2>6
    <3>2. ASSUME NEW c \in Conns, c > cur' PROVE sock'[c].sent_req = 0
      <4>1. c # cur /\ c > cur
        BY <1>1, <3>1, <3>2 DEF Conns
      <4> QED BY <1>4, <1>5, <2>1, <2>2, <4>1
    <3>3. all_fin' = Tally(Conns, Answers)'
      BY <1>5, <2>1, <2>2, <3>1 DEF SumState
    <3> QED BY <2>4, <3>1, <3>2, <3>3 DEF SumState
  <2> QED BY <2>5, <2>6
<1> QED BY <1>6, <1>7, <1>8, <1>9, <1>10 DEF Sending

\* A step outside of the sending loop that moves no request.
LEMMA WaitSum ==
  ASSUME Base, Base', SumState, pc \notin {"send", "burst"}, pc' \notin {"send", "burst", "end"},
         NEW k \in Counters, sock' = [sock EXCEPT ![cur] = k],
         k.sent_req = sock[cur].sent_req, k.rcvd_res = sock[cur].rcvd_res,
         UNCHANGED <<workload, all_fin>>
  PROVE  SumState'
<1>1. /\ OnTheWay' = OnTheWay + k.sent_req - sock[cur].sent_req
      /\ Tally(Conns, Answers)' = Tally(Conns, Answers) + k.rcvd_res - sock[cur].rcvd_res
      /\ OnTheWay \in Nat /\ Tally(Conns, Answers) \in Nat
      /\ sock[cur].sent_req \in Nat /\ sock[cur].rcvd_res \in Nat
  BY SumStep
<1>2. OnTheWay' = OnTheWay /\ Tally(Conns, Answers)' = Tally(Conns, Answers)
  BY <1>1
<1> QED BY <1>2 DEF SumState, Settled

LEMMA WaitingSum == ASSUME Base, Base', SumState, Waiting PROVE SumState'
<1>1. Me \in Counters /\ Accounted(cur, Me) /\ sock = [sock EXCEPT ![cur] = Me] /\ Me = sock[cur]
  BY Current DEF Me
<1>2. CASE RoundOver
  <2>1. /\ pc = "inner" /\ workload = 0
        /\ pc' = IF all_fin < TOTAL_REQ THEN "send" ELSE "end"
        /\ UNCHANGED <<cur, sock, workload, all_fin>>
    BY <1>2 DEF RoundOver
  <2>2. OnTheWay' = OnTheWay /\ Tally(Conns, Answers)' = Tally(Conns, Answers)
    BY <2>1 DEF OnTheWay, Unclosed, Answers
  <2>3. OnTheWay = 0 /\ Unclosed \in [Conns -> Nat] /\ TOTAL_REQ \in Nat /\ all_fin \in Int
    BY <2>1, SumTypes, Current, BlockingAssumption DEF SumState
  <2>4. \A c \in Conns : sock[c].sent_req = 0
    <3>1. \A c \in Conns : Unclosed[c] = 0
      BY <2>3, ConnsFinite, TallyZero DEF OnTheWay
    <3> QED BY <3>1 DEF Unclosed
  <2> QED BY <2>1, <2>2, <2>3, <2>4 DEF SumState
<1>3. CASE Poll \/ PollTimeout
  <2>1. /\ pc = "inner" /\ pc' \in {"inner", "parse", "timeout"}
        /\ UNCHANGED <<sock, workload, all_fin>>
    BY <1>3 DEF Poll, PollTimeout, LookAt
  <2> QED BY <1>1, <2>1, WaitSum
<1>4. CASE CheckTimeout
  <2>1. /\ pc = "timeout" /\ UNCHANGED <<workload, all_fin>>
        /\ Reconnect(Me) \/ (NextTimeout /\ UNCHANGED sock)
    BY <1>4 DEF CheckTimeout
  <2>2. CASE Reconnect(Me)
    <3>1. sock' = [sock EXCEPT ![cur] = Replaced(Me)] /\ pc' = "connect"
      BY <2>2 DEF Reconnect, Replaced
    <3>2. Replaced(Me) \in Counters /\ Replaced(Me).sent_req = Me.sent_req
          /\ Replaced(Me).rcvd_res = Me.rcvd_res
      BY <1>1, ReplacedType
    <3> QED BY <1>1, <2>1, <3>1, <3>2, WaitSum
  <2>3. CASE NextTimeout /\ UNCHANGED sock
    <3>1. pc' \in {"timeout", "inner"}
      BY <2>3 DEF NextTimeout
    <3> QED BY <1>1, <2>1, <2>3, <3>1, WaitSum
  <2> QED BY <2>1, <2>2, <2>3
<1>5. CASE ConnectReturns
  <2> DEFINE u == net[cur].err # "REFUSED"
             k == [Me EXCEPT !.up = u]
  <2>1. /\ pc = "connect" /\ sock' = [sock EXCEPT ![cur].up = u]
        /\ UNCHANGED <<workload, all_fin>> /\ pc' \in {"timeout", "inner", "parse"}
    BY <1>5 DEF ConnectReturns, NextTimeout, LookAt
  <2>2. sock' = [sock EXCEPT ![cur] = k] /\ u \in BOOLEAN
    BY <2>1 DEF Me
  <2> HIDE DEF u
  <2>3. k \in Counters /\ k.sent_req = Me.sent_req /\ k.rcvd_res = Me.rcvd_res
    BY <1>1, <2>2 DEF Counters
  <2> HIDE DEF k
  <2> QED BY <1>1, <2>1, <2>2, <2>3, WaitSum
<1> QED BY <1>2, <1>3, <1>4, <1>5 DEF Waiting

LEMMA ReceivingSum == ASSUME Base, Base', SumState, Receiving PROVE SumState'
<1>1. /\ pc = "parse" /\ UNCHANGED <<sock, workload, all_fin>> /\ pc' \in {"parse", "dispatch"}
  BY DEF Receiving, ParseToken, ParseFinish, NothingExpected, Recv, RecvEof, RecvError,
     Parsing, Returns
<1>2. sock[cur] \in Counters /\ sock' = [sock EXCEPT ![cur] = sock[cur]]
  BY <1>1, Current
<1> QED BY <1>1, <1>2, WaitSum

\* n responses are counted, d requests leave the connection, e the workload.
LEMMA AnswerSum ==
  ASSUME Base, Base', SumState, pc = "dispatch", pc' \in {"inner", "parse", "connect"},
         NEW k \in Counters, sock' = [sock EXCEPT ![cur] = k],
         NEW n \in Nat, NEW d \in Nat, NEW e \in Nat, e <= d, d <= Me.sent_req,
         k.sent_req = Me.sent_req - d, k.rcvd_res = Me.rcvd_res + n,
         all_fin' = all_fin + n, workload' = U32(workload - e), Settled => e = d
  PROVE  SumState'
<1>1. /\ OnTheWay' = OnTheWay + k.sent_req - sock[cur].sent_req
      /\ Tally(Conns, Answers)' = Tally(Conns, Answers) + k.rcvd_res - sock[cur].rcvd_res
      /\ sock[cur].sent_req <= OnTheWay
      /\ OnTheWay \in Nat /\ Tally(Conns, Answers) \in Nat
      /\ sock[cur].sent_req \in Nat /\ sock[cur].rcvd_res \in Nat /\ Me = sock[cur]
  BY SumStep DEF Me
<1>2. /\ all_fin = Tally(Conns, Answers) /\ OnTheWay <= workload /\ workload <= Most
      /\ Settled => workload = OnTheWay
  BY DEF SumState
<1>3. workload \in Int /\ Most \in Nat /\ U32_MOD \in Nat /\ Most < U32_MOD
  BY Current, SumTypes
<1>4. OnTheWay' = OnTheWay - d /\ all_fin' = Tally(Conns, Answers)'
  BY <1>1, <1>2
<1>5. workload - e \in 0..(U32_MOD - 1) /\ OnTheWay - d <= workload - e
      /\ workload - e <= Most
  BY <1>1, <1>2, <1>3
<1>6. workload' = workload - e
  BY <1>3, <1>5, Unwrapped DEF U32
<1>7. Settled => workload' = OnTheWay'
  BY <1>2, <1>4, <1>6
<1> QED BY <1>4, <1>5, <1>6, <1>7 DEF SumState, Settled

LEMMA AnsweringSum ==
  ASSUME Base, Base', SumState, Answering, pc' # "exit"
  PROVE  SumState'
<1>1. CASE DispatchAnswered
  <2>1. PICK n \in NumResp :
          LET k == Credited(Me, n)
          IN  /\ Dispatch({"POLL_DATA", "CLOSE"} \cup (IF ENABLE_PIPE THEN {} ELSE {"NOT_SUPPORT"}), n)
              /\ IF MustReplace(k)
                   THEN /\ workload' = U32(workload - n - GivenUp(k))
                        /\ Reconnect([k EXCEPT !.sent_req = 0])
                   ELSE /\ workload' = U32(workload - n)
                        /\ sock' = [sock EXCEPT ![cur] = k]
                        /\ LookAt(revents)
    BY <1>1 DEF DispatchAnswered
  <2> DEFINE k == Credited(Me, n)
  <2>2. call.rcode # "REDIRECT"
    BY <2>1 DEF Dispatch
  <2>3. /\ pc = "dispatch" /\ n \in Nat /\ n <= Me.sent_req /\ Me \in Counters
        /\ Accounted(cur, Me) /\ Me.sent_req \in Nat /\ all_fin' = all_fin + n
    BY <2>1, <2>2, DispatchFacts
  <2>4. k \in Counters /\ k.sent_req = Me.sent_req - n /\ k.rcvd_res = Me.rcvd_res + n
    BY <2>3, CreditedType
  <2>5. CASE MustReplace(k)
    <3> DEFINE j == Replaced(Abandoned(Me, n))
    <3>1. /\ sock' = [sock EXCEPT ![cur] = j] /\ pc' = "connect"
          /\ workload' = U32(workload - n - GivenUp(k))
      BY <2>1, <2>5 DEF Reconnect, Replaced, Abandoned
    <3>2. j \in Counters /\ j.sent_req = 0 /\ j.rcvd_res = Me.rcvd_res + n
      <4>1. /\ Abandoned(Me, n) \in Counters /\ Accounted(cur, Abandoned(Me, n))
            /\ Abandoned(Me, n).sent_req = 0 /\ Abandoned(Me, n).rcvd_res = Me.rcvd_res + n
        BY <2>3, AbandonedType
      <4> QED BY <4>1, ReplacedType
    <3>3. workload - n - GivenUp(k) = workload - Me.sent_req /\ workload \in Int
      BY <2>3, <2>4, Current DEF GivenUp
    <3> HIDE DEF j, k
    <3>4. workload' = U32(workload - Me.sent_req) /\ Me.sent_req <= Me.sent_req
          /\ j.sent_req = Me.sent_req - Me.sent_req
      BY <2>3, <3>1, <3>2, <3>3
    <3> QED BY <2>3, <3>1, <3>2, <3>4, AnswerSum
  <2>6. CASE ~MustReplace(k)
    <3>1. /\ sock' = [sock EXCEPT ![cur] = k] /\ pc' \in {"inner", "parse"}
          /\ workload' = U32(workload - n) /\ n <= n
      BY <2>1, <2>3, <2>6 DEF LookAt
    <3> HIDE DEF k
    <3> QED BY <2>3, <2>4, <3>1, AnswerSum
  <2> QED BY <2>5, <2>6
<1>2. CASE DispatchAbandon
  <2>1. PICK n \in NumResp :
          /\ ENABLE_PIPE /\ Dispatch({"CLIENT_ERR", "ERROR"}, n)
          /\ workload' = U32(workload - n)
          /\ Reconnect(Abandoned(Me, n))
    BY <1>2 DEF DispatchAbandon, Abandoned
  <2> DEFINE j == Replaced(Abandoned(Me, n))
  <2>2. call.rcode \in {"CLIENT_ERR", "ERROR"} /\ call.rcode # "REDIRECT"
    BY <2>1 DEF Dispatch
  <2>3. /\ pc = "dispatch" /\ n \in Nat /\ n <= Me.sent_req /\ Me \in Counters
        /\ Accounted(cur, Me) /\ Me.sent_req \in Nat /\ all_fin' = all_fin + n
    BY <2>1, <2>2, DispatchFacts
  <2>4. ~Settled
    BY <2>1, <2>2, <2>3 DEF Base, CallState, Settled
  <2>5. sock' = [sock EXCEPT ![cur] = j] /\ pc' = "connect"
    BY <2>1 DEF Reconnect, Replaced
  <2>6. j \in Counters /\ j.sent_req = 0 /\ j.rcvd_res = Me.rcvd_res + n
    <3>1. /\ Abandoned(Me, n) \in Counters /\ Accounted(cur, Abandoned(Me, n))
          /\ Abandoned(Me, n).sent_req = 0 /\ Abandoned(Me, n).rcvd_res = Me.rcvd_res + n
      BY <2>3, AbandonedType
    <3> QED BY <3>1, ReplacedType
  <2> HIDE DEF j
  <2>7. j.sent_req = Me.sent_req - Me.sent_req /\ Me.sent_req <= Me.sent_req
    BY <2>3, <2>6
  <2> QED BY <2>1, <2>3, <2>4, <2>5, <2>6, <2>7, AnswerSum
<1>3. CASE DispatchIgnored
  <2>1. ~Orderly /\ ENABLE_PIPE
    <3>1. ~Orderly
      BY <1>3, NothingIgnored
    <3> QED BY <3>1, Current DEF Accounted, Narrow
  <2>2. PICK n \in NumResp :
          /\ Dispatch({"NOT_SUPPORT"}, n) /\ workload' = U32(workload - n)
          /\ sock' = [sock EXCEPT ![cur] = Credited(Me, n)] /\ LookAt(revents)
    BY <1>3, <2>1 DEF DispatchIgnored, Me
  <2> DEFINE k == Credited(Me, n)
  <2>3. call.rcode # "REDIRECT" /\ pc' \in {"inner", "parse"}
    BY <2>2 DEF Dispatch, LookAt
  <2>4. /\ pc = "dispatch" /\ n \in Nat /\ n <= Me.sent_req /\ Me \in Counters
        /\ Accounted(cur, Me) /\ Me.sent_req \in Nat /\ all_fin' = all_fin + n
    BY <2>2, <2>3, DispatchFacts
  <2>5. k \in Counters /\ k.sent_req = Me.sent_req - n /\ k.rcvd_res = Me.rcvd_res + n
    BY <2>4, CreditedType
  <2>6. sock' = [sock EXCEPT ![cur] = k] /\ n <= n
    BY <2>2, <2>4
  <2> HIDE DEF k
  <2> QED BY <2>2, <2>3, <2>4, <2>5, <2>6, AnswerSum
<1>4. ~DispatchExit
  BY DEF DispatchExit
<1> QED BY <1>1, <1>2, <1>3, <1>4 DEF Answering

LEMMA InitSum == ASSUME Init, Base PROVE SumState
<1>1. \A c \in Conns : sock[c].sent_req = 0 /\ sock[c].rcvd_res = 0
  BY DEF Init
<1>2. Unclosed \in [Conns -> Nat] /\ Answers \in [Conns -> Nat]
      /\ \A c \in Conns : Unclosed[c] = 0 /\ Answers[c] = 0
  BY <1>1 DEF Unclosed, Answers
<1>3. OnTheWay = 0 /\ Tally(Conns, Answers) = 0
  BY <1>2, ConnsFinite, TallyZero DEF OnTheWay
<1> QED BY <1>1, <1>3 DEF Init, SumState

LEMMA NextSum == ASSUME IInv, IInv', SInv, [Next]_vars PROVE SInv'
<1>1. CASE UNCHANGED vars
  BY <1>1 DEF vars, progVars, SInv, SumState, OnTheWay, Unclosed, Answers, Settled
<1>2. CASE pc # "exit" /\ Program
  <2> SUFFICES ASSUME pc' # "exit" PROVE SumState'
    BY DEF SInv
  <2>1. Base /\ Base' /\ SumState
    BY <1>2 DEF IInv, SInv
  <2> QED BY <1>2, <2>1, SendSum, WaitingSum, ReceivingSum, AnsweringSum DEF Program
<1>3. CASE Peer
  BY <1>3 DEF Peer, FromPeer, Over, progVars, SInv, SumState, OnTheWay, Unclosed, Answers, Settled
<1>4. pc \in {"end", "exit"} => ~Program
  BY NoStepAfterEnd
<1> QED BY <1>1, <1>2, <1>3, <1>4 DEF Next, Finished

LEMMA SumInvariant == ASSUME Bounded PROVE Spec => []SInv
<1>1. Init => SInv
  BY InitInv, InitSum DEF SInv
<1>2. IInv /\ IInv' /\ SInv /\ [Next]_vars => SInv'
  BY NextSum
<1> QED BY <1>1, <1>2, Invariant, PTL DEF Spec

-----------------------------------------------------------------------------
(* What one step does to the counters of the current connection, as        *)
(* LoadGen sees it.                                                        *)

\* exit() aborts the run, whatever the counters have just become.
LEMMA AbortStep == ASSUME ~Over, pc' = "exit" PROVE LG!Next
<1>1. \A c \in Conns : Share(c) - 0 = Share(c)
  BY ShareType
<1>2. Aborted' /\ Over'
  BY DEF Aborted, Over
<1>3. LG!Abort
  BY <1>1, <1>2 DEF LG!Abort
<1> QED BY <1>3 DEF LG!Next

LEMMA StillStep ==
  ASSUME ~Over, pc' # "exit", sock' = sock
  PROVE  [LG!Next]_(LG!lgVars)
<1>1. CASE Over'
  BY <1>1 DEF LG!Next, LG!Stop, Over, Aborted
<1>2. CASE ~Over'
  BY <1>2 DEF LG!lgVars, Over, Aborted
<1> QED BY <1>1, <1>2

\* n answers are counted, the other requests stay on their way or are given up.
LEMMA SettleStep ==
  ASSUME Base, ~Over, pc' # "exit", NEW k, NEW n \in Nat, n <= Me.sent_req,
         sock' = [sock EXCEPT ![cur] = k],
         k.rcvd_res = Me.rcvd_res + n, k.sent_req \in {Me.sent_req - n, 0}
  PROVE  [LG!Next]_(LG!lgVars)
<1> DEFINE todo   == [c \in Conns |-> Share(c) - (IF Aborted THEN 0 ELSE sock[c].rcvd_res)]
           issued == [c \in Conns |-> IF Aborted THEN 0 ELSE sock[c].sent_req]
<1>0. /\ todo = [c \in Conns |-> Share(c) - sock[c].rcvd_res]
      /\ issued = [c \in Conns |-> sock[c].sent_req]
      /\ todo' = [c \in Conns |-> Share(c) - sock'[c].rcvd_res]
      /\ issued' = [c \in Conns |-> sock'[c].sent_req]
  BY DEF Over, Aborted
<1>1. PICK me \in Conns : me = cur
  BY Current
<1>2. /\ sock \in [Conns -> Counters] /\ Me = sock[me]
      /\ Me.sent_req \in Nat /\ Me.rcvd_res \in Nat /\ Share(me) \in Nat
  BY <1>1, ShareType DEF Base, Shape, Me, Counters
<1>3. /\ \A c \in Conns \ {me} : sock'[c] = sock[c]
      /\ sock'[me] = k
  BY <1>1, <1>2
<1>4. Share(me) - k.rcvd_res = Share(me) - Me.rcvd_res - n
  BY <1>2
<1>5. todo' = [todo EXCEPT ![me] = @ - n]
  <2> DEFINE v == Share(me) - k.rcvd_res
  <2>1. todo' = [todo EXCEPT ![me] = v]
    <3>1. \A c \in Conns : Share(c) - sock'[c].rcvd_res
                           = IF c = me THEN v ELSE Share(c) - sock[c].rcvd_res
      BY <1>3
    <3> HIDE DEF v
    <3>2. todo' = [c \in Conns |-> IF c = me THEN v ELSE Share(c) - sock[c].rcvd_res]
      BY <1>0, <3>1
    <3>3. \A c \in Conns : todo[c] = Share(c) - sock[c].rcvd_res
      BY <1>0
    <3>4. todo' = [c \in Conns |-> IF c = me THEN v ELSE todo[c]]
      BY <3>2, <3>3
    <3>5. DOMAIN todo = Conns
      BY <1>0
    <3> HIDE DEF todo
    <3> QED BY <3>4, <3>5
  <2>2. v = todo[me] - n
    BY <1>0, <1>2, <1>4
  <2> HIDE DEF todo, v
  <2> QED BY <2>1, <2>2
<1>6. \/ issued' = [issued EXCEPT ![me] = @ - n]
      \/ issued' = [issued EXCEPT ![me] = 0]
  <2> DEFINE v == k.sent_req
  <2>1. issued' = [issued EXCEPT ![me] = v]
    BY <1>0, <1>2, <1>3
  <2>2. issued[me] = Me.sent_req
    BY <1>0, <1>2
  <2> HIDE DEF issued, v
  <2>3. CASE v = 0
    BY <2>1, <2>3
  <2>4. CASE v = Me.sent_req - n
    BY <2>1, <2>2, <2>4
  <2> QED BY <2>3, <2>4 DEF v
<1>7. n \in 0..issued[me]
  BY <1>0, <1>2
<1>8. Over' \in BOOLEAN
  BY DEF Over
<1>9. LG!Settle(me)
  BY <1>5, <1>6, <1>7, <1>8 DEF LG!Settle
<1> QED BY <1>9 DEF LG!Next

LEMMA IssueStep ==
  ASSUME Orderly, Base, ~Over, pc' # "exit", NEW n \in Nat, n <= Me.unsent_req, Me.sent_req + n <= NUM_GAP,
         Takes(n)
  PROVE  [LG!Next]_(LG!lgVars)
<1> DEFINE todo   == [c \in Conns |-> Share(c) - (IF Aborted THEN 0 ELSE sock[c].rcvd_res)]
           issued == [c \in Conns |-> IF Aborted THEN 0 ELSE sock[c].sent_req]
           k      == Issued(Me, n)
<1>0. /\ todo = [c \in Conns |-> Share(c) - sock[c].rcvd_res]
      /\ issued = [c \in Conns |-> sock[c].sent_req]
      /\ todo' = [c \in Conns |-> Share(c) - sock'[c].rcvd_res]
      /\ issued' = [c \in Conns |-> sock'[c].sent_req]
  BY DEF Over, Aborted
<1>1. PICK me \in Conns : me = cur
  BY Current
<1>2. /\ sock \in [Conns -> Counters] /\ Me = sock[me] /\ Me \in Counters /\ Accounted(cur, Me)
      /\ Me.sent_req \in Nat /\ Me.rcvd_res \in Nat /\ Me.unsent_req \in Nat /\ Share(me) \in Nat
  BY <1>1, Current, ShareType DEF Base, Shape, Me, Counters
<1>3. k.sent_req = Me.sent_req + n /\ k.rcvd_res = Me.rcvd_res
  BY <1>2, IssuedType
<1>4. sock' = [sock EXCEPT ![cur] = k]
  BY DEF Takes
<1> HIDE DEF k
<1>5. CASE n = 0
  <2>1. k.rcvd_res = Me.rcvd_res + 0 /\ k.sent_req = Me.sent_req - 0 /\ 0 <= Me.sent_req
    BY <1>2, <1>3, <1>5
  <2> QED BY <1>4, <2>1, SettleStep
<1>6. CASE n # 0
  <2>1. \A c \in Conns \ {me} : sock'[c] = sock[c]
    BY <1>1, <1>2, <1>4
  <2>2. sock'[me] = k
    BY <1>1, <1>2, <1>4
  <2>3. issued' = [issued EXCEPT ![me] = @ + n] /\ todo' = todo
    <3> DEFINE v == k.sent_req
    <3>1. issued' = [issued EXCEPT ![me] = v]
      <4>1. \A c \in Conns : sock'[c].sent_req = IF c = me THEN v ELSE sock[c].sent_req
        BY <2>1, <2>2
      <4> HIDE DEF v
      <4>2. issued' = [c \in Conns |-> IF c = me THEN v ELSE sock[c].sent_req]
        BY <1>0, <4>1
      <4>3. \A c \in Conns : issued[c] = sock[c].sent_req
        BY <1>0
      <4>4. issued' = [c \in Conns |-> IF c = me THEN v ELSE issued[c]]
        BY <4>2, <4>3
      <4>5. DOMAIN issued = Conns
        BY <1>0
      <4> HIDE DEF issued
      <4> QED BY <4>4, <4>5
    <3>2. v = issued[me] + n
      BY <1>0, <1>2, <1>3
    <3>3. \A c \in Conns : sock'[c].rcvd_res = sock[c].rcvd_res
      BY <1>2, <1>3, <2>1, <2>2
    <3>4. todo' = todo
      BY <1>0, <3>3
    <3> HIDE DEF issued, v, todo
    <3> QED BY <3>1, <3>2, <3>4
  <2>4. todo[me] - issued[me] = Me.unsent_req
    <3>1. Me.rcvd_res + Me.unsent_req + Me.sent_req = Share(me)
      BY <1>1, <1>2 DEF Accounted
    <3>2. Share(me) - Me.rcvd_res - Me.sent_req = Me.unsent_req
      BY <1>2, <3>1
    <3> QED BY <1>0, <1>2, <3>2
  <2>5. n \in 1..(todo[me] - issued[me])
    BY <1>2, <1>6, <2>4
  <2>6. Over' \in BOOLEAN
    BY DEF Over
  <2>7. LG!Issue(me)
    BY <2>3, <2>5, <2>6 DEF LG!Issue
  <2> QED BY <2>7 DEF LG!Next
<1> QED BY <1>5, <1>6

LEMMA SendingStep ==
  ASSUME Orderly, Base, Sending, ~Over, pc' # "exit"
  PROVE  [LG!Next]_(LG!lgVars)
<1>1. CASE SendSkip \/ StartBurst
  BY <1>1, StillStep DEF SendSkip, StartBurst
<1>2. Me.unsent_req \in Nat /\ Me.sent_req \in Nat /\ NUM_GAP \in Nat \ {0}
  BY Current, BlockingAssumption DEF Me, Counters
<1>3. CASE SendOne
  <2>1. Takes(1) \/ sock' = sock
    BY <1>3 DEF SendOne, Send, Takes, Issued
  <2>2. 1 <= Me.unsent_req /\ Me.sent_req + 1 <= NUM_GAP
    BY <1>2, <1>3 DEF SendOne
  <2> QED BY <2>1, <2>2, IssueStep, StillStep
<1>4. CASE SendBurst
  <2>1. Takes(1) \/ sock' = sock
    BY <1>4 DEF SendBurst, Send, Takes, Issued
  <2>2. pc = "burst"
    BY <1>4 DEF SendBurst
  <2>3. /\ burst >= 1 /\ burst <= Me.unsent_req /\ burst \in Nat
        /\ Me.sent_req + burst <= NUM_GAP
    BY <2>2, Current DEF Base, BurstFits, Me
  <2>4. 1 <= Me.unsent_req /\ Me.sent_req + 1 <= NUM_GAP
    BY <1>2, <2>3
  <2> QED BY <2>1, <2>4, IssueStep, StillStep
<1>5. CASE SendFast
  <2>1. (Takes(Round) \/ sock' = sock) /\ Me.sent_req = 0
    BY <1>5 DEF SendFast, Send, Takes, Issued
  <2> QED BY <2>1, RoundType, IssueStep, StillStep
<1> QED BY <1>1, <1>3, <1>4, <1>5 DEF Sending

LEMMA WaitingStep ==
  ASSUME Base, Waiting, ~Over, pc' # "exit"
  PROVE  [LG!Next]_(LG!lgVars)
<1>1. Me \in Counters /\ Accounted(cur, Me) /\ Me.sent_req \in Nat /\ Me.rcvd_res \in Nat
  BY Current DEF Me, Counters
<1>2. CASE sock' = sock
  BY <1>2, StillStep
<1>3. ASSUME NEW k, sock' = [sock EXCEPT ![cur] = k],
             k.sent_req = Me.sent_req, k.rcvd_res = Me.rcvd_res
      PROVE  [LG!Next]_(LG!lgVars)
  <2>1. k.rcvd_res = Me.rcvd_res + 0 /\ k.sent_req = Me.sent_req - 0 /\ 0 <= Me.sent_req
    BY <1>1, <1>3
  <2> QED BY <1>3, <2>1, SettleStep
<1>4. CASE CheckTimeout
  <2>1. sock' = [sock EXCEPT ![cur] = Replaced(Me)] \/ sock' = sock
    BY <1>4 DEF CheckTimeout, Reconnect, Replaced
  <2> QED BY <1>1, <1>2, <1>3, <2>1, ReplacedType
<1>5. CASE ConnectReturns
  <2> DEFINE u == net[cur].err # "REFUSED"
             k == [Me EXCEPT !.up = u]
  <2>1. sock' = [sock EXCEPT ![cur] = k]
    BY <1>5 DEF ConnectReturns, Me
  <2>2. k.sent_req = Me.sent_req /\ k.rcvd_res = Me.rcvd_res
    BY <1>1 DEF Counters
  <2> HIDE DEF k
  <2> QED BY <1>3, <2>1, <2>2
<1> QED BY <1>2, <1>4, <1>5 DEF Waiting, RoundOver, Poll, PollTimeout

LEMMA AnsweringStep ==
  ASSUME Orderly, Base, Answering, ~Over, pc' # "exit"
  PROVE  [LG!Next]_(LG!lgVars)
<1>1. PICK n \in NumResp :
        /\ pc = "dispatch" /\ call.rcode # "REDIRECT"
        /\ \/ sock' = [sock EXCEPT ![cur] = Credited(Me, n)]
           \/ sock' = [sock EXCEPT ![cur] = Replaced(Abandoned(Me, n))]
        /\ \E rcodes : Dispatch(rcodes, n)
  <2>1. CASE DispatchAnswered
    BY <2>1 DEF DispatchAnswered, Reconnect, Replaced, Abandoned, Dispatch
  <2>2. CASE DispatchAbandon
    BY <2>2 DEF DispatchAbandon, Reconnect, Replaced, Abandoned, Dispatch
  <2>3. ~DispatchExit
    BY DEF DispatchExit
  <2>4. ~DispatchIgnored
    BY NothingIgnored
  <2> QED BY <2>1, <2>2, <2>3, <2>4 DEF Answering
<1>2. /\ Me \in Counters /\ Accounted(cur, Me) /\ Me.sent_req \in Nat /\ Me = sock[cur]
      /\ call.fin_resp \in Nat
  BY Current, InCall, <1>1 DEF Me, Counters
<1>3. n \in Nat /\ n <= Me.sent_req
  BY <1>1, DispatchFacts
<1>4. /\ Credited(Me, n).sent_req = Me.sent_req - n /\ Credited(Me, n).rcvd_res = Me.rcvd_res + n
      /\ Abandoned(Me, n).sent_req = 0 /\ Abandoned(Me, n).rcvd_res = Me.rcvd_res + n
      /\ Abandoned(Me, n) \in Counters /\ Accounted(cur, Abandoned(Me, n))
  BY <1>2, <1>3, CreditedType, AbandonedType
<1>5. CASE sock' = [sock EXCEPT ![cur] = Credited(Me, n)]
  BY <1>3, <1>4, <1>5, SettleStep
<1>6. CASE sock' = [sock EXCEPT ![cur] = Replaced(Abandoned(Me, n))]
  <2>1. /\ Replaced(Abandoned(Me, n)).sent_req = 0
        /\ Replaced(Abandoned(Me, n)).rcvd_res = Me.rcvd_res + n
    BY <1>4, ReplacedType
  <2> QED BY <1>3, <1>6, <2>1, SettleStep
<1> QED BY <1>1, <1>5, <1>6

LEMMA EveryStep ==
  ASSUME Orderly, IInv, [Next]_vars
  PROVE  [LG!Next]_(LG!lgVars)
<1>1. CASE UNCHANGED vars \/ Peer
  <2>1. sock' = sock /\ pc' = pc
    BY <1>1 DEF vars, progVars, Peer, FromPeer
  <2> QED BY <2>1 DEF LG!lgVars, Over, Aborted
<1>2. CASE Program /\ ~Over /\ pc' = "exit"
  BY <1>2, AbortStep
<1>3. CASE Program /\ ~Over /\ pc' # "exit"
  <2>1. Base
    BY <1>3 DEF Over, IInv
  <2>2. CASE Receiving
    <3>1. sock' = sock
      BY <2>2 DEF Receiving, ParseToken, ParseFinish, NothingExpected, Recv, RecvEof, RecvError,
         Parsing
    <3> QED BY <1>3, <3>1, StillStep
  <2> QED BY <1>3, <2>1, <2>2, SendingStep, WaitingStep, AnsweringStep DEF Program
<1>4. Over => ~Program
  BY NoStepAfterEnd DEF Over
<1> QED BY <1>1, <1>2, <1>3, <1>4 DEF Next, Finished

-----------------------------------------------------------------------------
(* Theorems. *)

LEMMA OrderlyBounded == ASSUME Orderly PROVE Bounded
BY DEF Bounded

\* With pipelining, parsers are clean whatever is lost.
LEMMA PipelineClean == ASSUME Bounded PROVE Spec => [](ENABLE_PIPE => CInv)
<1>1. CASE ENABLE_PIPE
  <2>1. Spec => []CInv
    BY <1>1, CleanInvariant DEF Fresh
  <2>2. CInv => (ENABLE_PIPE => CInv)
    OBVIOUS
  <2> QED BY <2>1, <2>2, PTL
<1>2. CASE ~ENABLE_PIPE
  <2>1. ENABLE_PIPE => CInv
    BY <1>2
  <2> QED BY <2>1, PTL
<1> QED BY <1>1, <1>2

\* Until one of its exits the loop keeps its variables in their types: no
\* counter of a connection goes below 0, however many requests are given up or
\* counted twice, and the unsigned workload never wraps around
\* (conn_mgnt.c:517,541,571,575).
THEOREM TypeCorrect == ASSUME Bounded PROVE Spec => [](pc # "exit" => TypeOK)
<1>1. IInv /\ SInv /\ g_fast \in BOOLEAN => (pc # "exit" => TypeOK)
  <2> SUFFICES ASSUME Base, SumState, g_fast \in BOOLEAN PROVE TypeOK
    BY DEF IInv, SInv
  <2>1. /\ OnTheWay \in Nat /\ OnTheWay <= Most /\ Most \in Nat /\ Most < U32_MOD
        /\ U32_MOD \in Nat /\ workload \in Int
    BY SumTypes, Current
  <2>2. sock[cur].sent_req \in Nat /\ sock[cur].sent_req <= OnTheWay
    <3>1. Unclosed \in [Conns -> Nat] /\ cur \in Conns
      BY SumTypes, Current
    <3>2. Unclosed[cur] <= Tally(Conns, Unclosed)
      BY <3>1, ConnsFinite, TallyChange
    <3> QED BY <3>1, <3>2 DEF OnTheWay, Unclosed
  <2>3. CASE pc = "send"
    BY <2>1, <2>3 DEF SumState, Base, TypeOK
  <2>4. CASE pc = "burst"
    <3>1. workload + sock[cur].sent_req = OnTheWay
      BY <2>4 DEF SumState
    <3>2. workload \in 0..(U32_MOD - 1)
      BY <2>1, <2>2, <3>1
    <3> QED BY <3>2 DEF Base, TypeOK
  <2>5. CASE pc \notin {"send", "burst"}
    BY <2>1, <2>5 DEF SumState, Base, TypeOK
  <2> QED BY <2>3, <2>4, <2>5
<1>2. Spec => [](g_fast \in BOOLEAN)
  <2>1. Init => g_fast \in BOOLEAN
    BY DEF Init
  <2>2. g_fast \in BOOLEAN /\ [Next]_vars => (g_fast \in BOOLEAN)'
    BY DEF Next, Program, Peer, FromPeer, Finished, vars, progVars
  <2> QED BY <2>1, <2>2, PTL DEF Spec
<1> QED BY <1>1, <1>2, Invariant, SumInvariant, PTL

\* Giving requests up neither loses nor doubles any: the counters of every
\* connection add up to its share (conn_mgnt.c:517-521,541,571).
THEOREM RequestsAccounted == ASSUME Orderly PROVE Spec => []Accounting
<1>1. IInv => Accounting
  <2> SUFFICES ASSUME Base, NEW c \in Conns
               PROVE  sock[c].rcvd_res + sock[c].unsent_req + sock[c].sent_req = Share(c)
    BY DEF IInv, Accounting
  <2> QED BY DEF Base, AllAccounted, Accounted
<1> QED BY <1>1, Invariant, OrderlyBounded, PTL

\* The driver never finishes more responses than are unanswered, although
\* nothing stops it when its bound reaches 0 (http_new_state_machine.c:732):
\* num_reqs never wraps, and sent_req is never made negative.
THEOREM BoundNeverWraps == ASSUME Bounded PROVE Spec => []NeverNegative
<1>1. IInv => NeverNegative
  <2> SUFFICES ASSUME Base, pc \in {"parse", "dispatch"} PROVE NeverNegative
    BY DEF IInv, NeverNegative
  <2>1. /\ Owing(sm[cur], net[cur]) + call.fin_resp <= sock[cur].sent_req
        /\ Owing(sm[cur], net[cur]) \in Nat /\ call.fin_resp \in Nat /\ sock[cur].sent_req \in Nat
    BY InCall DEF Parsed
  <2>2. call.fin_resp <= sock[cur].sent_req
    BY <2>1
  <2> QED BY <2>2 DEF Base, CallState, NeverNegative
<1> QED BY <1>1, Invariant, PTL

\* The inner loop never ends while a connection counts requests as unanswered
\* ("quit when finish all workload of this round", conn_mgnt.c:500), whatever
\* connections are lost or given up.
THEOREM RoundsForgetNothing == ASSUME Bounded PROVE Spec => []NoneForgotten
<1>1. IInv /\ SInv => NoneForgotten
  <2> SUFFICES ASSUME Base, SumState, pc \notin {"send", "burst"} PROVE workload >= OnTheWay
    BY DEF IInv, SInv, NoneForgotten, OnTheWay, Unclosed
  <2> QED BY SumTypes, Current DEF SumState
<1> QED BY <1>1, Invariant, SumInvariant, PTL

\* It waits for no more than the connections count, either, where the switch on
\* the rcode abandons none (conn_mgnt.c:500,517,541).  This is about the
\* counters: that a socket still carries what they count, a timeout can undo.
THEOREM RoundsWaitForNoMore == ASSUME Orderly, Settled PROVE Spec => []WorkloadIsCounted
<1>1. SInv => WorkloadIsCounted
  BY DEF SInv, SumState, WorkloadIsCounted, OnTheWay, Unclosed
<1> QED BY <1>1, SumInvariant, OrderlyBounded, PTL

\* The run ends normally only with the whole share of every connection
\* answered: all_fin is the sum of the answers, and no connection can make up
\* for another (conn_mgnt.c:455,608).
THEOREM EndIsComplete == ASSUME Orderly PROVE Spec => []EndMeansDone
<1>1. IInv /\ SInv => EndMeansDone
  <2> SUFFICES ASSUME Base, SumState, pc = "end" PROVE \A c \in Conns : sock[c].rcvd_res = Share(c)
    BY DEF IInv, SInv, EndMeansDone
  <2>1. /\ Answers \in [Conns -> Nat] /\ \A c \in Conns : Answers[c] <= Shares[c]
        /\ Tally(Conns, Answers) \in Nat /\ TOTAL_REQ \in Nat
        /\ Shares \in [Conns -> Nat] /\ Tally(Conns, Shares) = TOTAL_REQ
    BY SumTypes, SharesSum, BlockingAssumption
  <2>2. Tally(Conns, Answers) >= TOTAL_REQ
    BY DEF SumState
  <2>3. Tally(Conns, Answers) <= Tally(Conns, Shares)
    BY <2>1, ConnsFinite, TallyOrder
  <2>4. Tally(Conns, Answers) = Tally(Conns, Shares)
    BY <2>1, <2>2, <2>3
  <2>5. \A c \in Conns : Answers[c] = Shares[c]
    BY <2>1, <2>4, ConnsFinite, TallyOrder
  <2> QED BY <2>5 DEF Answers, Shares
<1> QED BY <1>1, Invariant, SumInvariant, OrderlyBounded, PTL

\* A connection abandoned by the switch always has something left to send, so
\* the early continue that would leave a closed descriptor in the poll set is
\* never taken (conn_mgnt.c:563).
THEOREM NothingAbandonedIdle == ASSUME Bounded PROVE Spec => []AbandonedHasWork
<1>1. IInv /\ (ENABLE_PIPE => CInv) => AbandonedHasWork
  <2> SUFFICES ASSUME IInv, ENABLE_PIPE => CInv, pc = "dispatch", ENABLE_PIPE,
                      call.rcode \in {"CLIENT_ERR", "ERROR"}
               PROVE  Credited(Me, call.fin_resp).unsent_req > 0
    BY DEF AbandonedHasWork
  <2>1. Base /\ call.fin_resp < Me.sent_req
    BY DEF IInv, CInv, Clean, StopState, Stops, Me
  <2>2. Me \in Counters /\ Accounted(cur, Me) /\ call.fin_resp \in Nat
        /\ Me.sent_req \in Nat /\ Me.unsent_req \in Nat
    BY <2>1, Current, InCall DEF Me, Counters
  <2>3. Credited(Me, call.fin_resp).unsent_req = Me.unsent_req + (Me.sent_req - call.fin_resp)
    BY <2>1, <2>2, CreditedType
  <2> QED BY <2>1, <2>2, <2>3
<1> QED BY <1>1, Invariant, PipelineClean, PTL

\* Nothing of the old stream is left in a parser when a new one begins ("each
\* connection will own its parsing state", http_response_process.c:10), with
\* pipelining, or where only the end of a stream cuts answers short.
THEOREM StreamsNeverMix == ASSUME Orderly, Fresh PROVE Spec => []NoStreamMixing
<1>1. CInv => NoStreamMixing
  <2> SUFFICES ASSUME CInv, NEW c \in Conns, net[c].tcp = "SYN_SENT" PROVE sm[c] = CleanParser
    BY DEF NoStreamMixing
  <2>1. Clean
    BY DEF CInv
  <2>2. pc = "connect" /\ c = cur
    BY <2>1 DEF Clean, Opened, Open
  <2> QED BY <2>1, <2>2 DEF Clean, ParsersClean, Rests, Parsed
<1> QED BY <1>1, CleanInvariant, OrderlyBounded, PTL

\* The blocking loop implements LoadGen: a connection has never more requests
\* on their way than are unanswered, an answer settles one of them, the others
\* are only given up together, and a run that is over changes nothing.  What a
\* redirection leaves in num_resp (http_new_state_machine.c:710) may be anything:
\* the loop exits on it.
THEOREM ImplementsLoadGen == ASSUME Orderly PROVE Spec => RefinesLoadGen
<1>1. Init => LG!Init
  <2> SUFFICES ASSUME Init PROVE LG!Init
    OBVIOUS
  <2>1. \A c \in Conns : Share(c) - sock[c].rcvd_res = Share(c) /\ sock[c].sent_req = 0
    BY ShareType DEF Init
  <2> QED BY <2>1 DEF Init, LG!Init, Over, Aborted
<1>2. IInv /\ [Next]_vars => [LG!Next]_(LG!lgVars)
  BY EveryStep
<1> QED BY <1>1, <1>2, Invariant, OrderlyBounded, PTL
        DEF Spec, LG!Spec, RefinesLoadGen
=============================================================================
