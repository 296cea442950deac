----------------------------- MODULE PeerProofs -----------------------------
(***************************************************************************)
(* What the proofs about both connection managers need of their common     *)
(* environment: the sockets and the server of TcpPeer, and the stream of   *)
(* answers.                                                                *)
(***************************************************************************)
EXTENDS TcpPeer, RespStream, Integers, CountingProofs

-----------------------------------------------------------------------------
(* Arithmetic. *)

LEMMA ModRange == ASSUME NEW a \in Int, NEW b \in Nat \ {0} PROVE a % b \in 0..(b - 1)
  BY SMT

LEMMA Quotient == ASSUME NEW a \in Nat, NEW b \in Nat \ {0}
                  PROVE a \div b \in Nat /\ a = b * (a \div b) + (a % b)
  BY SMT

\* Counting down an unsigned number that is not 0 does not wrap.
LEMMA CountDown == ASSUME NEW n \in Nat, NEW m \in Nat, n >= 1, n < m
                   PROVE (n + m - 1) % m = n - 1
  BY SMT

\* A number in range does not wrap.
LEMMA Unwrapped == ASSUME NEW m \in Nat, NEW n \in 0..(m - 1) PROVE (n + m) % m = n
  BY SMT

LEMMA Remainder == ASSUME NEW b \in Nat \ {0}, NEW a \in 0..(b - 1) PROVE a % b = a
  BY SMT

LEMMA DivMod ==
  ASSUME NEW a \in Nat, NEW b \in Nat \ {0}
  PROVE  a \div b \in Nat /\ a % b \in 0..(b - 1) /\ a = b * (a \div b) + (a % b)
  BY SMT

LEMMA QuotientBound ==
  ASSUME NEW a \in Nat, NEW b \in Nat \ {0}
  PROVE  a \div b \in Nat /\ a % b \in Nat /\ (a \div b) + (a % b) <= a
<1> DEFINE q == a \div b
           r == a % b
<1>1. q \in Nat /\ r \in Nat /\ a = b * q + r
  BY Quotient, ModRange
<1> HIDE DEF q, r
<1>2. q <= b * q
  BY <1>1
<1> QED BY <1>1, <1>2 DEF q, r

-----------------------------------------------------------------------------
(* The connections, and a number of requests dealt out to them. *)

LEMMA ConnsFinite == IsFiniteSet(Conns) /\ Cardinality(Conns) = NConn
<1>1. NConn \in Nat \ {0}
  BY PeerAssumption
<1>2. 0 \in Int /\ NConn - 1 \in Int /\ 0 <= NConn - 1
  BY <1>1
<1> QED BY <1>1, <1>2, FS_Interval DEF Conns

\* The last connection gets what is left over.
Dealt(n) == [c \in Conns |-> (n \div NConn) + (IF c = NConn - 1 THEN n % NConn ELSE 0)]

LEMMA DealtSum ==
  ASSUME NEW n \in Nat
  PROVE  Dealt(n) \in [Conns -> Nat] /\ Tally(Conns, Dealt(n)) = n
<1> DEFINE q == n \div NConn
           r == n % NConn
           l == NConn - 1
           f == [c \in Conns |-> q]
           g == Dealt(n)
<1>1. NConn \in Nat \ {0}
  BY PeerAssumption
<1>2. q \in Nat /\ r \in Nat /\ n = NConn * q + r
  BY <1>1, Quotient, ModRange
<1>3. l \in Conns
  BY <1>1 DEF Conns
<1>4. g = [c \in Conns |-> q + (IF c = l THEN r ELSE 0)]
  BY DEF Dealt
<1> HIDE DEF q, r, l, g
<1>5. f \in [Conns -> Nat] /\ g \in [Conns -> Nat]
  BY <1>2, <1>4
<1>6. g[l] = q + r /\ f[l] = q /\ \A c \in Conns \ {l} : g[c] = f[c]
  BY <1>2, <1>3, <1>4
<1>7. Tally(Conns, f) = NConn * q
  BY <1>2, ConnsFinite, TallyConstant
<1> HIDE DEF f
<1>8. Tally(Conns, g) = Tally(Conns, f) + g[l] - f[l] /\ Tally(Conns, f) \in Nat
  BY <1>3, <1>5, <1>6, ConnsFinite, TallyChange
<1> QED BY <1>2, <1>5, <1>6, <1>7, <1>8 DEF g

-----------------------------------------------------------------------------
(* Types. *)

LEMMA HeadTail == ASSUME NEW T, NEW s \in Seq(T), s # <<>>
                  PROVE  Head(s) \in T /\ Tail(s) \in Seq(T)
OBVIOUS

LEMMA UnitsType == ASSUME NEW from \in Nat, NEW n \in Nat PROVE Units(from, n) \in Seq(1..ReqSize)
<1>1. ASSUME NEW k \in 1..n PROVE ((from + k - 1) % ReqSize) + 1 \in 1..ReqSize
  <2>1. from + k - 1 \in Int /\ ReqSize \in Nat \ {0}
    BY PeerAssumption
  <2> QED BY <2>1, ModRange
<1> QED BY <1>1 DEF Units

\* send() takes no more than it is given, and leaves a socket.
LEMMA SentType ==
  ASSUME NEW s \in Socket, NEW from \in Nat, NEW n \in Nat
  PROVE  /\ Sent(s, from, n).ret \in {"OK", "AGAIN", "PIPE", "RESET", "REFUSED"}
         /\ Sent(s, from, n).n \in Nat /\ Sent(s, from, n).n <= n
         /\ Sent(s, from, n).peer \in Socket
<1> DEFINE m == Smaller(n, SndCap - Len(s.wire))
<1>1. s.wire \in Seq(1..ReqSize) /\ Len(s.wire) \in Nat /\ SndCap \in Nat
  BY PeerAssumption DEF Socket
<1>2. CASE s.tcp = "ESTABLISHED" /\ Len(s.wire) < SndCap
  <2>1. m \in Nat /\ m <= n
    BY <1>1, <1>2 DEF Smaller
  <2>2. s.wire \o Units(from, m) \in Seq(1..ReqSize)
    BY <1>1, <2>1, UnitsType
  <2>3. Sent(s, from, n) = [ret |-> "OK", n |-> m,
                            peer |-> [s EXCEPT !.wire = @ \o Units(from, m)]]
    BY <1>2 DEF Sent
  <2> DEFINE w == s.wire \o Units(from, m)
             p == [s EXCEPT !.wire = w]
  <2>4. p \in Socket
    <3> HIDE DEF w
    <3> QED BY <2>2 DEF Socket, w
  <2> HIDE DEF m, p
  <2> QED BY <2>1, <2>3, <2>4 DEF p
<1>3. CASE s.tcp = "CLOSE_WAIT"
  BY <1>3 DEF Sent, Socket
<1>4. CASE s.tcp = "CLOSE"
  BY <1>4 DEF Sent, Socket
<1>5. CASE s.tcp \notin {"CLOSE_WAIT", "CLOSE"}
           /\ ~(s.tcp = "ESTABLISHED" /\ Len(s.wire) < SndCap)
  BY <1>5 DEF Sent, Socket
<1> QED BY <1>2, <1>3, <1>4, <1>5

LEMMA NewSocketType == NewSocket \in Socket
BY PeerAssumption DEF NewSocket, Socket

LEMMA GoneType ==
  ASSUME NEW s \in Socket, NEW state \in {"CLOSE_WAIT", "CLOSE"},
         NEW why \in {"NONE", "REFUSED", "RESET", "PIPE"}
  PROVE  Gone(s, state, why) \in Socket
<1>1. 0 \in 0..(ReqSize - 1) /\ <<>> \in Seq(1..ReqSize)
  BY PeerAssumption
<1> QED BY <1>1 DEF Gone, Socket

LEMMA CutType == ASSUME NEW s \in Socket, NEW t \in Cut(s) PROVE t \in Socket
<1>1. CASE t = s
  BY <1>1
<1>2. CASE t # s
  <2> DEFINE r == SubSeq(s.rx, 1, Len(s.rx) - 1)
  <2>1. t = [s EXCEPT !.rx = r] /\ s.rx # <<>>
    BY <1>2 DEF Cut
  <2>2. s.rx \in Seq(Tokens)
    BY DEF Socket
  <2>3. r \in Seq(Tokens)
    BY <2>1, <2>2
  <2> HIDE DEF r
  <2> QED BY <2>1, <2>3 DEF Socket
<1> QED BY <1>1, <1>2

LEMMA MessageType == ASSUME NEW k \in HeadKinds PROVE Message(k) \in Seq(Tokens)
<1>1. k \in Tokens /\ "body" \in Tokens
  BY DEF Tokens
<1>2. <<k>> \in Seq(Tokens) /\ <<k, "body">> \in Seq(Tokens)
  BY <1>1
<1> QED BY <1>2 DEF Message

LEMMA ReadUnitType == ASSUME NEW s \in Socket, s.wire # <<>> PROVE ReadUnit(s) \in Socket
<1> DEFINE u == Head(s.wire)
           w == Tail(s.wire)
           f == u % ReqSize
           n == IF u = ReqSize THEN s.srv + 1 ELSE s.srv
<1>1. s.wire \in Seq(1..ReqSize) /\ s.srv \in Nat /\ ReqSize \in Nat \ {0}
  BY PeerAssumption DEF Socket
<1>2. u \in 1..ReqSize /\ w \in Seq(1..ReqSize)
  BY <1>1, HeadTail
<1>3. f \in 0..(ReqSize - 1) /\ n \in Nat
  <2>1. u \in Int
    BY <1>1, <1>2
  <2> HIDE DEF u
  <2>2. f \in 0..(ReqSize - 1)
    BY <1>1, <2>1, ModRange
  <2>3. n \in Nat
    BY <1>1
  <2> QED BY <2>2, <2>3
<1>4. ReadUnit(s) = IF u = s.frag + 1 THEN [s EXCEPT !.wire = w, !.frag = f, !.srv = n]
                    ELSE [s EXCEPT !.wire = <<>>, !.bad = TRUE]
  BY DEF ReadUnit
<1> HIDE DEF u, w, f, n
<1>5. [s EXCEPT !.wire = w, !.frag = f, !.srv = n] \in Socket
  BY <1>2, <1>3 DEF Socket
<1>6. [s EXCEPT !.wire = <<>>, !.bad = TRUE] \in Socket
  <2>1. <<>> \in Seq(1..ReqSize)
    OBVIOUS
  <2> QED BY <2>1 DEF Socket
<1> QED BY <1>4, <1>5, <1>6

LEMMA PeerStepType ==
  ASSUME PeerTypeOK, NEW c \in Conns, PeerStep(c)
  PROVE  PeerTypeOK'
<1> USE DEF PeerTypeOK
<1>0. net[c] \in Socket /\ (Fault => faults' \in 0..MaxFaults)
  BY PeerAssumption DEF Fault
<1>1. CASE Establish(c)
  BY <1>0, <1>1 DEF Establish, Socket
<1>2. CASE Refuse(c)
  BY <1>0, <1>2, GoneType DEF Refuse
<1>3. CASE ServerRead(c)
  BY <1>0, <1>3, ReadUnitType DEF ServerRead
<1>4. CASE AnswerBad(c)
  <2> DEFINE r == net[c].rx \o Message("close4")
             s == [net[c] EXCEPT !.rx = r]
  <2>1. r \in Seq(Tokens)
    <3>1. Message("close4") \in Seq(Tokens) /\ net[c].rx \in Seq(Tokens)
      BY <1>0, MessageType DEF Socket, HeadKinds
    <3> QED BY <3>1
  <2>2. net' = [net EXCEPT ![c] = Gone(s, "CLOSE_WAIT", "NONE")] /\ faults' = faults
    BY <1>4 DEF AnswerBad, Rejected
  <2>3. s \in Socket
    <3> HIDE DEF r
    <3> QED BY <1>0, <2>1 DEF Socket
  <2> HIDE DEF s
  <2> QED BY <2>2, <2>3, GoneType
<1>5. CASE Fin(c)
  <2>1. PICK s \in Cut(net[c]) : net' = [net EXCEPT ![c] = Gone(s, "CLOSE_WAIT", "NONE")]
    BY <1>5 DEF Fin
  <2>2. Gone(s, "CLOSE_WAIT", "NONE") \in Socket
    BY <1>0, CutType, GoneType
  <2> QED BY <1>0, <1>5, <2>1, <2>2 DEF Fin
<1>6. CASE Rst(c)
  <2>1. CASE net[c].tcp = "ESTABLISHED"
    <3>1. PICK s \in Cut(net[c]) : net' = [net EXCEPT ![c] = Gone(s, "CLOSE", "RESET")]
      BY <1>6, <2>1 DEF Rst
    <3>2. Gone(s, "CLOSE", "RESET") \in Socket
      BY <1>0, CutType, GoneType
    <3> QED BY <1>0, <1>6, <2>1, <3>1, <3>2 DEF Rst
  <2>2. CASE net[c].tcp # "ESTABLISHED"
    BY <1>0, <1>6, <2>2, GoneType DEF Rst
  <2> QED BY <2>1, <2>2
<1>7. CASE \E k \in Kinds : Answer(c, k)
  <2> PICK k \in Kinds : Answer(c, k)
    BY <1>7
  <2> DEFINE s == [net[c] EXCEPT !.rx = @ \o Message(k), !.srv = @ - 1]
  <2>1. net[c].rx \o Message(k) \in Seq(Tokens) /\ net[c].srv - 1 \in Nat
    <3>1. k \in HeadKinds
      BY PeerAssumption
    <3>2. Message(k) \in Seq(Tokens) /\ net[c].rx \in Seq(Tokens)
      BY <1>0, <3>1, MessageType DEF Socket
    <3>3. net[c].srv \in Nat /\ net[c].srv > 0
      BY <1>0 DEF Answer, Socket
    <3> QED BY <3>2, <3>3
  <2>2. s \in Socket
    BY <1>0, <2>1 DEF Socket
  <2>3. /\ net' = [net EXCEPT ![c] = IF k \in Closing THEN Gone(s, "CLOSE_WAIT", "NONE") ELSE s]
        /\ faults' \in 0..MaxFaults
    BY <1>0 DEF Answer
  <2> HIDE DEF s
  <2> QED BY <2>2, <2>3, GoneType
<1> QED BY <1>1, <1>2, <1>3, <1>4, <1>5, <1>6, <1>7 DEF PeerStep

Outcomes == [res : {"MORE", "FINISH"} \cup Stops, p_state : ParserStates,
             is_close : BOOLEAN, status : HeadKinds \cup {"none"}]

LEMMA OutcomeRecord ==
  ASSUME NEW res \in {"MORE", "FINISH"} \cup Stops, NEW p \in ParserStates,
         NEW cl \in BOOLEAN, NEW st \in HeadKinds \cup {"none"}
  PROVE  Outcome(res, p, cl, st) \in Outcomes
BY DEF Outcome, Outcomes

\* What the parser makes of a token where a response begins, and elsewhere.
LEMMA OutcomeFresh ==
  ASSUME NEW m, NEW t \in Tokens, NEW o \in Parse(m, t), m.p_state \in {"VER", "GARB"}
  PROVE  o \in Outcomes
<1>1. CASE m.p_state = "VER" /\ t # "body"
  BY <1>1, OutcomeRecord DEF Parse, ParserStates, Stops, Tokens, HeadKinds
<1>2. CASE t = "body"
  <2>1. CASE m.p_state = "VER"
    BY <1>2, <2>1, OutcomeRecord DEF Parse, ParserStates, Stops, HeadKinds
  <2>2. CASE m.p_state = "GARB"
    BY <1>2, <2>2, OutcomeRecord DEF Parse, ParserStates, Stops, HeadKinds
  <2> QED BY <2>1, <2>2
<1>3. CASE m.p_state = "GARB" /\ t # "body"
  BY <1>3, OutcomeRecord DEF Parse, ParserStates, Stops, HeadKinds
<1> QED BY <1>1, <1>2, <1>3

LEMMA OutcomeType ==
  ASSUME NEW m \in [buf : Seq(Tokens), p_state : ParserStates, is_close : BOOLEAN,
                    status : HeadKinds \cup {"none"}], NEW t \in Tokens, NEW o \in Parse(m, t)
  PROVE  /\ o.res \in {"MORE", "FINISH"} \cup Stops
         /\ o.p_state \in ParserStates /\ o.is_close \in BOOLEAN
         /\ o.status \in HeadKinds \cup {"none"}
<1>1. o \in Outcomes
  <2>1. CASE m.p_state \in {"VER", "GARB"}
    BY <2>1, OutcomeFresh
  <2>2. CASE m.p_state \in {"BODY", "DONE"}
    <3>1. o \in {Outcome("FINISH", "DONE", m.is_close, m.status),
                  Outcome("MORE", m.p_state, m.is_close, m.status)}
      BY <2>2 DEF Parse
    <3> QED BY <3>1, OutcomeRecord DEF ParserStates
  <2> QED BY <2>1, <2>2 DEF ParserStates
<1> QED BY <1>1 DEF Outcomes

LEMMA SubSeqType ==
  ASSUME NEW T, NEW s \in Seq(T), NEW n \in 1..Len(s)
  PROVE  SubSeq(s, 1, n) \in Seq(T) /\ SubSeq(s, n + 1, Len(s)) \in Seq(T)
OBVIOUS

-----------------------------------------------------------------------------
(* Answers to come.  Each request, and each answer, has one head, and one end. *)

Ends    == {"body", "empty"}       \* the last token of an answer
Known   == Kinds \cup {"body"}     \* the tokens this server sends
OneEach == {Ends, HeadKinds}

\* The answers still to come out of socket s, told by their tokens in E.
ToCome(s, E) == Occurrences(s.rx, E) + s.srv + Occurrences(s.wire, {ReqSize})

LEMMA ToComeType ==
  ASSUME NEW s \in Socket, NEW E
  PROVE  /\ ToCome(s, E) \in Nat /\ s.srv \in Nat /\ s.rx \in Seq(Tokens)
         /\ Occurrences(s.rx, E) \in Nat /\ Occurrences(s.wire, {ReqSize}) \in Nat
<1>1. s.rx \in Seq(Tokens) /\ s.wire \in Seq(1..ReqSize) /\ s.srv \in Nat
  BY DEF Socket
<1>2. Occurrences(s.rx, E) \in Nat /\ Occurrences(s.wire, {ReqSize}) \in Nat
  BY <1>1, OccType
<1> QED BY <1>1, <1>2 DEF ToCome

\* A message adds one.
LEMMA OccMessage ==
  ASSUME NEW k \in HeadKinds, NEW r \in Seq(Tokens), NEW E \in OneEach
  PROVE  /\ r \o Message(k) \in Seq(Tokens)
         /\ Occurrences(r \o Message(k), E) = Occurrences(r, E) + 1
<1>1. Message(k) \in Seq(Tokens)
  BY MessageType
<1>2. Occurrences(Message(k), E) = 1
  <2>1. k \in Tokens /\ "body" \in Tokens
    BY DEF Tokens
  <2>2. CASE k = "empty"
    <3>1. Message(k) = <<k>> /\ k \in E
      BY <2>2 DEF Message, OneEach, Ends
    <3> QED BY <3>1, OccUnit
  <2>3. CASE k # "empty"
    <3>1. Message(k) = <<k>> \o <<"body">>
      BY <2>3 DEF Message
    <3>2. Occurrences(<<k>> \o <<"body">>, E) = Occurrences(<<k>>, E) + Occurrences(<<"body">>, E)
      <4>1. <<k>> \in Seq(Tokens) /\ <<"body">> \in Seq(Tokens)
        BY <2>1
      <4> QED BY <4>1, OccConcat
    <3>3. CASE E = Ends
      <4>1. k \notin E /\ "body" \in E
        BY <2>3, <3>3 DEF Ends, HeadKinds
      <4> QED BY <3>1, <3>2, <4>1, OccUnit
    <3>4. CASE E = HeadKinds
      <4>1. k \in E /\ "body" \notin E
        BY <3>4 DEF HeadKinds
      <4> QED BY <3>1, <3>2, <4>1, OccUnit
    <3> QED BY <3>3, <3>4 DEF OneEach
  <2> QED BY <2>2, <2>3
<1>3. Occurrences(r \o Message(k), E) = Occurrences(r, E) + Occurrences(Message(k), E)
  BY <1>1, OccConcat
<1> QED BY <1>1, <1>2, <1>3

\* What is left of a socket whose connection has ended.
LEMMA GoneToCome ==
  ASSUME NEW s \in Socket, NEW state, NEW why, NEW E
  PROVE  ToCome(Gone(s, state, why), E) = Occurrences(s.rx, E)
<1>1. /\ Gone(s, state, why).rx = s.rx /\ Gone(s, state, why).srv = 0
      /\ Gone(s, state, why).wire = <<>>
  BY DEF Gone, Socket
<1>2. Occurrences(s.rx, E) \in Nat
  BY ToComeType
<1> QED BY <1>1, <1>2, OccEmpty DEF ToCome

LEMMA CutToCome ==
  ASSUME NEW s \in Socket, NEW t \in Cut(s), NEW E
  PROVE  /\ Occurrences(t.rx, E) <= Occurrences(s.rx, E)
         /\ \/ t.rx = s.rx
            \/ s.rx # <<>> /\ t.rx = SubSeq(s.rx, 1, Len(s.rx) - 1)
<1>1. s.rx \in Seq(Tokens) /\ Occurrences(s.rx, E) \in Nat
  BY ToComeType
<1>2. CASE t.rx = s.rx
  BY <1>1, <1>2
<1>3. CASE t.rx # s.rx
  <2>1. s.rx # <<>> /\ t.rx = SubSeq(s.rx, 1, Len(s.rx) - 1)
    <3>1. s.rx # <<>> /\ t = [s EXCEPT !.rx = SubSeq(@, 1, Len(@) - 1)]
      BY <1>3 DEF Cut
    <3> DEFINE r == SubSeq(s.rx, 1, Len(s.rx) - 1)
    <3>2. t = [s EXCEPT !.rx = r]
      BY <3>1
    <3> HIDE DEF r
    <3>3. t.rx = r
      BY <3>2 DEF Socket
    <3> QED BY <3>1, <3>3 DEF r
  <2> DEFINE n == Len(s.rx) - 1
  <2>2. n \in 0..Len(s.rx)
    BY <1>1, <2>1
  <2> HIDE DEF n
  <2>3. /\ SubSeq(s.rx, 1, n) \in Seq(Tokens) /\ SubSeq(s.rx, n + 1, Len(s.rx)) \in Seq(Tokens)
        /\ Occurrences(s.rx, E) = Occurrences(SubSeq(s.rx, 1, n), E)
                                  + Occurrences(SubSeq(s.rx, n + 1, Len(s.rx)), E)
    BY <1>1, <2>2, OccSplit
  <2>4. /\ Occurrences(SubSeq(s.rx, 1, n), E) \in Nat
        /\ Occurrences(SubSeq(s.rx, n + 1, Len(s.rx)), E) \in Nat
    BY <2>3, OccType
  <2> QED BY <1>1, <2>1, <2>3, <2>4 DEF n
<1> QED BY <1>2, <1>3

\* The server reads a unit: no more than it was, and the same unless the unit
\* is out of order.
LEMMA ReadUnitToCome ==
  ASSUME NEW s \in Socket, s.wire # <<>>, NEW E
  PROVE  /\ ReadUnit(s).rx = s.rx /\ ReadUnit(s).tcp = s.tcp /\ ReadUnit(s).err = s.err
         /\ ToCome(ReadUnit(s), E) <= ToCome(s, E)
         /\ Head(s.wire) = s.frag + 1 => ToCome(ReadUnit(s), E) = ToCome(s, E)
<1> DEFINE u == Head(s.wire)
           w == Tail(s.wire)
           f == u % ReqSize
           n == IF u = ReqSize THEN s.srv + 1 ELSE s.srv
           a == Occurrences(s.wire, {ReqSize})
           b == Occurrences(w, {ReqSize})
           c == Occurrences(s.rx, E)
<1>1. /\ s.wire \in Seq(1..ReqSize) /\ s.srv \in Nat
      /\ a \in Nat /\ c \in Nat
  BY ToComeType DEF Socket
<1>2. w \in Seq(1..ReqSize) /\ a = b + (IF u \in {ReqSize} THEN 1 ELSE 0)
  BY <1>1, OccTail
<1>3. b \in Nat
  BY <1>2, OccType
<1>4. ReadUnit(s) = IF u = s.frag + 1 THEN [s EXCEPT !.wire = w, !.frag = f, !.srv = n]
                    ELSE [s EXCEPT !.wire = <<>>, !.bad = TRUE]
  BY DEF ReadUnit
<1>5. ToCome(s, E) = c + s.srv + a
  BY DEF ToCome
<1> HIDE DEF u, w, f, n, a
<1>6. CASE u = s.frag + 1
  <2> DEFINE r == [s EXCEPT !.wire = w, !.frag = f, !.srv = n]
  <2>1. r.rx = s.rx /\ r.srv = n /\ r.wire = w /\ r.tcp = s.tcp /\ r.err = s.err
    BY DEF Socket
  <2>2. ToCome(r, E) = c + n + b
    BY <2>1 DEF ToCome
  <2> HIDE DEF r, b, c
  <2>3. n + b = s.srv + a
    <3> DEFINE v == s.srv
    <3>1. v \in Nat
      BY <1>1
    <3>2. n = IF u = ReqSize THEN v + 1 ELSE v
      BY DEF n
    <3>3. a = IF u = ReqSize THEN b + 1 ELSE b
      BY <1>2, <1>3 DEF b
    <3> HIDE DEF v
    <3>4. b \in Nat
      BY <1>3 DEF b
    <3> HIDE DEF n, a, b
    <3>5. n + b = v + a
      BY <3>1, <3>2, <3>3, <3>4
    <3> QED BY <3>5 DEF v
  <2>4. ReadUnit(s) = r
    BY <1>4, <1>6 DEF r
  <2>5. n \in Nat
    BY <1>1 DEF n
  <2> QED BY <1>1, <1>3, <1>5, <2>1, <2>2, <2>3, <2>4, <2>5 DEF u
<1>7. CASE u # s.frag + 1
  <2> DEFINE r == [s EXCEPT !.wire = <<>>, !.bad = TRUE]
  <2>1. r.rx = s.rx /\ r.srv = s.srv /\ r.wire = <<>> /\ r.tcp = s.tcp /\ r.err = s.err
    BY DEF Socket
  <2>2. ToCome(r, E) = c + s.srv + 0
    BY <2>1, OccEmpty DEF ToCome
  <2> HIDE DEF r, c
  <2>3. ReadUnit(s) = r
    BY <1>4, <1>7 DEF r
  <2> QED BY <1>1, <1>5, <1>7, <2>1, <2>2, <2>3 DEF u
<1> QED BY <1>6, <1>7

\* An answer.
\* The answer to a request.
Answered(s, k) == [s EXCEPT !.rx = @ \o Message(k), !.srv = @ - 1]

LEMMA Exchange == ASSUME NEW a \in Nat, NEW v \in Nat, NEW b \in Nat
                  PROVE  (a + 1) + v + b = a + (v + 1) + b /\ a + 1 <= a + (v + 1) + b
  OBVIOUS

LEMMA AnsweredType ==
  ASSUME NEW s \in Socket, NEW k \in HeadKinds, s.srv > 0
  PROVE  LET t == Answered(s, k)
         IN  /\ t \in Socket /\ t.rx = s.rx \o Message(k) /\ t.tcp = s.tcp /\ t.err = s.err
             /\ t.wire = s.wire /\ t.srv \in Nat /\ s.srv = t.srv + 1
<1> DEFINE r == s.rx \o Message(k)
           v == s.srv - 1
<1>1. s.rx \in Seq(Tokens) /\ s.srv \in Nat
  BY ToComeType
<1>2. v \in Nat /\ s.srv = v + 1
  BY <1>1
<1>3. r \in Seq(Tokens)
  <2>1. Message(k) \in Seq(Tokens)
    BY MessageType
  <2> QED BY <1>1, <2>1
<1>4. Answered(s, k) = [s EXCEPT !.rx = r, !.srv = v]
  BY DEF Answered
<1> HIDE DEF r, v
<1>5. /\ Answered(s, k) \in Socket /\ Answered(s, k).rx = r /\ Answered(s, k).srv = v
      /\ Answered(s, k).wire = s.wire /\ Answered(s, k).tcp = s.tcp /\ Answered(s, k).err = s.err
  BY <1>1, <1>2, <1>3, <1>4 DEF Socket
<1> QED BY <1>2, <1>5 DEF r

LEMMA AnswerToCome ==
  ASSUME NEW s \in Socket, NEW k \in HeadKinds, NEW E \in OneEach, s.srv > 0
  PROVE  /\ ToCome(Answered(s, k), E) = ToCome(s, E)
         /\ Occurrences(Answered(s, k).rx, E) <= ToCome(s, E)
<1> DEFINE t == Answered(s, k)
           a == Occurrences(s.rx, E)
           b == Occurrences(s.wire, {ReqSize})
           v == t.srv
<1>1. s.rx \in Seq(Tokens) /\ a \in Nat /\ b \in Nat
  BY ToComeType
<1>2. t.rx = s.rx \o Message(k) /\ t.wire = s.wire /\ v \in Nat /\ s.srv = v + 1
  BY AnsweredType
<1>3. Occurrences(s.rx \o Message(k), E) = a + 1
  BY <1>1, OccMessage
<1> HIDE DEF t
<1>4. ToCome(s, E) = a + (v + 1) + b /\ ToCome(t, E) = (a + 1) + v + b
  BY <1>2, <1>3 DEF ToCome
<1>5. Occurrences(t.rx, E) = a + 1
  BY <1>2, <1>3
<1> HIDE DEF a, b, v
<1>6. (a + 1) + v + b = a + (v + 1) + b /\ a + 1 <= a + (v + 1) + b
  BY <1>1, <1>2, Exchange
<1>7. ToCome(t, E) = ToCome(s, E) /\ Occurrences(t.rx, E) <= ToCome(s, E)
  BY <1>4, <1>5, <1>6
<1> QED BY <1>7 DEF t

\* What the tokens that can be received may turn into as the world takes a step.
RxMoves(old, new) == \/ new = old
                     \/ \E k \in Kinds : new = old \o Message(k)
                     \/ old # <<>> /\ new = SubSeq(old, 1, Len(old) - 1)

\* What a step of the network or of the server makes of socket s, apart from
\* the rejection of a malformed request: no more answers to come, and a
\* connection that stays closed when it is.
SocketMoves(s, t) ==
  /\ t \in Socket
  /\ \A E \in OneEach : ToCome(t, E) <= ToCome(s, E)
  /\ RxMoves(s.rx, t.rx)
  /\ PeerGone(s) => PeerGone(t)
  /\ t.tcp = "SYN_SENT" => s.tcp = "SYN_SENT"
  /\ t.err = s.err \/ t.err \in {"NONE", "PIPE"}
     \/ (t.err = "REFUSED" /\ s.tcp = "SYN_SENT")
     \/ (t.err = "RESET" /\ s.tcp = "ESTABLISHED")

LEMMA GoneMoves ==
  ASSUME NEW s \in Socket, NEW t \in Cut(s),
         NEW state \in {"CLOSE_WAIT", "CLOSE"}, NEW why \in {"NONE", "REFUSED", "RESET", "PIPE"},
         why \in {"NONE", "PIPE"} \/ (why = "REFUSED" /\ s.tcp = "SYN_SENT")
         \/ (why = "RESET" /\ s.tcp = "ESTABLISHED")
  PROVE  SocketMoves(s, Gone(t, state, why))
<1>1. t \in Socket
  BY CutType
<1> DEFINE g == Gone(t, state, why)
<1>2. g \in Socket /\ g.rx = t.rx /\ g.tcp = state /\ g.err = why
  <2>1. g.rx = t.rx /\ g.tcp = state /\ g.err = why
    BY <1>1 DEF Gone, Socket
  <2> QED BY <1>1, <2>1, GoneType
<1>3. ASSUME NEW E \in OneEach PROVE ToCome(g, E) <= ToCome(s, E)
  <2>1. /\ Occurrences(s.rx, E) \in Nat /\ s.srv \in Nat
        /\ Occurrences(s.wire, {ReqSize}) \in Nat /\ Occurrences(t.rx, E) \in Nat
    BY <1>1, ToComeType
  <2>2. Occurrences(t.rx, E) <= Occurrences(s.rx, E)
    BY CutToCome
  <2>3. ToCome(g, E) = Occurrences(t.rx, E)
    BY <1>1, GoneToCome
  <2> QED BY <2>1, <2>2, <2>3 DEF ToCome
<1>4. RxMoves(s.rx, g.rx)
  BY <1>2, CutToCome DEF RxMoves
<1> HIDE DEF g
<1> QED BY <1>2, <1>3, <1>4 DEF SocketMoves, PeerGone, g

LEMMA CutSelf == ASSUME NEW s PROVE s \in Cut(s)
BY DEF Cut

LEMMA SelfMoves ==
  ASSUME NEW s \in Socket, NEW t \in Socket, t.rx = s.rx, t.err = s.err,
         t.tcp = s.tcp \/ (s.tcp = "SYN_SENT" /\ t.tcp = "ESTABLISHED"),
         \A E \in OneEach : ToCome(t, E) <= ToCome(s, E)
  PROVE  SocketMoves(s, t)
BY DEF SocketMoves, RxMoves, PeerGone

LEMMA StepMovesSocket ==
  ASSUME PeerTypeOK, NEW c \in Conns,
         \/ Establish(c) \/ Refuse(c) \/ ServerRead(c) \/ Fin(c) \/ Rst(c)
         \/ \E k \in Kinds : Answer(c, k)
  PROVE  \E t \in Socket : net' = [net EXCEPT ![c] = t] /\ SocketMoves(net[c], t)
<1> DEFINE s == net[c]
<1>0. s \in Socket
  BY DEF PeerTypeOK
<1>1. CASE Establish(c)
  <2> DEFINE t == [s EXCEPT !.tcp = "ESTABLISHED"]
  <2>1. /\ t \in Socket /\ t.rx = s.rx /\ t.err = s.err /\ t.tcp = "ESTABLISHED"
        /\ t.srv = s.srv /\ t.wire = s.wire
    BY <1>0 DEF Socket
  <2>2. ASSUME NEW E \in OneEach PROVE ToCome(t, E) <= ToCome(s, E)
    <3>1. ToCome(t, E) = ToCome(s, E)
      BY <2>1 DEF ToCome
    <3> QED BY <1>0, <3>1, ToComeType
  <2>3. net' = [net EXCEPT ![c] = t] /\ s.tcp = "SYN_SENT"
    BY <1>1 DEF Establish
  <2> HIDE DEF t, s
  <2> QED BY <1>0, <2>1, <2>2, <2>3, SelfMoves DEF s
<1>2. CASE Refuse(c)
  <2>1. net' = [net EXCEPT ![c] = Gone(s, "CLOSE", "REFUSED")] /\ s.tcp = "SYN_SENT"
    BY <1>2 DEF Refuse
  <2>2. SocketMoves(s, Gone(s, "CLOSE", "REFUSED"))
    BY <1>0, <2>1, CutSelf, GoneMoves
  <2> QED BY <2>1, <2>2 DEF SocketMoves
<1>3. CASE ServerRead(c)
  <2>1. net' = [net EXCEPT ![c] = ReadUnit(s)] /\ s.wire # <<>>
    BY <1>3 DEF ServerRead
  <2>2. ReadUnit(s) \in Socket
    BY <1>0, <2>1, ReadUnitType
  <2>3. /\ ReadUnit(s).rx = s.rx /\ ReadUnit(s).tcp = s.tcp /\ ReadUnit(s).err = s.err
        /\ \A E : ToCome(ReadUnit(s), E) <= ToCome(s, E)
    BY <1>0, <2>1, ReadUnitToCome
  <2> HIDE DEF s
  <2> QED BY <1>0, <2>1, <2>2, <2>3, SelfMoves DEF s
<1>4. CASE Fin(c)
  <2>1. PICK t \in Cut(s) : net' = [net EXCEPT ![c] = Gone(t, "CLOSE_WAIT", "NONE")]
    BY <1>4 DEF Fin
  <2>2. SocketMoves(s, Gone(t, "CLOSE_WAIT", "NONE"))
    BY <1>0, GoneMoves
  <2> QED BY <2>1, <2>2 DEF SocketMoves
<1>5. CASE Rst(c)
  <2>1. CASE s.tcp = "ESTABLISHED"
    <3>1. PICK t \in Cut(s) : net' = [net EXCEPT ![c] = Gone(t, "CLOSE", "RESET")]
      BY <1>5, <2>1 DEF Rst
    <3>2. SocketMoves(s, Gone(t, "CLOSE", "RESET"))
      BY <1>0, <2>1, GoneMoves
    <3> QED BY <3>1, <3>2 DEF SocketMoves
  <2>2. CASE s.tcp # "ESTABLISHED"
    <3>1. net' = [net EXCEPT ![c] = Gone(s, "CLOSE", "PIPE")]
      BY <1>5, <2>2 DEF Rst
    <3>2. SocketMoves(s, Gone(s, "CLOSE", "PIPE"))
      BY <1>0, CutSelf, GoneMoves
    <3> QED BY <3>1, <3>2 DEF SocketMoves
  <2> QED BY <2>1, <2>2
<1>6. CASE \E k \in Kinds : Answer(c, k)
  <2> PICK k \in Kinds : Answer(c, k)
    BY <1>6
  <2> DEFINE t == Answered(s, k)
             g == Gone(t, "CLOSE_WAIT", "NONE")
  <2>1. k \in HeadKinds
    BY PeerAssumption
  <2>2. s.srv > 0 /\ s.tcp = "ESTABLISHED" /\ net' = [net EXCEPT ![c] = IF k \in Closing THEN g ELSE t]
    BY DEF Answer, Answered
  <2>3. /\ t \in Socket /\ t.rx = s.rx \o Message(k) /\ t.tcp = s.tcp /\ t.err = s.err
        /\ \A E \in OneEach : /\ ToCome(t, E) = ToCome(s, E)
                              /\ Occurrences(t.rx, E) <= ToCome(s, E)
    <3>1. s \in Socket
      BY <1>0
    <3>2. s.srv > 0
      BY <2>2
    <3> HIDE DEF s
    <3>3. t \in Socket /\ t.rx = s.rx \o Message(k) /\ t.tcp = s.tcp /\ t.err = s.err
      BY <2>1, <3>1, <3>2, AnsweredType
    <3>4. ASSUME NEW E \in OneEach
          PROVE  ToCome(t, E) = ToCome(s, E) /\ Occurrences(t.rx, E) <= ToCome(s, E)
      BY <2>1, <3>1, <3>2, AnswerToCome
    <3> QED BY <3>3, <3>4
  <2> HIDE DEF t
  <2>4. /\ g \in Socket /\ g.rx = t.rx /\ g.tcp = "CLOSE_WAIT" /\ g.err = "NONE"
        /\ \A E \in OneEach : ToCome(g, E) = Occurrences(t.rx, E)
    <3>1. g.rx = t.rx /\ g.tcp = "CLOSE_WAIT" /\ g.err = "NONE"
      BY <2>3 DEF Gone, Socket
    <3>2. g \in Socket
      BY <2>3, GoneType
    <3>3. ASSUME NEW E \in OneEach PROVE ToCome(g, E) = Occurrences(t.rx, E)
      BY <2>3, GoneToCome
    <3> QED BY <3>1, <3>2, <3>3
  <2> HIDE DEF g
  <2>5. RxMoves(s.rx, t.rx)
    BY <2>3 DEF RxMoves
  <2>6. \A E \in OneEach : ToCome(t, E) \in Nat
    BY <2>3, ToComeType
  <2>7. SocketMoves(s, t)
    BY <2>2, <2>3, <2>5, <2>6 DEF SocketMoves, PeerGone
  <2>8. SocketMoves(s, g)
    BY <2>2, <2>3, <2>4, <2>5 DEF SocketMoves, PeerGone
  <2> QED BY <2>2, <2>3, <2>4, <2>7, <2>8
<1> QED BY <1>1, <1>2, <1>3, <1>4, <1>5, <1>6

-----------------------------------------------------------------------------
(* Requests written. *)

LEMMA Multiply == ASSUME NEW a \in Nat, NEW b \in Nat, NEW r \in Nat \ {0}
                  PROVE  /\ r * a \in Nat /\ r * (a + 1) = r * a + r
                         /\ r * a <= r * b => a <= b
                         /\ r * a = a * r
<1>1. r * a \in Nat /\ r * b \in Nat /\ r * (a + 1) = r * a + r /\ r * a = a * r
  BY SMT
<1>2. ASSUME a > b PROVE r * a > r * b
  <2>1. PICK d \in Nat : a = b + 1 + d
    <3>1. a - b - 1 \in Nat /\ a = b + 1 + (a - b - 1)
      BY <1>2
    <3> QED BY <3>1
  <2>2. r * a = r * b + r + r * d /\ r * d \in Nat
    BY <2>1, SMT
  <2> QED BY <1>1, <2>2
<1> QED BY <1>1, <1>2

\* Of the units of n requests written from the beginning of one, at most n end one.
LEMMA UnitsEnds ==
  ASSUME NEW n \in Nat, NEW m \in Nat, m <= n * ReqSize
  PROVE  Occurrences(Units(0, m), {ReqSize}) <= n
<1> DEFINE R == ReqSize
           I == {k \in DOMAIN Units(0, m) : Units(0, m)[k] \in {R}}
           q(k) == ((k - 1) \div R) + 1
           f == [k \in I |-> q(k)]
<1>1. R \in Nat \ {0}
  BY PeerAssumption
<1>2. ASSUME NEW k \in I PROVE k \in 1..m /\ q(k) \in Nat /\ q(k) >= 1 /\ k = R * q(k)
  <2>1. k \in 1..m /\ ((0 + k - 1) % R) + 1 = R
    BY DEF Units
  <2>2. k - 1 \in Nat /\ (k - 1) % R = R - 1
    BY <2>1, <1>1
  <2> DEFINE d == (k - 1) \div R
  <2>3. d \in Nat /\ k - 1 = R * d + (R - 1)
    BY <1>1, <2>2, Quotient
  <2> HIDE DEF d
  <2>4. R * (d + 1) = R * d + R /\ R * d \in Nat
    BY <1>1, <2>3, Multiply
  <2>5. k = R * (d + 1)
    BY <1>1, <2>1, <2>3, <2>4
  <2> QED BY <2>1, <2>3, <2>5 DEF d
<1> HIDE DEF q
<1>3. f \in [I -> 1..n]
  <2> SUFFICES ASSUME NEW k \in I PROVE q(k) \in 1..n
    OBVIOUS
  <2>1. R * q(k) <= n * R
    BY <1>1, <1>2
  <2>2. n * R = R * n
    BY <1>1, Multiply
  <2>3. q(k) <= n
    BY <1>1, <1>2, <2>1, <2>2, Multiply
  <2> QED BY <1>2, <2>3
<1>4. \A x, y \in I : f[x] = f[y] => x = y
  <2> TAKE x, y \in I
  <2> HAVE f[x] = f[y]
  <2>1. q(x) = q(y)
    OBVIOUS
  <2> QED BY <1>2, <2>1
<1>5. IsFiniteSet(1..n) /\ Cardinality(1..n) = n
  BY FS_Interval
<1> HIDE DEF I, f
<1>6. Cardinality(I) <= n
  BY <1>3, <1>4, <1>5, NoMore
<1> QED BY <1>6 DEF Occurrences, I

\* send() of n whole requests.
LEMMA SentToCome ==
  ASSUME NEW s \in Socket, NEW n \in Nat, Sent(s, 0, n * ReqSize).ret = "OK", NEW E,
         NEW t, t = Sent(s, 0, n * ReqSize).peer
  PROVE  /\ t \in Socket /\ t.rx = s.rx /\ t.tcp = s.tcp /\ t.err = s.err
         /\ ToCome(t, E) <= ToCome(s, E) + n
<1> DEFINE N == n * ReqSize
           m == Smaller(N, SndCap - Len(s.wire))
<1>1. /\ s.wire \in Seq(1..ReqSize) /\ Len(s.wire) \in Nat /\ SndCap \in Nat
      /\ ReqSize \in Nat \ {0}
  BY PeerAssumption DEF Socket
<1>2. N \in Nat
  <2>1. n * ReqSize = ReqSize * n /\ ReqSize * n \in Nat
    BY <1>1, Multiply
  <2> QED BY <2>1
<1>3. t \in Socket
  <2> HIDE DEF N
  <2>1. Sent(s, 0, N).peer \in Socket
    BY <1>2, SentType
  <2> QED BY <2>1 DEF N
<1>4. CASE s.tcp = "ESTABLISHED" /\ Len(s.wire) < SndCap
  <2> DEFINE u == Units(0, m)
             w == s.wire \o u
  <2>1. m \in Nat /\ m <= N
    <3> HIDE DEF N
    <3> QED BY <1>1, <1>2, <1>4 DEF Smaller
  <2>2. t = [s EXCEPT !.wire = w]
    <3>1. Sent(s, 0, N) = [ret |-> "OK", n |-> m, peer |-> [s EXCEPT !.wire = @ \o Units(0, m)]]
      BY <1>4 DEF Sent
    <3>2. t = Sent(s, 0, N).peer
      OBVIOUS
    <3> HIDE DEF m, N
    <3>3. t = [s EXCEPT !.wire = @ \o Units(0, m)]
      BY <3>1, <3>2
    <3> QED BY <3>3, Zenon
  <2>3. u \in Seq(1..ReqSize) /\ Occurrences(u, {ReqSize}) <= n
    <3> HIDE DEF m
    <3> QED BY <2>1, UnitsType, UnitsEnds
  <2> HIDE DEF u
  <2>4. Occurrences(w, {ReqSize}) = Occurrences(s.wire, {ReqSize}) + Occurrences(u, {ReqSize})
    BY <1>1, <2>3, OccConcat
  <2> HIDE DEF w, m, N
  <2>5. t.rx = s.rx /\ t.tcp = s.tcp /\ t.err = s.err /\ t.srv = s.srv /\ t.wire = w
    BY <2>2 DEF Socket
  <2>6. /\ Occurrences(s.rx, E) \in Nat /\ s.srv \in Nat
        /\ Occurrences(s.wire, {ReqSize}) \in Nat
    BY ToComeType
  <2>7. Occurrences(u, {ReqSize}) \in Nat
    BY <2>3, OccType
  <2>8. ToCome(t, E) <= ToCome(s, E) + n
    <3>1. ToCome(t, E) = Occurrences(s.rx, E) + s.srv + Occurrences(w, {ReqSize})
      BY <2>5 DEF ToCome
    <3>2. ToCome(s, E) = Occurrences(s.rx, E) + s.srv + Occurrences(s.wire, {ReqSize})
      BY DEF ToCome
    <3> QED BY <2>3, <2>4, <2>6, <2>7, <3>1, <3>2
  <2> QED BY <1>3, <2>5, <2>8
<1>5. CASE ~(s.tcp = "ESTABLISHED" /\ Len(s.wire) < SndCap)
  <2>1. t = s
    BY <1>5 DEF Sent, Socket
  <2>2. ToCome(s, E) \in Nat
    BY ToComeType
  <2> QED BY <1>3, <2>1, <2>2
<1> QED BY <1>4, <1>5

-----------------------------------------------------------------------------
(* The stream of answers: what is in the buffer, then what can be received. *)

Openers == HeadKinds \ {"empty"}     \* the heads a body follows

\* In the stream s, read by a parser in state p, a body comes after its head.
Framed(p, s) ==
  \A i \in 1..Len(s) : s[i] = "body" => IF i = 1 THEN p = "BODY" ELSE s[i - 1] \in Openers

LEMMA FramedMessage ==
  ASSUME NEW p, NEW s \in Seq(Tokens), Framed(p, s), NEW k \in HeadKinds
  PROVE  Framed(p, s \o Message(k))
<1>1. k # "body" /\ (k # "empty" => k \in Openers)
  BY DEF HeadKinds, Openers
<1>2. CASE k = "empty"
  <2>1. Message(k) = <<k>>
    BY <1>2 DEF Message
  <2> QED BY <1>1, <2>1 DEF Framed
<1>3. CASE k # "empty"
  <2>1. Message(k) = <<k, "body">>
    BY <1>3 DEF Message
  <2> QED BY <1>1, <1>3, <2>1 DEF Framed
<1> QED BY <1>2, <1>3

LEMMA FramedPrefix ==
  ASSUME NEW p, NEW s \in Seq(Tokens), Framed(p, s), NEW n \in 0..Len(s)
  PROVE  Framed(p, SubSeq(s, 1, n))
BY DEF Framed

LEMMA FramedTail ==
  ASSUME NEW p, NEW s \in Seq(Tokens), Framed(p, s), s # <<>>, NEW q,
         Head(s) \in Openers => q = "BODY"
  PROVE  Framed(q, Tail(s))
<1>1. /\ Len(Tail(s)) = Len(s) - 1 /\ Len(s) \in Nat
      /\ \A i \in 1..Len(Tail(s)) : Tail(s)[i] = s[i + 1]
      /\ Head(s) = s[1]
  OBVIOUS
<1> SUFFICES ASSUME NEW i \in 1..Len(Tail(s)), Tail(s)[i] = "body"
             PROVE  IF i = 1 THEN q = "BODY" ELSE Tail(s)[i - 1] \in Openers
  BY DEF Framed
<1>2. i + 1 \in 1..Len(s) /\ s[i + 1] = "body" /\ i + 1 # 1
  BY <1>1
<1>3. s[i] \in Openers
  BY <1>1, <1>2 DEF Framed
<1>4. i # 1 => Tail(s)[i - 1] = s[i]
  BY <1>1
<1> QED BY <1>1, <1>3, <1>4

LEMMA FramedHead ==
  ASSUME NEW p, NEW s \in Seq(Tokens), Framed(p, s), s # <<>>, Head(s) = "body"
  PROVE  p = "BODY"
<1>1. 1 \in 1..Len(s) /\ s[1] = "body"
  OBVIOUS
<1> QED BY <1>1 DEF Framed

LEMMA StreamFacts ==
  ASSUME NEW b \in Seq(Tokens), NEW r \in Seq(Tokens)
  PROVE  /\ b \o r \in Seq(Tokens)
         /\ b \o <<>> = b /\ <<>> \o r = r
         /\ b # <<>> => /\ b \o r # <<>> /\ Head(b \o r) = Head(b)
                       /\ Tail(b \o r) = Tail(b) \o r
         /\ SubSeq(b \o r, 1, Len(b)) = b /\ Len(b) \in 0..Len(b \o r)
<1>1. /\ b \o r \in Seq(Tokens) /\ b \o <<>> = b /\ <<>> \o r = r
      /\ Len(b \o r) = Len(b) + Len(r) /\ Len(b) \in Nat /\ Len(r) \in Nat
  BY LenProperties
<1>2. SubSeq(b \o r, 1, Len(b)) = b
  <2>1. /\ SubSeq(b \o r, 1, Len(b)) \in Seq(Tokens)
        /\ Len(SubSeq(b \o r, 1, Len(b))) = Len(b)
        /\ \A i \in 1..Len(b) : SubSeq(b \o r, 1, Len(b))[i] = b[i]
    BY <1>1
  <2> QED BY <2>1, SeqEqual
<1>3. ASSUME b # <<>>
      PROVE  b \o r # <<>> /\ Head(b \o r) = Head(b) /\ Tail(b \o r) = Tail(b) \o r
  <2>1. Len(b) >= 1
    BY <1>1, <1>3
  <2>2. b \o r # <<>> /\ Head(b \o r) = Head(b)
    BY <1>1, <2>1
  <2>3. /\ Tail(b \o r) \in Seq(Tokens) /\ Tail(b) \o r \in Seq(Tokens)
        /\ Len(Tail(b \o r)) = Len(b) + Len(r) - 1
        /\ Len(Tail(b) \o r) = Len(b) + Len(r) - 1
    BY <1>1, <1>3, <2>1, <2>2
  <2>4. ASSUME NEW i \in 1 .. Len(b) + Len(r) - 1
        PROVE  Tail(b \o r)[i] = (Tail(b) \o r)[i]
    <3>1. Tail(b \o r)[i] = (b \o r)[i + 1]
      BY <1>1, <2>1, <2>2
    <3>2. Len(Tail(b)) = Len(b) - 1 /\ \A j \in 1..(Len(b) - 1) : Tail(b)[j] = b[j + 1]
      BY <1>1, <1>3
    <3> QED BY <1>1, <2>1, <3>1, <3>2
  <2> QED BY <2>2, <2>3, <2>4, SeqEqual
<1> QED BY <1>1, <1>2, <1>3

\* Tokens that are received go from one end of the stream to the other.
LEMMA ReceivedStream ==
  ASSUME NEW r \in Seq(Tokens), NEW n \in 1..Len(r)
  PROVE  SubSeq(r, 1, n) \o SubSeq(r, n + 1, Len(r)) = r
<1>1. /\ Len(r) \in Nat /\ 1 \in 1 .. Len(r) + 1
      /\ n \in 1 - 1 .. Len(r) /\ Len(r) \in n .. Len(r)
  BY LenProperties
<1>2. SubSeq(r, 1, n) \o SubSeq(r, n + 1, Len(r)) = SubSeq(r, 1, Len(r))
  BY <1>1, ConcatAdjacentSubSeq
<1> QED BY <1>2, SubSeqFull

\* The stream without the last of what can be received.
LEMMA PrefixStream ==
  ASSUME NEW b \in Seq(Tokens), NEW r \in Seq(Tokens), NEW n \in 0..Len(r)
  PROVE  /\ SubSeq(r, 1, n) \in Seq(Tokens)
         /\ SubSeq(b \o r, 1, Len(b) + n) = b \o SubSeq(r, 1, n)
<1> DEFINE p == SubSeq(r, 1, n)
           k == Len(b) + n
           q == SubSeq(b \o r, 1, k)
<1>1. Len(b) \in Nat /\ Len(r) \in Nat /\ n \in Nat
  BY LenProperties
<1>2. b \o r \in Seq(Tokens) /\ Len(b \o r) = Len(b) + Len(r)
  BY <1>1
<1>3. p \in Seq(Tokens) /\ Len(p) = n /\ \A i \in 1..n : p[i] = r[i]
  BY <1>1
<1> HIDE DEF p
<1>4. k \in Nat /\ k <= Len(b \o r)
  BY <1>1, <1>2
<1>5. q \in Seq(Tokens) /\ Len(q) = k /\ \A i \in 1..k : q[i] = (b \o r)[i]
  <2> HIDE DEF k
  <2> QED BY <1>2, <1>4
<1> HIDE DEF q
<1>6. b \o p \in Seq(Tokens) /\ Len(b \o p) = k
  BY <1>1, <1>3
<1>7. ASSUME NEW i \in 1..k PROVE (b \o r)[i] = (b \o p)[i]
  BY <1>1, <1>3
<1> QED BY <1>5, <1>6, <1>7, SeqEqual DEF p, q

\* What the peer does keeps the stream framed.
LEMMA FramedMoves ==
  ASSUME NEW p, NEW b \in Seq(Tokens), NEW r \in Seq(Tokens), NEW new, RxMoves(r, new),
         Framed(p, b \o r)
  PROVE  new \in Seq(Tokens) /\ Framed(p, b \o new)
<1>1. CASE new = r
  BY <1>1
<1>2. CASE \E k \in Kinds : new = r \o Message(k)
  <2> PICK k \in Kinds : new = r \o Message(k)
    BY <1>2
  <2>1. k \in HeadKinds /\ Message(k) \in Seq(Tokens)
    BY PeerAssumption, MessageType
  <2>2. b \o r \in Seq(Tokens)
    OBVIOUS
  <2>3. Framed(p, (b \o r) \o Message(k))
    BY <2>1, <2>2, FramedMessage
  <2>4. (b \o r) \o Message(k) = b \o (r \o Message(k))
    BY <2>1, ConcatAssociative
  <2> QED BY <2>1, <2>3, <2>4
<1>3. CASE r # <<>> /\ new = SubSeq(r, 1, Len(r) - 1)
  <2>1. PICK n \in 0..Len(r) : n = Len(r) - 1
    BY <1>3
  <2>2. new \in Seq(Tokens) /\ SubSeq(b \o r, 1, Len(b) + n) = b \o new
    BY <1>3, <2>1, PrefixStream
  <2>3. Len(b) + n \in 0..Len(b \o r) /\ b \o r \in Seq(Tokens)
    OBVIOUS
  <2> QED BY <2>2, <2>3, FramedPrefix
<1> QED BY <1>1, <1>2, <1>3 DEF RxMoves

\* Only what the server sends is received.
LEMMA KnownMoves ==
  ASSUME NEW r \in Seq(Known), NEW new, RxMoves(r, new)
  PROVE  new \in Seq(Known)
<1>1. CASE new = r
  BY <1>1
<1>2. CASE \E k \in Kinds : new = r \o Message(k)
  <2> PICK k \in Kinds : new = r \o Message(k)
    BY <1>2
  <2>1. k \in Known /\ "body" \in Known
    BY DEF Known
  <2>2. <<k>> \in Seq(Known) /\ <<k, "body">> \in Seq(Known)
    BY <2>1
  <2> QED BY <2>2 DEF Message
<1>3. CASE r # <<>> /\ new = SubSeq(r, 1, Len(r) - 1)
  BY <1>3
<1> QED BY <1>1, <1>2, <1>3 DEF RxMoves

\* What a parser makes of the next token of a framed stream.
LEMMA ParseFramed ==
  ASSUME NEW m, m.p_state \in {"VER", "BODY", "GARB"}, NEW t \in Tokens,
         t = "body" => m.p_state = "BODY", NEW o \in Parse(m, t)
  PROVE  \/ /\ o.res = "MORE" /\ o.p_state = "BODY"
            /\ (m.p_state = "VER" /\ t \in {"ok", "close"}) \/ (m.p_state = "BODY" /\ t # "body")
         \/ /\ o.res = "FINISH"
            /\ (m.p_state = "VER" /\ t = "empty") \/ (m.p_state = "BODY" /\ t = "body")
         \/ /\ o.p_state = "DONE" /\ m.p_state = "VER" /\ t \in Openers
            /\ \/ o.res = "REDIRECT" /\ t = "redirect"
               \/ o.res = "CLIENT_ERR" /\ t \in {"keep4", "close4"}
               \/ o.res = "SERVER_ERR"
         \/ o.res = "NOT_SUPPORT" /\ o.p_state = "GARB" /\ m.p_state = "VER" /\ t = "odd"
         \/ o.res = "ERROR" /\ o.p_state = "GARB" /\ m.p_state = "GARB"
<1>1. CASE m.p_state = "VER"
  <2>1. t \in HeadKinds
    BY <1>1 DEF Tokens
  <2> QED BY <1>1, <2>1 DEF Parse, Outcome, HeadKinds, Openers
<1>2. CASE m.p_state = "BODY"
  <2>1. CASE t = "body"
    BY <1>2, <2>1 DEF Parse, Outcome
  <2>2. CASE t # "body"
    <3>1. o = Outcome("MORE", m.p_state, m.is_close, m.status)
      BY <1>2, <2>2 DEF Parse
    <3> QED BY <1>2, <2>2, <3>1 DEF Outcome
  <2> QED BY <2>1, <2>2
<1>3. CASE m.p_state = "GARB"
  BY <1>3 DEF Parse, Outcome
<1> QED BY <1>1, <1>2, <1>3

-----------------------------------------------------------------------------
(* Sockets whose stream of requests is cut where the client thinks it is. *)

LEMMA ModUnique ==
  ASSUME NEW b \in Nat \ {0}, NEW a \in Nat, NEW q \in Nat, NEW r \in 0..(b - 1), a = b * q + r
  PROVE  a % b = r /\ a \div b = q
<1> DEFINE p == a \div b
           m == a % b
<1>1. p \in Nat /\ m \in 0..(b - 1) /\ a = b * p + m
  BY DivMod
<1> HIDE DEF p, m
<1>2. /\ b * p \in Nat /\ b * q \in Nat
      /\ b * (p + 1) = b * p + b /\ b * (q + 1) = b * q + b
  BY <1>1, Multiply
<1>3. ~ b * (p + 1) <= b * q /\ ~ b * (q + 1) <= b * p
  BY <1>1, <1>2
<1>4. p + 1 \in Nat /\ q + 1 \in Nat
  BY <1>1
<1>5. ASSUME p # q PROVE FALSE
  <2>1. CASE p < q
    <3>1. PICK d \in Nat : q = (p + 1) + d
      <4>1. q - (p + 1) \in Nat /\ q = (p + 1) + (q - (p + 1))
        BY <1>1, <2>1
      <4> QED BY <4>1
    <3>2. b * q = b * (p + 1) + b * d /\ b * d \in Nat
      BY <1>4, <3>1, SMT
    <3> QED BY <1>1, <1>2, <1>3, <3>2
  <2>2. CASE q < p
    <3>1. PICK d \in Nat : p = (q + 1) + d
      <4>1. p - (q + 1) \in Nat /\ p = (q + 1) + (p - (q + 1))
        BY <1>1, <2>2
      <4> QED BY <4>1
    <3>2. b * p = b * (q + 1) + b * d /\ b * d \in Nat
      BY <1>4, <3>1, SMT
    <3> QED BY <1>1, <1>2, <1>3, <3>2
  <2> QED BY <1>1, <1>5, <2>1, <2>2
<1>6. p = q
  BY <1>5
<1>7. m = r
  BY <1>1, <1>2, <1>6
<1> QED BY <1>6, <1>7 DEF p, m

LEMMA ModPlus ==
  ASSUME NEW b \in Nat \ {0}, NEW a \in Nat, NEW n \in Nat
  PROVE  ((a % b) + n) % b = (a + n) % b
<1> DEFINE q == a \div b
           r == a % b
           p == (r + n) \div b
           m == (r + n) % b
<1>1. q \in Nat /\ r \in 0..(b - 1) /\ a = b * q + r
  BY DivMod
<1> HIDE DEF q, r
<1>2. p \in Nat /\ m \in 0..(b - 1) /\ r + n = b * p + m
  <2>1. r + n \in Nat
    BY <1>1
  <2> QED BY <2>1, DivMod
<1> HIDE DEF p, m
<1>3. b * (q + p) = b * q + b * p /\ b * q \in Nat /\ b * p \in Nat
  BY <1>1, <1>2, SMT
<1>4. a + n = b * (q + p) + m /\ q + p \in Nat /\ a + n \in Nat
  BY <1>1, <1>2, <1>3
<1>5. (a + n) % b = m
  BY <1>2, <1>4, ModUnique
<1> QED BY <1>5 DEF m, r

Live(s) == s.tcp \in {"SYN_SENT", "ESTABLISHED"}

\* The units written and not read go on where the server stands, up to a part
\* of left units of the next request.
Even(s, left) ==
  /\ ~s.bad
  /\ \A i \in 1..Len(s.wire) : s.wire[i] = ((s.frag + i - 1) % ReqSize) + 1
  /\ (s.frag + Len(s.wire)) % ReqSize = left

LEMMA EvenNew == Live(NewSocket) /\ Even(NewSocket, 0)
<1>1. ReqSize \in Nat \ {0} /\ 0 \in 0..(ReqSize - 1)
  BY PeerAssumption
<1>2. 0 % ReqSize = 0
  BY <1>1, Remainder
<1> QED BY <1>2 DEF NewSocket, Live, Even

\* The server reads on where it stands.
LEMMA EvenRead ==
  ASSUME NEW s \in Socket, s.wire # <<>>, NEW left, Even(s, left)
  PROVE  Head(s.wire) = s.frag + 1 /\ Even(ReadUnit(s), left)
<1> DEFINE R == ReqSize
           w == s.wire
           f == s.frag
           g == (f + 1) % R
           n == IF f + 1 = R THEN s.srv + 1 ELSE s.srv
<1>1. R \in Nat \ {0} /\ w \in Seq(1..R) /\ Len(w) \in Nat /\ Len(w) >= 1 /\ f \in 0..(R - 1)
  BY PeerAssumption DEF Socket
<1>2. Head(w) = f + 1
  <2>1. w[1] = ((f + 1 - 1) % R) + 1
    BY <1>1 DEF Even
  <2>2. (f + 1 - 1) % R = f
    BY <1>1, Remainder
  <2> QED BY <1>1, <2>1, <2>2
<1>3. ReadUnit(s) = [s EXCEPT !.wire = Tail(w), !.frag = g, !.srv = n]
  BY <1>2 DEF ReadUnit
<1> DEFINE v == Tail(w)
<1>4. /\ v \in Seq(1..R) /\ Len(v) = Len(w) - 1
      /\ \A i \in 1..Len(v) : v[i] = w[i + 1]
  <2>1. w # <<>>
    OBVIOUS
  <2> HIDE DEF w, R
  <2>2. Len(v) = Len(w) - 1 /\ \A i \in 1..Len(v) : v[i] = w[i + 1]
    BY <1>1, <2>1
  <2>3. v \in Seq(1..R)
    BY <1>1, <2>1
  <2> QED BY <2>2, <2>3
<1>5. ASSUME NEW i \in 1..Len(v) PROVE v[i] = ((g + i - 1) % R) + 1
  <2>0. i \in 1..Len(v)
    OBVIOUS
  <2>1. i \in Nat /\ i - 1 \in Nat /\ i + 1 \in 1..Len(w) /\ f + 1 \in Nat
    <3> HIDE DEF v, w, f, R
    <3> QED BY <1>1, <1>4, <2>0
  <2>2. w[i + 1] = ((f + (i + 1) - 1) % R) + 1
    BY <2>1 DEF Even
  <2>3. (g + (i - 1)) % R = ((f + 1) + (i - 1)) % R
    BY <1>1, <2>1, ModPlus
  <2>4. g \in 0..(R - 1)
    <3>1. f + 1 \in Int
      BY <2>1
    <3> HIDE DEF f, R
    <3> QED BY <1>1, <3>1, ModRange
  <2> HIDE DEF g, f, R, v, w
  <2>5. g + (i - 1) = g + i - 1 /\ (f + 1) + (i - 1) = f + (i + 1) - 1
    BY <1>1, <2>1, <2>4
  <2> QED BY <1>4, <2>0, <2>2, <2>3, <2>5
<1>6. (g + Len(v)) % R = left
  <2>1. f + 1 \in Nat /\ Len(v) \in Nat /\ (f + 1) + Len(v) = f + Len(w)
    <3> HIDE DEF v, w, f, R
    <3> QED BY <1>1, <1>4
  <2>2. (g + Len(v)) % R = ((f + 1) + Len(v)) % R
    BY <1>1, <2>1, ModPlus
  <2>3. (f + Len(w)) % R = left
    BY DEF Even
  <2> HIDE DEF g, v
  <2> QED BY <2>1, <2>2, <2>3
<1> DEFINE t == [s EXCEPT !.wire = v, !.frag = g, !.srv = n]
<1>7. t.wire = v /\ t.frag = g /\ t.bad = s.bad /\ ReadUnit(s) = t
  BY <1>3 DEF Socket
<1> HIDE DEF t, v, g, n
<1>8. Even(t, left)
  BY <1>5, <1>6, <1>7 DEF Even
<1> QED BY <1>2, <1>7, <1>8

\* send() of m more units that go on where the stream is cut.
LEMMA EvenMore ==
  ASSUME NEW s \in Socket, NEW left \in Nat, Even(s, left), NEW m \in Nat
  PROVE  Even([s EXCEPT !.wire = @ \o Units(left, m)], (left + m) % ReqSize)
<1> DEFINE R == ReqSize
           w == s.wire
           f == s.frag
           u == Units(left, m)
           v == w \o u
           t == [s EXCEPT !.wire = v]
<1>1. R \in Nat \ {0} /\ w \in Seq(1..R) /\ Len(w) \in Nat /\ f \in Nat
      /\ (f + Len(w)) % R = left /\ f + Len(w) \in Nat
  <2>1. R \in Nat \ {0} /\ w \in Seq(1..R) /\ Len(w) \in Nat /\ f \in 0..(R - 1)
    BY PeerAssumption DEF Socket
  <2>2. (f + Len(w)) % R = left
    BY DEF Even
  <2> HIDE DEF w, f, R
  <2> QED BY <2>1, <2>2
<1>2. u \in Seq(1..R) /\ Len(u) = m /\ \A k \in 1..m : u[k] = ((left + k - 1) % R) + 1
  BY <1>1, UnitsType DEF Units
<1> HIDE DEF u
<1>3. /\ Len(v) = Len(w) + m
      /\ \A i \in 1..(Len(w) + m) : v[i] = IF i <= Len(w) THEN w[i] ELSE u[i - Len(w)]
  <2> HIDE DEF w, R, f
  <2>1. Len(v) = Len(w) + m
    <3>1. w \in Seq(1..R) /\ u \in Seq(1..R) /\ Len(u) = m
      BY <1>1, <1>2
    <3> QED BY <3>1
  <2>2. ASSUME NEW i \in 1..(Len(w) + m) PROVE v[i] = IF i <= Len(w) THEN w[i] ELSE u[i - Len(w)]
    BY <1>1, <1>2
  <2> QED BY <2>1, <2>2
<1> HIDE DEF v
<1>4. ASSUME NEW i \in 1..Len(v) PROVE v[i] = ((f + i - 1) % R) + 1
  <2>0. \A j \in 1..Len(w) : w[j] = ((f + j - 1) % R) + 1
    BY DEF Even
  <2> HIDE DEF w, f, R
  <2>1. CASE i <= Len(w)
    <3>1. i \in 1..Len(w) /\ i \in 1..(Len(w) + m)
      BY <1>1, <1>3, <2>1
    <3>2. v[i] = w[i]
      BY <1>3, <2>1, <3>1
    <3> QED BY <2>0, <3>1, <3>2
  <2>2. CASE i > Len(w)
    <3> DEFINE k == i - Len(w)
    <3>1. i \in 1..(Len(w) + m) /\ i \in Nat /\ ~ i <= Len(w)
      BY <1>1, <1>3, <2>2
    <3>2. v[i] = u[k]
      BY <1>3, <3>1
    <3>3. k \in 1..m /\ k - 1 \in Nat
      BY <1>1, <3>1
    <3>4. (((f + Len(w)) % R) + (k - 1)) % R = ((f + Len(w)) + (k - 1)) % R
      BY <1>1, <3>3, ModPlus
    <3>5. left + (k - 1) = left + k - 1 /\ (f + Len(w)) + (k - 1) = f + i - 1
      BY <1>1, <3>1, <3>3
    <3> HIDE DEF k
    <3>6. u[k] = ((left + (k - 1)) % R) + 1
      BY <1>2, <3>3, <3>5
    <3> QED BY <1>1, <3>2, <3>4, <3>5, <3>6
  <2> QED BY <1>1, <1>3, <2>1, <2>2
<1>5. (f + Len(v)) % R = (left + m) % R
  <2> HIDE DEF w, f, R
  <2>1. (f + Len(w)) + m = f + Len(v)
    BY <1>1, <1>3
  <2>2. (((f + Len(w)) % R) + m) % R = ((f + Len(w)) + m) % R
    BY <1>1, ModPlus
  <2> QED BY <1>1, <2>1, <2>2
<1>6. t.wire = v /\ t.frag = f /\ t.bad = s.bad
  BY DEF Socket
<1>7. Even(t, (left + m) % R)
  <2> HIDE DEF t
  <2> QED BY <1>4, <1>5, <1>6 DEF Even
<1> QED BY <1>7 DEF v, u

\* A stream that is cut between two requests and holds the end of none is empty.
LEMMA EvenEmpty ==
  ASSUME NEW s \in Socket, Even(s, 0), Occurrences(s.wire, {ReqSize}) = 0
  PROVE  s.wire = <<>>
<1> SUFFICES ASSUME s.wire # <<>> PROVE FALSE
  OBVIOUS
<1> DEFINE R == ReqSize
           w == s.wire
           n == s.frag + Len(w)
<1>1. R \in Nat \ {0} /\ w \in Seq(1..R) /\ Len(w) \in Nat /\ Len(w) >= 1 /\ s.frag \in Nat
  BY PeerAssumption DEF Socket
<1>2. n \in Nat /\ n >= 1 /\ n % R = 0 /\ w[Len(w)] = ((n - 1) % R) + 1
  <2>1. (s.frag + Len(w)) % R = 0 /\ Len(w) \in 1..Len(w)
    BY <1>1 DEF Even
  <2>2. w[Len(w)] = ((s.frag + Len(w) - 1) % R) + 1
    BY <2>1 DEF Even
  <2>3. s.frag + Len(w) - 1 = (s.frag + Len(w)) - 1 /\ n \in Nat /\ n >= 1
    <3> DEFINE f == s.frag
    <3>1. f \in Nat
      BY <1>1
    <3> HIDE DEF f, w
    <3>2. f + Len(w) - 1 = (f + Len(w)) - 1 /\ f + Len(w) \in Nat /\ f + Len(w) >= 1
      BY <1>1, <3>1
    <3> QED BY <3>2 DEF f
  <2> QED BY <2>1, <2>2, <2>3
<1>3. (n - 1) % R = R - 1
  <2> DEFINE q == n \div R
  <2> HIDE DEF n
  <2>1. q \in Nat /\ n = R * q + 0
    BY <1>1, <1>2, Quotient
  <2> HIDE DEF q
  <2>2. R * 0 = 0
    BY <1>1
  <2>3. q # 0
    BY <1>2, <2>1, <2>2
  <2>4. q - 1 \in Nat /\ R * ((q - 1) + 1) = R * (q - 1) + R
    BY <1>1, <2>1, <2>3, Multiply
  <2>5. (q - 1) + 1 = q /\ R * (q - 1) \in Nat
    BY <1>1, <2>1, <2>4, Multiply
  <2>6. n - 1 = R * (q - 1) + (R - 1) /\ n - 1 \in Nat /\ R - 1 \in 0..(R - 1)
    <3> DEFINE a == R * (q - 1)
               b == R * q
    <3>1. a \in Nat /\ b = a + R /\ n = b /\ b \in Nat
      BY <1>1, <2>1, <2>4, <2>5
    <3> HIDE DEF a, b, R
    <3>2. n - 1 = a + (R - 1) /\ n - 1 \in Nat /\ R - 1 \in 0..(R - 1)
      BY <1>1, <1>2, <3>1
    <3> QED BY <3>2 DEF a
  <2>7. R \in Nat \ {0} /\ q - 1 \in Nat
    BY <1>1, <2>4
  <2> HIDE DEF R
  <2> QED BY <2>6, <2>7, ModUnique
<1>4. w[Len(w)] = R /\ Len(w) \in 1..Len(w)
  <2> HIDE DEF n, w
  <2>1. (R - 1) + 1 = R
    BY <1>1
  <2>2. Len(w) \in 1..Len(w)
    BY <1>1
  <2> QED BY <1>2, <1>3, <2>1, <2>2
<1> QED BY <1>1, <1>4, OccZero

\* The units written from offset from on end as many requests as fit in.
LEMMA UnitsCount ==
  ASSUME NEW from \in 0..(ReqSize - 1), NEW m \in Nat
  PROVE  Occurrences(Units(from, m), {ReqSize}) = (from + m) \div ReqSize
<1> DEFINE R == ReqSize
           q == (from + m) \div R
           r == (from + m) % R
           I == {k \in DOMAIN Units(from, m) : Units(from, m)[k] \in {R}}
           f == [j \in 1..q |-> R * j - from]
<1>1. R \in Nat \ {0} /\ from \in Nat /\ from < R
  BY PeerAssumption
<1>2. q \in Nat /\ r \in 0..(R - 1) /\ from + m = R * q + r
  <2>1. from + m \in Nat
    BY <1>1
  <2> QED BY <1>1, <2>1, DivMod
<1> HIDE DEF q, r
<1>3. I = {k \in 1..m : (from + k - 1) % R = R - 1}
  <2>1. ASSUME NEW k \in 1..m PROVE (from + k - 1) % R \in Int
    <3>1. from + k - 1 \in Int
      BY <1>1
    <3> QED BY <1>1, <3>1, ModRange
  <2>2. Units(from, m) = [k \in 1..m |-> ((from + k - 1) % R) + 1]
    BY DEF Units
  <2>3. I = {k \in 1..m : ((from + k - 1) % R) + 1 = R}
    BY <2>2
  <2>4. ASSUME NEW k \in 1..m
        PROVE  ((from + k - 1) % R) + 1 = R <=> (from + k - 1) % R = R - 1
    <3> DEFINE x == (from + k - 1) % R
    <3>1. x \in Int
      BY <2>1
    <3> HIDE DEF x
    <3>2. x + 1 = R <=> x = R - 1
      BY <1>1, <3>1
    <3> QED BY <3>2 DEF x
  <2> QED BY <2>3, <2>4
<1> HIDE DEF I
<1>4. ASSUME NEW j \in 1..q PROVE R * j - from \in I
  <2>1. /\ R * j \in Nat /\ j - 1 \in Nat /\ R * (j - 1) \in Nat
        /\ R * ((j - 1) + 1) = R * (j - 1) + R /\ (j - 1) + 1 = j
    BY <1>1, <1>2, Multiply
  <2>2. R * j <= R * q
    <3>1. PICK d \in Nat : q = j + d
      <4>1. q - j \in Nat /\ q = j + (q - j)
        BY <1>2
      <4> QED BY <4>1
    <3>2. R * q = R * j + R * d /\ R * d \in Nat
      BY <1>1, <3>1, SMT
    <3> QED BY <2>1, <3>2
  <2> DEFINE k == R * j - from
  <2>3. k \in 1..m
    <3>1. R * q \in Nat
      BY <1>1, <1>2, Multiply
    <3> QED BY <1>1, <1>2, <2>1, <2>2, <3>1
  <2>4. from + k - 1 = R * (j - 1) + (R - 1) /\ R - 1 \in 0..(R - 1) /\ from + k - 1 \in Nat
    BY <1>1, <2>1
  <2>5. (from + k - 1) % R = R - 1
    <3> HIDE DEF k
    <3> QED BY <1>1, <2>1, <2>4, ModUnique
  <2> QED BY <1>3, <2>3, <2>5
<1>5. ASSUME NEW k \in I PROVE \E j \in 1..q : R * j - from = k
  <2>1. k \in 1..m /\ (from + k - 1) % R = R - 1 /\ from + k - 1 \in Nat
    BY <1>1, <1>3
  <2> DEFINE d == (from + k - 1) \div R
  <2>2. d \in Nat /\ from + k - 1 = R * d + (R - 1)
    BY <1>1, <2>1, Quotient
  <2> HIDE DEF d
  <2>3. R * (d + 1) = R * d + R /\ R * d \in Nat
    BY <1>1, <2>2, Multiply
  <2>4. from + k = R * (d + 1) /\ R * (d + 1) - from = k
    BY <1>1, <2>1, <2>2, <2>3
  <2>5. d + 1 <= q
    <3>1. R * (q + 1) = R * q + R /\ R * q \in Nat /\ q + 1 \in Nat /\ d + 1 \in Nat
      BY <1>1, <1>2, <2>2, Multiply
    <3>2. R * (d + 1) < R * (q + 1)
      BY <1>1, <1>2, <2>1, <2>4, <3>1
    <3>3. ASSUME q + 1 <= d + 1 PROVE FALSE
      <4>1. PICK e \in Nat : d + 1 = (q + 1) + e
        <5>1. (d + 1) - (q + 1) \in Nat /\ d + 1 = (q + 1) + ((d + 1) - (q + 1))
          BY <3>1, <3>3
        <5> QED BY <5>1
      <4>2. R * (d + 1) = R * (q + 1) + R * e /\ R * e \in Nat
        BY <1>1, <3>1, <4>1, SMT
      <4>3. R * (q + 1) \in Nat
        BY <1>1, <3>1, Multiply
      <4> QED BY <3>2, <4>2, <4>3
    <3> QED BY <1>2, <2>2, <3>3
  <2>6. d + 1 \in 1..q
    BY <1>2, <2>2, <2>5
  <2> QED BY <2>4, <2>6
<1>6. f \in [1..q -> I]
  BY <1>4
<1>7. \A x, y \in 1..q : f[x] = f[y] => x = y
  <2> TAKE x, y \in 1..q
  <2> HAVE f[x] = f[y]
  <2>1. x \in Nat /\ y \in Nat
    BY <1>2
  <2>2. R * x \in Nat /\ R * y \in Nat
    BY <1>1, <2>1, Multiply
  <2>3. R * x = R * y
    BY <1>1, <2>2
  <2> QED BY <1>1, <2>1, <2>2, <2>3, Multiply
<1>8. \A t \in I : \E x \in 1..q : f[x] = t
  BY <1>5
<1>9. IsFiniteSet(1..q) /\ Cardinality(1..q) = q
  BY <1>2, FS_Interval
<1> HIDE DEF f
<1>10. Cardinality(I) = q
  BY <1>6, <1>7, <1>8, <1>9, SameNumber
<1> QED BY <1>10 DEF Occurrences, I, q

\* send() to a live socket, continuing its stream: all it takes arrives, and
\* the stream is cut where it stopped.
LEMMA SentEven ==
  ASSUME NEW s \in Socket, Live(s), NEW left \in 0..(ReqSize - 1), Even(s, left),
         NEW n \in Nat, NEW E, NEW try, try = Sent(s, left, n)
  PROVE  /\ try.ret \in {"OK", "AGAIN"} /\ try.n \in Nat
         /\ try.ret = "AGAIN" => try.peer = s
         /\ try.ret = "OK" =>
              /\ try.n = Smaller(n, SndCap - Len(s.wire))
              /\ Even(try.peer, (left + try.n) % ReqSize)
              /\ ToCome(try.peer, E) = ToCome(s, E) + ((left + try.n) \div ReqSize)
         /\ try.peer \in Socket /\ try.peer.tcp = s.tcp /\ try.peer.rx = s.rx
<1> DEFINE m == Smaller(n, SndCap - Len(s.wire))
           u == Units(left, m)
           w == s.wire \o u
           t == [s EXCEPT !.wire = w]
<1>1. /\ s.wire \in Seq(1..ReqSize) /\ Len(s.wire) \in Nat /\ SndCap \in Nat
      /\ ReqSize \in Nat \ {0} /\ left \in Nat
  BY PeerAssumption DEF Socket
<1>2. CASE s.tcp = "ESTABLISHED" /\ Len(s.wire) < SndCap
  <2>1. try = [ret |-> "OK", n |-> m, peer |-> t]
    BY <1>2 DEF Sent
  <2>2. m \in Nat
    BY <1>1, <1>2 DEF Smaller
  <2> HIDE DEF m
  <2>3. Even(t, (left + m) % ReqSize)
    BY <1>1, <2>2, EvenMore
  <2>4. u \in Seq(1..ReqSize) /\ Occurrences(u, {ReqSize}) = (left + m) \div ReqSize
    BY <1>1, <2>2, UnitsType, UnitsCount
  <2> HIDE DEF u
  <2>5. /\ Occurrences(w, {ReqSize}) = Occurrences(s.wire, {ReqSize}) + Occurrences(u, {ReqSize})
        /\ w \in Seq(1..ReqSize)
    BY <1>1, <2>4, OccConcat
  <2> HIDE DEF w
  <2>6. /\ t \in Socket /\ t.rx = s.rx /\ t.tcp = s.tcp /\ t.srv = s.srv /\ t.wire = w
    BY <2>5 DEF Socket
  <2>7. /\ Occurrences(s.rx, E) \in Nat /\ s.srv \in Nat
        /\ Occurrences(s.wire, {ReqSize}) \in Nat
    BY ToComeType
  <2>8. Occurrences(u, {ReqSize}) \in Nat
    BY <2>4, OccType
  <2> HIDE DEF t
  <2>9. ToCome(t, E) = ToCome(s, E) + Occurrences(u, {ReqSize})
    <3>1. ToCome(t, E) = Occurrences(s.rx, E) + s.srv + Occurrences(w, {ReqSize})
      BY <2>6 DEF ToCome
    <3>2. ToCome(s, E) = Occurrences(s.rx, E) + s.srv + Occurrences(s.wire, {ReqSize})
      BY DEF ToCome
    <3> QED BY <2>5, <2>7, <2>8, <3>1, <3>2
  <2> QED BY <2>1, <2>2, <2>3, <2>4, <2>6, <2>9 DEF m
<1>3. CASE ~(s.tcp = "ESTABLISHED" /\ Len(s.wire) < SndCap)
  <2>1. try = [ret |-> "AGAIN", n |-> 0, peer |-> s]
    BY <1>3 DEF Sent, Live
  <2> QED BY <2>1
<1> QED BY <1>2, <1>3

\* A step of the network or of the server on a socket s: where it stays live
\* nothing of its streams is lost, and only a fault makes it stop being live.
LEMMA LiveStep ==
  ASSUME PeerTypeOK, NEW c \in Conns, PeerStep(c)
  PROVE  \E t \in Socket :
           /\ net' = [net EXCEPT ![c] = t]
           /\ Live(t) =>
                /\ Live(net[c])
                /\ \A left : Even(net[c], left) =>
                     Even(t, left) /\ \A E \in OneEach : ToCome(t, E) = ToCome(net[c], E)
                /\ \/ t.rx = net[c].rx
                   \/ \E k \in Kinds : /\ t.rx = net[c].rx \o Message(k)
                                       /\ k \in Friendly \/ faults' # faults
           /\ Live(net[c]) /\ ~net[c].bad /\ faults' = faults => Live(t)
           /\ net[c].tcp = "CLOSE" => t.tcp = "CLOSE"
           /\ PeerGone(net[c]) => PeerGone(t)
<1> DEFINE s == net[c]
<1>0. s \in Socket /\ faults \in Nat
  BY PeerAssumption DEF PeerTypeOK
<1>1. ASSUME NEW t \in Socket, net' = [net EXCEPT ![c] = t], ~Live(t), faults' # faults \/ s.bad \/ ~Live(s),
             s.tcp = "CLOSE" => t.tcp = "CLOSE", PeerGone(s) => PeerGone(t)
      PROVE  \E v \in Socket :
           /\ net' = [net EXCEPT ![c] = v]
           /\ Live(v) =>
                /\ Live(net[c])
                /\ \A left : Even(net[c], left) =>
                     Even(v, left) /\ \A E \in OneEach : ToCome(v, E) = ToCome(net[c], E)
                /\ \/ v.rx = net[c].rx
                   \/ \E k \in Kinds : /\ v.rx = net[c].rx \o Message(k)
                                       /\ k \in Friendly \/ faults' # faults
           /\ Live(net[c]) /\ ~net[c].bad /\ faults' = faults => Live(v)
           /\ net[c].tcp = "CLOSE" => v.tcp = "CLOSE"
           /\ PeerGone(net[c]) => PeerGone(v)
  BY <1>1
<1>2. ASSUME NEW x \in Socket, NEW state \in {"CLOSE_WAIT", "CLOSE"},
             NEW why \in {"NONE", "REFUSED", "RESET", "PIPE"}
      PROVE  /\ Gone(x, state, why) \in Socket /\ Gone(x, state, why).tcp = state
             /\ ~Live(Gone(x, state, why)) /\ PeerGone(Gone(x, state, why))
  <2>1. Gone(x, state, why).tcp = state
    BY <1>2 DEF Gone, Socket
  <2> QED BY <1>2, <2>1, GoneType DEF Live, PeerGone
<1>3. CASE Establish(c)
  <2> DEFINE t == [s EXCEPT !.tcp = "ESTABLISHED"]
  <2>1. net' = [net EXCEPT ![c] = t] /\ s.tcp = "SYN_SENT" /\ faults' = faults
    BY <1>3 DEF Establish
  <2>2. /\ t \in Socket /\ t.rx = s.rx /\ t.tcp = "ESTABLISHED" /\ t.bad = s.bad
        /\ t.frag = s.frag /\ t.srv = s.srv /\ t.wire = s.wire
    BY <1>0 DEF Socket
  <2> HIDE DEF t
  <2>3. ASSUME NEW left, Even(s, left)
        PROVE  Even(t, left) /\ \A E \in OneEach : ToCome(t, E) = ToCome(s, E)
    BY <2>2, <2>3 DEF Even, ToCome
  <2>4. Live(s) /\ Live(t) /\ s.tcp # "CLOSE" /\ ~PeerGone(s)
    BY <2>1, <2>2 DEF Live, PeerGone
  <2> QED BY <2>1, <2>2, <2>3, <2>4
<1>4. CASE ServerRead(c)
  <2> DEFINE t == ReadUnit(s)
  <2>1. /\ net' = [net EXCEPT ![c] = t] /\ s.wire # <<>> /\ s.tcp = "ESTABLISHED"
    BY <1>4 DEF ServerRead
  <2>2. t \in Socket /\ t.rx = s.rx /\ t.tcp = s.tcp
    BY <1>0, <2>1, ReadUnitType, ReadUnitToCome
  <2>3. ASSUME NEW left, Even(s, left)
        PROVE  Even(t, left) /\ \A E \in OneEach : ToCome(t, E) = ToCome(s, E)
    <3>1. Head(s.wire) = s.frag + 1 /\ Even(t, left)
      BY <1>0, <2>1, <2>3, EvenRead
    <3> QED BY <1>0, <2>1, <3>1, ReadUnitToCome
  <2>4. Live(s) /\ Live(t) /\ s.tcp # "CLOSE" /\ ~PeerGone(s)
    BY <2>1, <2>2 DEF Live, PeerGone
  <2> HIDE DEF t
  <2> QED BY <2>1, <2>2, <2>3, <2>4
<1>5. CASE Refuse(c)
  <2>1. net' = [net EXCEPT ![c] = Gone(s, "CLOSE", "REFUSED")] /\ faults' # faults
    BY <1>0, <1>5 DEF Refuse, Fault
  <2> QED BY <1>0, <1>1, <1>2, <2>1
<1>6. CASE AnswerBad(c)
  <2> DEFINE r == s.rx \o Message("close4")
             x == [s EXCEPT !.rx = r]
  <2>1. /\ net' = [net EXCEPT ![c] = Gone(x, "CLOSE_WAIT", "NONE")]
        /\ s.bad /\ s.tcp = "ESTABLISHED"
    BY <1>6 DEF AnswerBad, Rejected
  <2>2. r \in Seq(Tokens)
    <3>1. Message("close4") \in Seq(Tokens) /\ s.rx \in Seq(Tokens)
      BY <1>0, MessageType DEF HeadKinds, Socket
    <3> QED BY <3>1
  <2> HIDE DEF r
  <2>3. x \in Socket
    BY <1>0, <2>2 DEF Socket
  <2> HIDE DEF x
  <2> QED BY <1>1, <1>2, <2>1, <2>3
<1>7. CASE Fin(c)
  <2>1. PICK x \in Cut(s) : net' = [net EXCEPT ![c] = Gone(x, "CLOSE_WAIT", "NONE")]
    BY <1>7 DEF Fin
  <2>2. x \in Socket /\ faults' # faults /\ s.tcp = "ESTABLISHED"
    BY <1>0, <1>7, CutType DEF Fin, Fault
  <2> QED BY <1>1, <1>2, <2>1, <2>2
<1>8. CASE Rst(c)
  <2>1. CASE s.tcp = "ESTABLISHED"
    <3>1. PICK x \in Cut(s) : net' = [net EXCEPT ![c] = Gone(x, "CLOSE", "RESET")]
      BY <1>8, <2>1 DEF Rst
    <3>2. x \in Socket /\ faults' # faults
      BY <1>0, <1>8, <2>1, CutType DEF Rst, Fault
    <3> QED BY <1>1, <1>2, <3>1, <3>2
  <2>2. CASE s.tcp # "ESTABLISHED"
    <3>1. net' = [net EXCEPT ![c] = Gone(s, "CLOSE", "PIPE")] /\ ~Live(s)
      BY <1>8, <2>2 DEF Rst, Live
    <3> QED BY <1>0, <1>1, <1>2, <3>1
  <2> QED BY <2>1, <2>2
<1>9. CASE \E k \in Kinds : Answer(c, k)
  <2> PICK k \in Kinds : Answer(c, k)
    BY <1>9
  <2> DEFINE r == s.rx \o Message(k)
             t == Answered(s, k)
  <2>1. /\ k \in HeadKinds /\ s.srv > 0 /\ s.tcp = "ESTABLISHED"
        /\ net' = [net EXCEPT ![c] = IF k \in Closing THEN Gone(t, "CLOSE_WAIT", "NONE") ELSE t]
        /\ k \notin Friendly => faults' # faults
    BY <1>0, PeerAssumption DEF Answer, Fault, Answered
  <2>2. ASSUME NEW E \in OneEach
        PROVE  t \in Socket /\ t.rx = r /\ t.tcp = s.tcp /\ ToCome(t, E) = ToCome(s, E)
    <3>1. s \in Socket
      BY <1>0
    <3>2. s.srv > 0
      BY <2>1
    <3> HIDE DEF s
    <3>3. t \in Socket /\ t.rx = s.rx \o Message(k) /\ t.tcp = s.tcp
      BY <2>1, <3>1, <3>2, AnsweredType
    <3>4. ToCome(t, E) = ToCome(s, E)
      BY <2>1, <3>1, <3>2, AnswerToCome
    <3> QED BY <3>3, <3>4
  <2>3. /\ t.wire = s.wire /\ t.frag = s.frag /\ t.bad = s.bad
    BY <1>0 DEF Socket, Answered
  <2>4. t \in Socket /\ t.rx = r /\ t.tcp = "ESTABLISHED"
    BY <2>1, <2>2 DEF OneEach
  <2> HIDE DEF t
  <2>5. \A left : Even(s, left) => Even(t, left)
    BY <2>3 DEF Even
  <2>6. Live(s) /\ Live(t) /\ s.tcp # "CLOSE" /\ ~PeerGone(s)
    BY <2>1, <2>4 DEF Live, PeerGone
  <2>7. CASE k \in Closing
    <3>1. faults' # faults
      BY <2>1, <2>7 DEF Closing, Friendly
    <3> QED BY <1>1, <1>2, <2>1, <2>4, <2>7, <3>1
  <2>8. CASE k \notin Closing
    BY <2>1, <2>2, <2>4, <2>5, <2>6, <2>8
  <2> QED BY <2>7, <2>8
<1> QED BY <1>3, <1>4, <1>5, <1>6, <1>7, <1>8, <1>9 DEF PeerStep

\* In the stream s, read by a parser in state p, every head that a body
\* follows is followed by it.
Paired(p, s) ==
  \A i \in 0..Len(s) : (IF i = 0 THEN p = "BODY" ELSE s[i] \in Openers)
                       => i + 1 \in 1..Len(s) /\ s[i + 1] = "body"

LEMMA PairedMessage ==
  ASSUME NEW p, NEW s \in Seq(Tokens), Paired(p, s), NEW k \in HeadKinds
  PROVE  Paired(p, s \o Message(k))
<1> DEFINE m == Message(k)
           t == s \o m
<1>1. /\ m \in Seq(Tokens) /\ Len(m) \in {1, 2} /\ m[1] = k
      /\ k \in Openers => Len(m) = 2 /\ m[2] = "body"
      /\ Len(m) = 2 => m[2] = "body"
  <2>1. m \in Seq(Tokens)
    BY MessageType
  <2>2. CASE k = "empty"
    <3>1. m = <<k>>
      BY <2>2 DEF Message
    <3> QED BY <2>1, <2>2, <3>1 DEF Openers
  <2>3. CASE k # "empty"
    <3>1. m = <<k, "body">>
      BY <2>3 DEF Message
    <3> QED BY <2>1, <3>1
  <2> QED BY <2>2, <2>3
<1> HIDE DEF m
<1>2. /\ Len(t) = Len(s) + Len(m) /\ Len(s) \in Nat
      /\ \A i \in 1..Len(t) : t[i] = IF i <= Len(s) THEN s[i] ELSE m[i - Len(s)]
  BY <1>1
<1> HIDE DEF t
<1> SUFFICES ASSUME NEW i \in 0..Len(t), IF i = 0 THEN p = "BODY" ELSE t[i] \in Openers
             PROVE  i + 1 \in 1..Len(t) /\ t[i + 1] = "body"
  BY DEF Paired, t, m
<1>3. CASE i <= Len(s)
  <2>1. i \in 0..Len(s) /\ (IF i = 0 THEN p = "BODY" ELSE s[i] \in Openers)
    BY <1>2, <1>3
  <2>2. i + 1 \in 1..Len(s) /\ s[i + 1] = "body"
    BY <2>1 DEF Paired
  <2> QED BY <1>1, <1>2, <2>2
<1>4. CASE i > Len(s)
  <2>1. i - Len(s) \in 1..Len(m) /\ t[i] = m[i - Len(s)] /\ t[i] \in Openers
    BY <1>2, <1>4
  <2>2. "body" \notin Openers
    BY DEF Openers, HeadKinds
  <2>3. i - Len(s) = 1 /\ Len(m) = 2
    BY <1>1, <2>1, <2>2
  <2>4. i + 1 \in 1..Len(t) /\ t[i + 1] = m[2]
    BY <1>2, <1>4, <2>3
  <2> QED BY <1>1, <2>3, <2>4
<1> QED BY <1>2, <1>3, <1>4

LEMMA PairedTail ==
  ASSUME NEW p, NEW s \in Seq(Tokens), s # <<>>, Paired(p, s), NEW q,
         q = "BODY" => Head(s) \in Openers
  PROVE  Paired(q, Tail(s))
<1>1. /\ Len(Tail(s)) = Len(s) - 1 /\ Len(s) \in Nat /\ Head(s) = s[1]
      /\ \A i \in 1..Len(Tail(s)) : Tail(s)[i] = s[i + 1]
  OBVIOUS
<1> SUFFICES ASSUME NEW i \in 0..Len(Tail(s)), IF i = 0 THEN q = "BODY" ELSE Tail(s)[i] \in Openers
             PROVE  i + 1 \in 1..Len(Tail(s)) /\ Tail(s)[i + 1] = "body"
  BY DEF Paired
<1>2. i + 1 \in 0..Len(s) /\ i + 1 # 0 /\ s[i + 1] \in Openers
  BY <1>1
<1>3. (i + 1) + 1 \in 1..Len(s) /\ s[(i + 1) + 1] = "body"
  BY <1>2 DEF Paired
<1> QED BY <1>1, <1>3

\* The stream goes on in the socket when the buffer is dropped.
LEMMA PairedRest ==
  ASSUME NEW p, NEW b \in Seq(Tokens), NEW r \in Seq(Tokens), Paired(p, b \o r)
  PROVE  Paired("VER", r)
<1>1. /\ Len(b \o r) = Len(b) + Len(r) /\ Len(b) \in Nat /\ Len(r) \in Nat
      /\ \A i \in 1..Len(r) : (b \o r)[Len(b) + i] = r[i]
  OBVIOUS
<1> SUFFICES ASSUME NEW i \in 1..Len(r), r[i] \in Openers
             PROVE  i + 1 \in 1..Len(r) /\ r[i + 1] = "body"
  BY <1>1 DEF Paired
<1>2. Len(b) + i \in 0..Len(b \o r) /\ Len(b) + i # 0 /\ (b \o r)[Len(b) + i] \in Openers
  BY <1>1
<1>3. (Len(b) + i) + 1 \in 1..Len(b \o r) /\ (b \o r)[(Len(b) + i) + 1] = "body"
  BY <1>2 DEF Paired
<1>4. i + 1 \in 1..Len(r) /\ (Len(b) + i) + 1 = Len(b) + (i + 1)
  BY <1>1, <1>3
<1> QED BY <1>1, <1>3, <1>4

\* A parser goes on to a body only from the head that announces it.
LEMMA ParseBody ==
  ASSUME NEW m, NEW t, NEW o \in Parse(m, t), o.p_state = "BODY"
  PROVE  \/ m.p_state = "VER" /\ t \in {"ok", "close"} /\ o.res = "MORE"
         \/ m.p_state = "BODY" /\ t # "body"
BY DEF Parse, Outcome
=============================================================================
