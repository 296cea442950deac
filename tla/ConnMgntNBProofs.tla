-------------------------- MODULE ConnMgntNBProofs --------------------------
(***************************************************************************)
(* Proofs about ConnMgntNB, for any number of connections, any total, any  *)
(* burst and request size, and any server.                                 *)
(***************************************************************************)
EXTENDS ConnMgntNB, PeerProofs

-----------------------------------------------------------------------------
(* The inductive invariant. *)

\* Inside the sending loop there is room for its remaining rounds.
BurstFits == pc = "burst" => /\ burst >= 1 /\ ENABLE_PIPE /\ ~G_FAST
                             /\ sock[cur].sent_req + burst <= sock[cur].unsent_req

\* A partly sent request is one more than those in flight, and there is room
\* for it; only the fast mode leaves one behind.
LeftoverHasRoom ==
  \A c \in Conns : sock[c].leftover # 0 =>
    /\ ENABLE_PIPE /\ G_FAST
    /\ sock[c].sent_req < sock[c].unsent_req /\ sock[c].sent_req < sock[c].num_gap

\* A parser call bound to find nothing starts, and stays, clean; and the
\* parser asks for more data only while something is unanswered.
CallIsBound ==
  /\ pc = "parse" /\ call.num_reqs = 0 => call.fin_resp = 0 /\ sm[cur] = CleanParser
  /\ pc = "dispatch" /\ call.rcode = "POLL_DATA" => call.fin_resp < sock[cur].sent_req

GapOnlyShrinks == \A c \in Conns : sock[c].num_gap <= NUM_GAP

IInv == /\ TypeOK /\ Accounting /\ NeverNegative /\ IdleIsClean
        /\ BurstFits /\ LeftoverHasRoom /\ CallIsBound /\ GapOnlyShrinks

-----------------------------------------------------------------------------
(* Arithmetic. *)

\* Fewer units than w requests hold at most w complete ones, and fewer than w
\* when a part is left over.
LEMMA CompleteBound ==
  ASSUME NEW u \in Nat, NEW w \in Nat, NEW r \in Nat \ {0}, u <= r * w
  PROVE  u \div r <= w /\ (u % r # 0 => u \div r < w)
  BY SMT

LEMMA ShareType == ASSUME NEW c \in Conns PROVE Share(c) \in Nat /\ Share(c) <= TOTAL_REQ
<1>1. TOTAL_REQ \in Nat /\ NConn \in Nat \ {0}
  BY PeerAssumption, ConnMgntAssumption
<1> DEFINE q == TOTAL_REQ \div NConn
           r == TOTAL_REQ % NConn
<1>2. q \in Nat /\ r \in Nat /\ q + r <= TOTAL_REQ
  BY <1>1, QuotientBound
<1>3. Share(c) = q + (IF c = NConn - 1 THEN r ELSE 0)
  BY DEF Share
<1> HIDE DEF q, r
<1> QED BY <1>1, <1>2, <1>3

LEMMA DecreasedType ==
  ASSUME NEW g \in Nat \ {0} PROVE Decreased(g) \in Nat \ {0} /\ Decreased(g) <= g
  BY SMT DEF Decreased, MIN_NUM_GAP

-----------------------------------------------------------------------------
(* What the operators on a connection's counters return. *)

LEMMA ClosedType ==
  ASSUME NEW k \in Counters
  PROVE  /\ Closed(k) \in Counters
         /\ Closed(k).sent_req = 0 /\ Closed(k).leftover = 0
         /\ Closed(k).unsent_req = k.unsent_req /\ Closed(k).rcvd_res = k.rcvd_res
         /\ Closed(k).num_gap <= k.num_gap
         /\ Closed(k).num_gap \in {k.num_gap, Decreased(k.num_gap)}
         /\ Closed(k).retry_conn_num = k.retry_conn_num + 1
<1>1. k.num_gap \in Nat \ {0} /\ 0 \in 0..(ReqSize - 1)
  BY PeerAssumption DEF Counters
<1>2. /\ Decreased(k.num_gap) \in Nat \ {0} /\ Decreased(k.num_gap) <= k.num_gap
  BY <1>1, DecreasedType
<1> DEFINE g == IF k.sent_req > 0 THEN Decreased(k.num_gap) ELSE k.num_gap
           d == [k EXCEPT !.num_gap = g, !.retry_conn_num = @ + 1,
                          !.sent_req = 0, !.leftover = 0]
<1>3. Closed(k) = d
  BY DEF Closed
<1>4. g \in Nat \ {0} /\ g <= k.num_gap /\ g \in {k.num_gap, Decreased(k.num_gap)}
  BY <1>1, <1>2
<1> HIDE DEF g
<1>5. k.retry_conn_num + 1 \in Nat
  BY DEF Counters
<1>6. d \in Counters
  BY <1>1, <1>4, <1>5 DEF Counters
<1>7. /\ d.sent_req = 0 /\ d.leftover = 0 /\ d.num_gap = g
      /\ d.unsent_req = k.unsent_req /\ d.rcvd_res = k.rcvd_res
      /\ d.retry_conn_num = k.retry_conn_num + 1
  BY DEF Counters
<1> QED BY <1>3, <1>4, <1>6, <1>7

LEMMA CreditedType ==
  ASSUME NEW k \in Counters, NEW n \in Nat,
         n <= k.sent_req, k.sent_req <= k.unsent_req
  PROVE  /\ Credited(k, n) \in Counters
         /\ Credited(k, n).sent_req = k.sent_req - n
         /\ Credited(k, n).unsent_req = k.unsent_req - n
         /\ Credited(k, n).rcvd_res = k.rcvd_res + n
         /\ Credited(k, n).num_gap = k.num_gap /\ Credited(k, n).leftover = k.leftover
         /\ Credited(k, n).retry_conn_num = k.retry_conn_num
<1> DEFINE u == k.unsent_req - n
           v == k.sent_req - n
           x == k.rcvd_res + n
           d == [k EXCEPT !.rcvd_res = x, !.unsent_req = u, !.sent_req = v]
<1>1. u \in Nat /\ v \in Nat /\ x \in Nat /\ ~(v < 0)
  BY DEF Counters
<1>2. Credited(k, n) = d
  BY <1>1 DEF Credited
<1> HIDE DEF u, v, x
<1>3. d \in Counters
  BY <1>1 DEF Counters
<1>4. /\ d.sent_req = v /\ d.unsent_req = u /\ d.rcvd_res = x
      /\ d.num_gap = k.num_gap /\ d.leftover = k.leftover
      /\ d.retry_conn_num = k.retry_conn_num
  BY DEF Counters
<1> QED BY <1>2, <1>3, <1>4 DEF u, v, x

LEMMA ResizedType ==
  ASSUME NEW k \in Counters
  PROVE  /\ Resized(k) \in Counters
         /\ Resized(k).sent_req = 0
         /\ Resized(k).unsent_req = k.unsent_req /\ Resized(k).rcvd_res = k.rcvd_res
         /\ Resized(k).num_gap <= k.num_gap /\ Resized(k).leftover = k.leftover
         /\ \/ Resized(k).num_gap = k.num_gap
            \/ /\ Resized(k).num_gap = Decreased(k.num_gap)
               /\ Resized(k).retry_conn_num = k.retry_conn_num + 1
<1>1. /\ Decreased(k.num_gap) \in Nat \ {0} /\ Decreased(k.num_gap) <= k.num_gap
      /\ k.num_gap \in Nat \ {0}
  BY DecreasedType DEF Counters
<1> DEFINE g == Decreased(k.num_gap)
           d == [k EXCEPT !.num_gap = g, !.retry_conn_num = @ + 1, !.sent_req = 0]
<1>2. Resized(k) = IF k.sent_req > 0 THEN d ELSE k
  BY DEF Resized
<1> HIDE DEF g
<1>3. k.retry_conn_num + 1 \in Nat /\ k.sent_req \in Nat
  BY DEF Counters
<1>4. d \in Counters
  BY <1>1, <1>3 DEF Counters, g
<1>5. /\ d.sent_req = 0 /\ d.num_gap = g
      /\ d.unsent_req = k.unsent_req /\ d.rcvd_res = k.rcvd_res
      /\ d.leftover = k.leftover /\ d.retry_conn_num = k.retry_conn_num + 1
  BY DEF Counters
<1>6. CASE k.sent_req > 0
  BY <1>1, <1>2, <1>4, <1>5, <1>6 DEF g
<1>7. CASE ~(k.sent_req > 0)
  BY <1>1, <1>2, <1>3, <1>7
<1> QED BY <1>6, <1>7

\* The room for more requests in flight.
LEMMA WorkloadType ==
  ASSUME NEW k \in Counters, k.sent_req <= k.unsent_req
  PROVE  /\ Workload(k) \in Nat
         /\ k.sent_req + Workload(k) <= k.unsent_req
         /\ Workload(k) # 0 => k.sent_req + Workload(k) <= k.num_gap
         /\ k.sent_req < k.unsent_req /\ k.sent_req < k.num_gap => Workload(k) # 0
BY DEF Workload, Counters

\* What leftover + WorkloadBytes amounts to: the whole workload, from offset 0.
LEMMA WorkloadBytesType ==
  ASSUME NEW k \in Counters, k.sent_req <= k.unsent_req,
         k.leftover # 0 => k.sent_req < k.unsent_req /\ k.sent_req < k.num_gap
  PROVE  /\ WorkloadBytes(k) \in Nat
         /\ k.leftover + WorkloadBytes(k) = ReqSize * Workload(k)
<1> DEFINE w == Workload(k)
<1>1. w \in Nat /\ (k.leftover # 0 => w # 0)
  BY WorkloadType
<1>2. k.leftover \in 0..(ReqSize - 1) /\ ReqSize \in Nat \ {0}
  BY PeerAssumption DEF Counters
<1>3. WorkloadBytes(k) = IF w = 0 THEN k.leftover
                         ELSE ReqSize * (w - 1) + (ReqSize - k.leftover)
  BY DEF WorkloadBytes
<1> HIDE DEF w
<1>4. CASE w = 0
  <2>1. k.leftover = 0
    BY <1>1, <1>4
  <2> QED BY <1>2, <1>3, <1>4, <2>1 DEF w
<1>5. CASE w # 0
  <2>1. /\ ReqSize * (w - 1) \in Nat
        /\ ReqSize * (w - 1) + ReqSize = ReqSize * w
    BY <1>1, <1>2, <1>5
  <2> QED BY <1>1, <1>2, <1>3, <1>5, <2>1 DEF w
<1> QED BY <1>4, <1>5

LEMMA CleanParserType == CleanParser \in Parser
BY DEF CleanParser, Parser, ParserStates

LEMMA ParseType ==
  ASSUME NEW m \in Parser, NEW t \in Tokens, NEW o \in Parse(m, t)
  PROVE  /\ o.res \in {"MORE", "FINISH"} \cup Stops
         /\ o.p_state \in ParserStates /\ o.is_close \in BOOLEAN
         /\ o.status \in HeadKinds \cup {"none"}
BY OutcomeType DEF Parser

-----------------------------------------------------------------------------
(* The counters of one connection, and the pieces a step is put together of. *)

Fits(c, k) == /\ k.rcvd_res + k.unsent_req = Share(c)
              /\ k.sent_req <= k.unsent_req
              /\ k.leftover # 0 => /\ ENABLE_PIPE /\ G_FAST
                                   /\ k.sent_req < k.unsent_req /\ k.sent_req < k.num_gap
              /\ k.num_gap <= NUM_GAP

LEMMA AllFit == ASSUME IInv, NEW c \in Conns PROVE sock[c] \in Counters /\ Fits(c, sock[c])
BY DEF IInv, TypeOK, Accounting, LeftoverHasRoom, GapOnlyShrinks, Fits

\* Giving up a connection, or the requests in flight on it.
LEMMA ClosedFits ==
  ASSUME NEW c \in Conns, NEW k \in Counters, Fits(c, k)
  PROVE  Closed(k) \in Counters /\ Fits(c, Closed(k))
<1>1. k.num_gap \in Nat /\ k.unsent_req \in Nat /\ Closed(k).num_gap \in Nat
  BY ClosedType DEF Counters
<1> QED BY <1>1, ClosedType, ConnMgntAssumption DEF Fits

LEMMA CreditedFits ==
  ASSUME NEW c \in Conns, NEW k \in Counters, Fits(c, k), NEW n \in Nat, n <= k.sent_req
  PROVE  Credited(k, n) \in Counters /\ Fits(c, Credited(k, n))
<1>1. /\ k.num_gap \in Nat /\ k.unsent_req \in Nat /\ k.sent_req \in Nat /\ k.rcvd_res \in Nat
      /\ k.sent_req <= k.unsent_req
  BY DEF Counters, Fits
<1>2. /\ Credited(k, n) \in Counters
      /\ Credited(k, n).sent_req = k.sent_req - n
      /\ Credited(k, n).unsent_req = k.unsent_req - n
      /\ Credited(k, n).rcvd_res = k.rcvd_res + n
      /\ Credited(k, n).num_gap = k.num_gap /\ Credited(k, n).leftover = k.leftover
  BY <1>1, CreditedType
<1> QED BY <1>1, <1>2 DEF Fits

LEMMA ResizedFits ==
  ASSUME NEW c \in Conns, NEW k \in Counters, Fits(c, k)
  PROVE  Resized(k) \in Counters /\ Fits(c, Resized(k))
<1>1. /\ k.num_gap \in Nat /\ k.unsent_req \in Nat /\ k.sent_req \in Nat
      /\ Resized(k).num_gap \in Nat \ {0}
  BY ResizedType DEF Counters
<1> QED BY <1>1, ResizedType, ConnMgntAssumption DEF Fits

Zeroed(k) == [k EXCEPT !.sent_req = 0, !.leftover = 0]

LEMMA ZeroedFits ==
  ASSUME NEW c \in Conns, NEW k \in Counters, Fits(c, k)
  PROVE  Zeroed(k) \in Counters /\ Fits(c, Zeroed(k))
<1> DEFINE z == [k EXCEPT !.sent_req = 0, !.leftover = 0]
<1>1. 0 \in 0..(ReqSize - 1) /\ k.unsent_req \in Nat
  BY PeerAssumption DEF Counters
<1>2. z \in Counters
  BY <1>1 DEF Counters
<1>3. /\ z.sent_req = 0 /\ z.leftover = 0 /\ z.num_gap = k.num_gap
      /\ z.unsent_req = k.unsent_req /\ z.rcvd_res = k.rcvd_res
  BY DEF Counters
<1> QED BY <1>1, <1>2, <1>3 DEF Fits, Zeroed

LEMMA NoLeftoverFits ==
  ASSUME NEW c \in Conns, NEW k \in Counters, Fits(c, k),
         NEW z, z = [k EXCEPT !.leftover = 0]
  PROVE  z \in Counters /\ Fits(c, z) /\ z.sent_req = k.sent_req
<1>1. 0 \in 0..(ReqSize - 1)
  BY PeerAssumption
<1>2. z \in Counters
  BY <1>1 DEF Counters
<1>3. /\ z.sent_req = k.sent_req /\ z.leftover = 0 /\ z.num_gap = k.num_gap
      /\ z.unsent_req = k.unsent_req /\ z.rcvd_res = k.rcvd_res
  BY DEF Counters
<1> QED BY <1>2, <1>3 DEF Fits

\* A step that changes counters and parser of the current connection only, to
\* values that fit, preserves the invariant if it does so where the loop stands.
LEMMA Assemble ==
  ASSUME IInv, PeerTypeOK',
         pc' \in {"poll", "conn", "parse", "dispatch", "send", "burst", "end"},
         cur' \in Conns, polled' \in SUBSET Conns, revents' \in [Conns -> SUBSET Events],
         timeout' \in Nat, all_fin' \in Nat, call' \in ParserCall, burst' \in Nat,
         NEW k \in Counters, Fits(cur, k), sock' = [sock EXCEPT ![cur] = k],
         NEW m \in Parser, sm' = [sm EXCEPT ![cur] = m],
         cur' = cur \/ pc' \in {"conn", "poll"},
         k.sent_req = 0 /\ ~(pc' \in {"parse", "dispatch", "end"} /\ cur' = cur) => m = CleanParser,
         NeverNegative', BurstFits', CallIsBound'
  PROVE  IInv'
<1>1. cur \in Conns /\ sock \in [Conns -> Counters] /\ sm \in [Conns -> Parser]
  BY DEF IInv, TypeOK
<1>2. sock' \in [Conns -> Counters] /\ sm' \in [Conns -> Parser]
  BY <1>1
<1>3. ASSUME NEW c \in Conns
      PROVE  /\ sock'[c] = IF c = cur THEN k ELSE sock[c]
             /\ sm'[c] = IF c = cur THEN m ELSE sm[c]
             /\ Fits(c, sock[c])
  BY <1>1, AllFit
<1>4. ASSUME NEW c \in Conns PROVE Fits(c, sock'[c])
  BY <1>3
<1>5. TypeOK'
  BY <1>2 DEF TypeOK
<1>6. Accounting' /\ LeftoverHasRoom' /\ GapOnlyShrinks'
  BY <1>4 DEF Accounting, LeftoverHasRoom, GapOnlyShrinks, Fits, Share
<1>7. IdleIsClean'
  <2> SUFFICES ASSUME NEW c \in Conns, sock'[c].sent_req = 0,
                      ~(pc' \in {"parse", "dispatch", "end"} /\ c = cur')
               PROVE  sm'[c] = CleanParser
    BY DEF IdleIsClean
  <2>1. CASE c = cur
    BY <1>3, <2>1
  <2>2. CASE c # cur
    <3>1. sock[c].sent_req = 0 /\ sm'[c] = sm[c]
      BY <1>3, <2>2
    <3>2. sm[c] = CleanParser
      BY <2>2, <3>1 DEF IInv, IdleIsClean
    <3> QED BY <3>1, <3>2
  <2> QED BY <2>1, <2>2
<1> QED BY <1>5, <1>6, <1>7 DEF IInv

LEMMA Typed ==
  ASSUME IInv
  PROVE  /\ cur \in Conns /\ polled \in SUBSET Conns /\ revents \in [Conns -> SUBSET Events]
         /\ timeout \in Nat /\ all_fin \in Nat /\ call \in ParserCall /\ burst \in Nat
         /\ net \in [Conns -> Socket] /\ net[cur] \in Socket /\ faults \in 0..MaxFaults
         /\ sock \in [Conns -> Counters] /\ sock[cur] \in Counters /\ Fits(cur, sock[cur])
         /\ sm \in [Conns -> Parser] /\ sm[cur] \in Parser
         /\ pc \in {"poll", "conn", "parse", "dispatch", "send", "burst", "end"}
<1>1. TypeOK
  BY DEF IInv
<1>2. sock[cur] \in Counters /\ Fits(cur, sock[cur])
  BY <1>1, AllFit DEF TypeOK
<1> QED BY <1>1, <1>2 DEF TypeOK, PeerTypeOK

LEMMA NoCallType == NoCall \in ParserCall
BY ConnMgntAssumption DEF NoCall, ParserCall, Rcodes

LEMMA NoEventsType == NoEvents \in [Conns -> SUBSET Events]
BY DEF NoEvents

LEMMA GoNextType ==
  ASSUME IInv, GoNext
  PROVE  /\ cur' \in Conns /\ pc' \in {"conn", "poll"}
         /\ revents' \in [Conns -> SUBSET Events]
         /\ call' \in ParserCall /\ burst' \in Nat
         /\ NeverNegative' /\ BurstFits' /\ CallIsBound'
<1>1. cur + 1 \in Int /\ NConn \in Nat \ {0}
  BY Typed, PeerAssumption DEF Conns
<1>2. cur' \in Conns
  BY <1>1, ModRange DEF GoNext, Conns
<1>3. pc' \in {"conn", "poll"}
  BY DEF GoNext
<1>4. revents' \in [Conns -> SUBSET Events] /\ call' \in ParserCall /\ burst' \in Nat
  BY Typed, NoEventsType, NoCallType DEF GoNext
<1>5. NeverNegative' /\ BurstFits' /\ CallIsBound'
  BY <1>3 DEF NeverNegative, BurstFits, CallIsBound
<1> QED BY <1>2, <1>3, <1>4, <1>5

\* What a step that leaves the counters, or the parser, of all connections
\* alone does to those of the current one.
LEMMA Unchanged ==
  ASSUME IInv
  PROVE  sock = [sock EXCEPT ![cur] = sock[cur]] /\ sm = [sm EXCEPT ![cur] = sm[cur]]
BY Typed

\* Off the parser, a connection with nothing unanswered is clean.
LEMMA CurrentIdle ==
  ASSUME IInv, pc \notin {"parse", "dispatch", "end"}, sock[cur].sent_req = 0
  PROVE  sm[cur] = CleanParser
BY Typed DEF IInv, IdleIsClean

\* What replaces the socket and the parser of the current connection.
LEMMA FreshTypes ==
  ASSUME IInv
  PROVE  /\ net' = [net EXCEPT ![cur] = NewSocket] /\ UNCHANGED faults => PeerTypeOK'
         /\ sm' = [sm EXCEPT ![cur] = ResetParser(@)] => sm' = [sm EXCEPT ![cur] = CleanParser]
         /\ UNCHANGED <<net, faults>> => PeerTypeOK'
BY Typed, NewSocketType DEF ResetParser, PeerTypeOK

-----------------------------------------------------------------------------
(* Init and the steps of the peer. *)

LEMMA InitInv == Init => IInv
<1> SUFFICES ASSUME Init PROVE IInv
  OBVIOUS
<1>1. PeerTypeOK
  BY NewSocketType, PeerAssumption DEF Init, PeerInit, PeerTypeOK
<1> DEFINE fresh(c) == [unsent_req |-> Share(c), sent_req |-> 0, rcvd_res |-> 0,
                        num_gap |-> NUM_GAP, leftover |-> 0, retry_conn_num |-> 0]
<1>2. ASSUME NEW c \in Conns PROVE fresh(c) \in Counters /\ Fits(c, fresh(c))
  <2>1. NUM_GAP \in Nat \ {0} /\ 0 \in 0..(ReqSize - 1)
    BY PeerAssumption, ConnMgntAssumption DEF MIN_NUM_GAP
  <2> QED BY <2>1, ShareType DEF Counters, Fits
<1>3. sock = [c \in Conns |-> fresh(c)]
  BY DEF Init
<1> HIDE DEF fresh
<1>4. \A c \in Conns : sock[c] \in Counters /\ Fits(c, sock[c])
  BY <1>2, <1>3
<1>5. 0 \in Conns
  BY PeerAssumption DEF Conns
<1>6. TypeOK
  BY <1>1, <1>3, <1>4, <1>5, NoCallType, NoEventsType, CleanParserType, ConnMgntAssumption
     DEF Init, TypeOK
<1>7. Accounting /\ LeftoverHasRoom /\ GapOnlyShrinks
  BY <1>4 DEF Accounting, LeftoverHasRoom, GapOnlyShrinks, Fits
<1>8. NeverNegative /\ BurstFits /\ CallIsBound
  BY DEF Init, NeverNegative, BurstFits, CallIsBound
<1>9. IdleIsClean
  BY DEF Init, IdleIsClean
<1> QED BY <1>6, <1>7, <1>8, <1>9 DEF IInv

LEMMA PeerInv == ASSUME IInv, Peer PROVE IInv'
<1>1. PeerTypeOK'
  BY PeerStepType DEF IInv, TypeOK, Peer, FromPeer
<1>2. UNCHANGED progVars
  BY DEF Peer, FromPeer
<1> QED BY <1>1, <1>2 DEF IInv, progVars, loopVars, TypeOK, Accounting, NeverNegative, IdleIsClean,
           BurstFits, LeftoverHasRoom, CallIsBound, GapOnlyShrinks

-----------------------------------------------------------------------------
(* poll() and the head of the loop. *)

LEMMA PollInv == ASSUME IInv, Poll \/ PollTimeout \/ PollFails PROVE IInv'
<1>1. /\ UNCHANGED <<cur, polled, all_fin, sock, sm, call, burst, net>>
      /\ pc' \in {"poll", "conn", "end"}
      /\ cur' = cur
  BY Typed DEF Poll, PollTimeout, PollFails
<1>2. revents' \in [Conns -> SUBSET Events] /\ timeout' \in Nat
  BY Typed, ConnMgntAssumption DEF Poll, PollTimeout, PollFails
<1>3. PeerTypeOK'
  BY <1>1, Typed, PeerAssumption DEF Poll, PollTimeout, PollFails, Fault, PeerTypeOK
<1>4. pc = "poll"
  BY DEF Poll, PollTimeout, PollFails
<1>5. NeverNegative' /\ BurstFits' /\ CallIsBound'
  BY <1>1 DEF NeverNegative, BurstFits, CallIsBound
<1>6. sock[cur].sent_req = 0 => sm[cur] = CleanParser
  BY <1>4, CurrentIdle
<1> QED BY <1>1, <1>2, <1>3, <1>5, <1>6, Typed, Unchanged, Assemble

LEMMA SkipFinishedInv == ASSUME IInv, SkipFinished PROVE IInv'
<1>1. /\ GoNext /\ UNCHANGED <<timeout, all_fin, sock, sm, net, faults>>
      /\ polled' \in SUBSET Conns /\ pc = "conn"
  BY Typed DEF SkipFinished
<1>2. sock[cur].sent_req = 0 => sm[cur] = CleanParser
  BY <1>1, CurrentIdle
<1> QED BY <1>1, <1>2, Typed, GoNextType, FreshTypes, Unchanged, Assemble

\* Going on to the parser, or to the sending half, with counters k.
LEMMA GoReceiveType ==
  ASSUME IInv, pc = "conn", NEW k \in Counters, Fits(cur, k), GoReceive(k),
         sock' = [sock EXCEPT ![cur] = k],
         NEW m \in Parser, sm' = [sm EXCEPT ![cur] = m],
         k.sent_req = 0 => m = CleanParser
  PROVE  /\ pc' \in {"parse", "send"} /\ cur' = cur /\ revents' = revents
         /\ call' \in ParserCall /\ burst' \in Nat
         /\ NeverNegative' /\ BurstFits' /\ CallIsBound'
<1>1. pc' \in {"parse", "send"} /\ cur' = cur /\ revents' = revents /\ burst' = burst
  BY DEF GoReceive, Goto
<1>2. sock'[cur] = k /\ sm'[cur] = m
  BY Typed
<1>3. k.sent_req \in Nat /\ k.sent_req < U32_MOD
  BY Typed, ShareType, ConnMgntAssumption DEF Fits, Counters
<1>4. CASE "IN" \in Rev
  <2> DEFINE d == [NoCall EXCEPT !.num_reqs = k.sent_req]
  <2>1. pc' = "parse" /\ call' = d
    BY <1>4 DEF GoReceive, Bound, Goto
  <2>2. d \in ParserCall /\ d.num_reqs = k.sent_req /\ d.fin_resp = 0
    BY <1>3, ConnMgntAssumption DEF NoCall, ParserCall, Rcodes
  <2> HIDE DEF d
  <2>3. NeverNegative' /\ BurstFits' /\ CallIsBound'
    BY <1>1, <1>2, <1>3, <2>1, <2>2 DEF NeverNegative, BurstFits, CallIsBound
  <2> QED BY <1>1, <2>1, <2>2, <2>3, Typed
<1>5. CASE "IN" \notin Rev
  <2>1. pc' = "send" /\ call' = call
    BY <1>5 DEF GoReceive, Goto
  <2>2. NeverNegative' /\ BurstFits' /\ CallIsBound'
    BY <2>1 DEF NeverNegative, BurstFits, CallIsBound
  <2> QED BY <1>1, <2>1, <2>2, Typed
<1> QED BY <1>4, <1>5

LEMMA CheckErrorInv == ASSUME IInv, CheckError PROVE IInv'
<1>1. /\ pc = "conn" /\ GoReceive(sock[cur])
      /\ UNCHANGED <<polled, timeout, all_fin, sock, sm, net, faults>>
  BY DEF CheckError, Me
<1>2. sock[cur].sent_req = 0 => sm[cur] = CleanParser
  BY <1>1, CurrentIdle
<1>3. sock' = [sock EXCEPT ![cur] = sock[cur]] /\ sm' = [sm EXCEPT ![cur] = sm[cur]]
  BY <1>1, Unchanged
<1>4. /\ pc' \in {"parse", "send"} /\ cur' = cur /\ revents' = revents
      /\ call' \in ParserCall /\ burst' \in Nat
      /\ NeverNegative' /\ BurstFits' /\ CallIsBound'
  BY <1>1, <1>2, <1>3, Typed, GoReceiveType
<1>5. PeerTypeOK'
  BY <1>1, FreshTypes
<1> QED BY <1>1, <1>2, <1>3, <1>4, <1>5, Typed, Assemble

LEMMA ErrorCloseInv == ASSUME IInv, ErrorClose PROVE IInv'
<1> DEFINE k == Closed(sock[cur])
<1>1. /\ pc = "conn" /\ GoReceive(sock'[cur])
      /\ UNCHANGED <<polled, timeout, all_fin, faults>>
      /\ sock' = [sock EXCEPT ![cur] = k]
      /\ sm' = [sm EXCEPT ![cur] = CleanParser]
      /\ net' = [net EXCEPT ![cur] = NewSocket]
  BY DEF ErrorClose, conn_mgnt_close_handler, ResetParser
<1>2. k \in Counters /\ Fits(cur, k)
  BY Typed, ClosedFits
<1> HIDE DEF k
<1>3. GoReceive(k)
  BY <1>1, Typed
<1>4. /\ pc' \in {"parse", "send"} /\ cur' = cur /\ revents' = revents
      /\ call' \in ParserCall /\ burst' \in Nat
      /\ NeverNegative' /\ BurstFits' /\ CallIsBound'
  BY <1>1, <1>2, <1>3, CleanParserType, GoReceiveType
<1>5. PeerTypeOK'
  BY <1>1, FreshTypes
<1> QED BY <1>1, <1>2, <1>4, <1>5, Typed, CleanParserType, Assemble

-----------------------------------------------------------------------------
(* The parser call. *)

\* While the parser has data, its bound is not 0, and it has taken no more
\* responses than were unanswered.
LEMMA InParse ==
  ASSUME IInv, pc = "parse"
  PROVE  /\ call.num_reqs \in Nat /\ call.fin_resp \in Nat /\ call.rcode \in Rcodes
         /\ call.num_reqs < U32_MOD
         /\ call.num_reqs + call.fin_resp = sock[cur].sent_req
         /\ sm[cur].buf # <<>> => /\ call.num_reqs >= 1
                                  /\ Head(sm[cur].buf) \in Tokens /\ Tail(sm[cur].buf) \in Seq(Tokens)
<1>1. /\ call.num_reqs \in Nat /\ call.fin_resp \in Nat /\ call.rcode \in Rcodes
      /\ call.num_reqs < U32_MOD
  BY Typed, ConnMgntAssumption DEF ParserCall
<1>2. call.num_reqs + call.fin_resp = sock[cur].sent_req
  BY DEF IInv, NeverNegative
<1>3. ASSUME sm[cur].buf # <<>>
      PROVE  /\ call.num_reqs >= 1
             /\ Head(sm[cur].buf) \in Tokens /\ Tail(sm[cur].buf) \in Seq(Tokens)
  <2>1. call.num_reqs # 0
    BY <1>3 DEF IInv, CallIsBound, CleanParser
  <2>2. sm[cur].buf \in Seq(Tokens)
    BY Typed DEF Parser
  <2> QED BY <1>1, <1>3, <2>1, <2>2, HeadTail
<1> QED BY <1>1, <1>2, <1>3

LEMMA ReturnsType ==
  ASSUME IInv, pc = "parse", NEW rc \in Rcodes, ParserReturns(rc),
         rc = "POLL_DATA" => call.num_reqs # 0,
         cur' = cur, sock' = sock
  PROVE  /\ pc' = "dispatch" /\ call' \in ParserCall
         /\ NeverNegative' /\ BurstFits' /\ CallIsBound'
<1> DEFINE d == [call EXCEPT !.rcode = rc]
<1>1. pc' = "dispatch" /\ call' = d
  BY DEF ParserReturns
<1>2. d \in ParserCall /\ d.fin_resp = call.fin_resp /\ d.rcode = rc
  BY Typed DEF ParserCall
<1> HIDE DEF d
<1>3. sock[cur].sent_req \in Nat
  BY Typed DEF Counters
<1>4. call.fin_resp <= sock[cur].sent_req
      /\ (rc = "POLL_DATA" => call.fin_resp < sock[cur].sent_req)
  BY <1>3, InParse
<1> QED BY <1>1, <1>2, <1>4 DEF NeverNegative, BurstFits, CallIsBound

LEMMA ParseTokenInv == ASSUME IInv, ParseToken PROVE IInv'
<1>1. /\ pc = "parse" /\ sm[cur].buf # <<>>
      /\ UNCHANGED <<cur, polled, revents, timeout, all_fin, sock, burst, net, faults>>
  BY DEF ParseToken
<1>2. PICK o \in Parse(sm[cur], Head(sm[cur].buf)) :
        /\ o.res # "FINISH"
        /\ sm' = [sm EXCEPT ![cur] = [buf |-> Tail(@.buf), p_state |-> o.p_state,
                                      is_close |-> o.is_close, status |-> o.status]]
        /\ IF o.res = "MORE" THEN UNCHANGED <<pc, call>>
           ELSE ParserReturns(IF o.res = "NOT_SUPPORT" THEN "ERROR" ELSE o.res)
  BY DEF ParseToken
<1> DEFINE rc == IF o.res = "NOT_SUPPORT" THEN "ERROR" ELSE o.res
<1> DEFINE m == [buf |-> Tail(sm[cur].buf), p_state |-> o.p_state,
                 is_close |-> o.is_close, status |-> o.status]
<1>3. sm' = [sm EXCEPT ![cur] = m]
  BY <1>2, Typed
<1>4. /\ o.res \in {"MORE", "FINISH"} \cup Stops
      /\ o.p_state \in ParserStates /\ o.is_close \in BOOLEAN
      /\ o.status \in HeadKinds \cup {"none"}
  BY <1>1, InParse, Typed, ParseType
<1>5. m \in Parser
  BY <1>1, <1>4, InParse DEF Parser
<1> HIDE DEF m
<1>6. sock' = [sock EXCEPT ![cur] = sock[cur]] /\ PeerTypeOK'
  BY <1>1, Unchanged, FreshTypes
<1>7. CASE o.res = "MORE"
  <2>1. pc' = pc /\ call' = call
    BY <1>2, <1>7
  <2>2. NeverNegative' /\ BurstFits' /\ CallIsBound'
    <3>1. NeverNegative'
      BY <1>1, <2>1 DEF IInv, NeverNegative
    <3>2. BurstFits' /\ CallIsBound'
      BY <1>1, <2>1, InParse DEF BurstFits, CallIsBound
    <3> QED BY <3>1, <3>2
  <2> QED BY <1>1, <1>3, <1>5, <1>6, <2>1, <2>2, Typed, Assemble
<1>8. CASE o.res # "MORE"
  <2>1. ParserReturns(rc) /\ rc \in Rcodes /\ rc # "POLL_DATA"
    BY <1>2, <1>4, <1>8 DEF Rcodes, Stops
  <2>2. /\ pc' = "dispatch" /\ call' \in ParserCall
        /\ NeverNegative' /\ BurstFits' /\ CallIsBound'
    BY <1>1, <2>1, ReturnsType
  <2> QED BY <1>1, <1>3, <1>5, <1>6, <2>2, Typed, Assemble
<1> QED BY <1>7, <1>8

\* A finished response: one fewer to come, one more taken.
LEMMA ParseFinishInv == ASSUME IInv, ParseFinish PROVE IInv'
<1> DEFINE left == (call.num_reqs + U32_MOD - 1) % U32_MOD
           rest == Tail(sm[cur].buf)
           rc(o) == IF o.is_close THEN "CLOSE" ELSE IF left = 0 THEN "FIN" ELSE "NONE"
           d(o) == [num_reqs |-> left, fin_resp |-> call.fin_resp + 1, rcode |-> rc(o)]
           m(o) == IF rc(o) = "NONE" THEN [CleanParser EXCEPT !.buf = rest]
                   ELSE [buf |-> rest, p_state |-> o.p_state,
                         is_close |-> o.is_close, status |-> o.status]
<1>1. /\ pc = "parse" /\ sm[cur].buf # <<>>
      /\ UNCHANGED <<cur, polled, revents, timeout, all_fin, sock, burst, net, faults>>
  BY DEF ParseFinish
<1>2. PICK o \in Parse(sm[cur], Head(sm[cur].buf)) :
        /\ call' = d(o)
        /\ sm' = [sm EXCEPT ![cur] = m(o)]
        /\ pc' = IF rc(o) = "NONE" THEN pc ELSE "dispatch"
  BY DEF ParseFinish
<1>3. left = call.num_reqs - 1
  BY <1>1, InParse, CountDown, ConnMgntAssumption
<1> HIDE DEF left
<1>4. left \in Nat /\ left < U32_MOD /\ left + (call.fin_resp + 1) = sock[cur].sent_req
      /\ call.fin_resp + 1 \in Nat
  <2>1. /\ call.num_reqs \in Nat /\ call.fin_resp \in Nat /\ call.num_reqs < U32_MOD
        /\ call.num_reqs + call.fin_resp = sock[cur].sent_req /\ call.num_reqs >= 1
    BY <1>1, InParse
  <2> QED BY <1>3, <2>1, ConnMgntAssumption
<1>5. rc(o) \in {"CLOSE", "FIN", "NONE"} /\ (rc(o) = "NONE" => left # 0)
  OBVIOUS
<1>6. m(o) \in Parser
  <2>1. rest \in Seq(Tokens)
    BY <1>1, InParse
  <2>2. o.p_state \in ParserStates /\ o.is_close \in BOOLEAN /\ o.status \in HeadKinds \cup {"none"}
    BY <1>1, InParse, Typed, ParseType
  <2> HIDE DEF rest, rc
  <2>3. [CleanParser EXCEPT !.buf = rest] \in Parser
    BY <2>1 DEF CleanParser, Parser, ParserStates
  <2>4. [buf |-> rest, p_state |-> o.p_state, is_close |-> o.is_close, status |-> o.status] \in Parser
    BY <2>1, <2>2 DEF Parser
  <2> QED BY <2>3, <2>4
<1> HIDE DEF rc, m
<1>7. d(o) \in ParserCall
  BY <1>4, <1>5, ConnMgntAssumption DEF ParserCall, Rcodes
<1>8. d(o).num_reqs = left /\ d(o).fin_resp = call.fin_resp + 1 /\ d(o).rcode = rc(o)
  OBVIOUS
<1> HIDE DEF d
<1>9. sock[cur].sent_req \in Nat
  BY Typed DEF Counters
<1>10. pc' \in {"parse", "dispatch"} /\ (pc' = "parse" => rc(o) = "NONE")
  BY <1>1, <1>2
<1>11. NeverNegative' /\ BurstFits' /\ CallIsBound'
  BY <1>1, <1>2, <1>4, <1>5, <1>8, <1>9, <1>10 DEF NeverNegative, BurstFits, CallIsBound
<1>12. sock' = [sock EXCEPT ![cur] = sock[cur]] /\ PeerTypeOK'
  BY <1>1, Unchanged, FreshTypes
<1> QED BY <1>1, <1>2, <1>6, <1>7, <1>10, <1>11, <1>12, Typed, Assemble

LEMMA NothingExpectedInv == ASSUME IInv, NothingExpected PROVE IInv'
<1>1. /\ pc = "parse" /\ ParserReturns("FIN")
      /\ UNCHANGED <<cur, polled, revents, timeout, all_fin, sock, sm, burst, net, faults>>
  BY DEF NothingExpected
<1>2. /\ pc' = "dispatch" /\ call' \in ParserCall
      /\ NeverNegative' /\ BurstFits' /\ CallIsBound'
  <2>1. "FIN" \in Rcodes
    BY DEF Rcodes
  <2> QED BY <1>1, <2>1, ReturnsType
<1>3. sock' = [sock EXCEPT ![cur] = sock[cur]] /\ sm' = [sm EXCEPT ![cur] = sm[cur]] /\ PeerTypeOK'
  BY <1>1, Unchanged, FreshTypes
<1> QED BY <1>1, <1>2, <1>3, Typed, Assemble

LEMMA RecvEofInv == ASSUME IInv, RecvEof PROVE IInv'
<1>1. /\ pc = "parse" /\ ParserReturns("CLOSE") /\ sm' = [sm EXCEPT ![cur] = CleanParser]
      /\ UNCHANGED <<cur, polled, revents, timeout, all_fin, sock, burst, net, faults>>
  BY DEF RecvEof, ResetParser
<1>2. /\ pc' = "dispatch" /\ call' \in ParserCall
      /\ NeverNegative' /\ BurstFits' /\ CallIsBound'
  <2>1. "CLOSE" \in Rcodes
    BY DEF Rcodes
  <2> QED BY <1>1, <2>1, ReturnsType
<1>3. sock' = [sock EXCEPT ![cur] = sock[cur]] /\ PeerTypeOK'
  BY <1>1, Unchanged, FreshTypes
<1> QED BY <1>1, <1>2, <1>3, Typed, CleanParserType, Assemble

LEMMA RecvNothingInv == ASSUME IInv, RecvNothing PROVE IInv'
<1>1. /\ pc = "parse" /\ call.num_reqs # 0 /\ ParserReturns("POLL_DATA")
      /\ net' = [net EXCEPT ![cur] = AfterError(@)]
      /\ UNCHANGED <<cur, polled, revents, timeout, all_fin, sock, sm, burst, faults>>
  BY DEF RecvNothing
<1>2. /\ pc' = "dispatch" /\ call' \in ParserCall
      /\ NeverNegative' /\ BurstFits' /\ CallIsBound'
  <2>1. "POLL_DATA" \in Rcodes
    BY DEF Rcodes
  <2> QED BY <1>1, <2>1, ReturnsType
<1>3. sock' = [sock EXCEPT ![cur] = sock[cur]] /\ sm' = [sm EXCEPT ![cur] = sm[cur]]
  BY <1>1, Unchanged
<1>4. PeerTypeOK'
  <2>1. AfterError(net[cur]) \in Socket
    BY Typed DEF AfterError, Socket
  <2> QED BY <1>1, <2>1, Typed DEF PeerTypeOK
<1> QED BY <1>1, <1>2, <1>3, <1>4, Typed, Assemble

LEMMA RecvInv == ASSUME IInv, Recv PROVE IInv'
<1>1. /\ pc = "parse" /\ call.num_reqs # 0
      /\ UNCHANGED <<pc, cur, polled, revents, timeout, all_fin, sock, call, burst, faults>>
  BY DEF Recv, loopVars
<1>2. PICK n \in 1..Len(net[cur].rx) :
        /\ sm'  = [sm EXCEPT ![cur].buf = SubSeq(net[cur].rx, 1, n)]
        /\ net' = [net EXCEPT ![cur].rx = SubSeq(@, n + 1, Len(@))]
  BY DEF Recv
<1> DEFINE b == SubSeq(net[cur].rx, 1, n)
           r == SubSeq(net[cur].rx, n + 1, Len(net[cur].rx))
           m == [sm[cur] EXCEPT !.buf = b]
           s == [net[cur] EXCEPT !.rx = r]
<1>3. sm' = [sm EXCEPT ![cur] = m] /\ net' = [net EXCEPT ![cur] = s]
  BY <1>2
<1>4. b \in Seq(Tokens) /\ r \in Seq(Tokens)
  <2>1. net[cur].rx \in Seq(Tokens)
    BY Typed DEF Socket
  <2> QED BY <2>1, SubSeqType
<1> HIDE DEF b, r
<1>5. m \in Parser /\ s \in Socket
  BY <1>4, Typed DEF Parser, Socket
<1> HIDE DEF m, s
<1>6. PeerTypeOK'
  BY <1>1, <1>3, <1>5, Typed DEF PeerTypeOK
<1>7. NeverNegative'
  BY <1>1 DEF IInv, NeverNegative
<1>8. BurstFits' /\ CallIsBound'
  BY <1>1 DEF BurstFits, CallIsBound
<1>9. sock' = [sock EXCEPT ![cur] = sock[cur]]
  BY <1>1, Unchanged
<1> QED BY <1>1, <1>3, <1>5, <1>6, <1>7, <1>8, <1>9, Typed, Assemble

-----------------------------------------------------------------------------
(* The switch on the rcode. *)

LEMMA DispatchType ==
  ASSUME IInv, NEW rcodes, Dispatch(rcodes)
  PROVE  /\ pc = "dispatch" /\ call.rcode \in rcodes /\ all_fin' \in Nat
         /\ UNCHANGED <<polled, timeout, faults>>
         /\ Paid \in Counters /\ Fits(cur, Paid)
         /\ call.rcode = "POLL_DATA" => Paid.sent_req # 0
<1>1. /\ pc = "dispatch" /\ call.rcode \in rcodes /\ all_fin' = all_fin + call.fin_resp
      /\ UNCHANGED <<polled, timeout, faults>>
  BY DEF Dispatch
<1>2. /\ call.fin_resp \in Nat /\ all_fin \in Nat /\ sock[cur].sent_req \in Nat
      /\ sock[cur] \in Counters /\ Fits(cur, sock[cur]) /\ cur \in Conns
  BY Typed DEF ParserCall, Counters
<1>3. call.fin_resp <= sock[cur].sent_req
  BY <1>1 DEF IInv, NeverNegative
<1>4. Paid \in Counters /\ Fits(cur, Paid)
  BY <1>2, <1>3, CreditedFits DEF Paid, Me
<1>5. Paid.sent_req = sock[cur].sent_req - call.fin_resp
  BY <1>2, <1>3, CreditedType DEF Paid, Me, Fits
<1>6. call.rcode = "POLL_DATA" => call.fin_resp < sock[cur].sent_req
  BY <1>1 DEF IInv, CallIsBound
<1> QED BY <1>1, <1>2, <1>4, <1>5, <1>6

\* Going on to the sending half, or to the end, nothing of the call is left.
LEMMA GotoType ==
  ASSUME IInv, NEW label \in {"send", "end"}, Goto(label), burst' = burst,
         call' = NoCall \/ call' = call
  PROVE  /\ pc' = label /\ cur' = cur /\ revents' \in [Conns -> SUBSET Events]
         /\ cur' \in Conns /\ call' \in ParserCall /\ burst' \in Nat
         /\ NeverNegative' /\ BurstFits' /\ CallIsBound'
<1>1. pc' = label /\ cur' = cur /\ revents' = revents
  BY DEF Goto
<1>2. NeverNegative' /\ BurstFits' /\ CallIsBound'
  BY <1>1 DEF NeverNegative, BurstFits, CallIsBound
<1> QED BY <1>1, <1>2, Typed, NoCallType

LEMMA DispatchPollDataInv == ASSUME IInv, DispatchPollData PROVE IInv'
<1> DEFINE k == Paid
<1>1. /\ Dispatch({"POLL_DATA"}) /\ Goto("send") /\ call' = NoCall
      /\ sock' = [sock EXCEPT ![cur] = k]
      /\ UNCHANGED <<sm, burst, net>>
  BY DEF DispatchPollData
<1>2. /\ all_fin' \in Nat /\ UNCHANGED <<polled, timeout, faults>>
      /\ k \in Counters /\ Fits(cur, k) /\ k.sent_req # 0
  BY <1>1, DispatchType
<1> HIDE DEF k
<1>3. /\ pc' = "send" /\ cur' = cur /\ revents' \in [Conns -> SUBSET Events]
      /\ cur' \in Conns /\ call' \in ParserCall /\ burst' \in Nat
      /\ NeverNegative' /\ BurstFits' /\ CallIsBound'
  BY <1>1, GotoType
<1>4. sm' = [sm EXCEPT ![cur] = sm[cur]] /\ PeerTypeOK'
  BY <1>1, <1>2, Unchanged, FreshTypes
<1> QED BY <1>1, <1>2, <1>3, <1>4, Typed, Assemble

LEMMA DispatchEndInv == ASSUME IInv, DispatchEnd PROVE IInv'
<1> DEFINE k == Paid
<1>1. /\ Dispatch({"FIN", "CLOSE", "REDIRECT", "SERVER_ERR"}) /\ Goto("end")
      /\ sock' = [sock EXCEPT ![cur] = k]
      /\ UNCHANGED <<sm, call, burst, net>>
  BY DEF DispatchEnd
<1>2. /\ all_fin' \in Nat /\ UNCHANGED <<polled, timeout, faults>>
      /\ k \in Counters /\ Fits(cur, k)
  BY <1>1, DispatchType
<1> HIDE DEF k
<1>3. /\ pc' = "end" /\ cur' = cur /\ revents' \in [Conns -> SUBSET Events]
      /\ cur' \in Conns /\ call' \in ParserCall /\ burst' \in Nat
      /\ NeverNegative' /\ BurstFits' /\ CallIsBound'
  BY <1>1, GotoType
<1>4. sm' = [sm EXCEPT ![cur] = sm[cur]] /\ PeerTypeOK'
  BY <1>1, <1>2, Unchanged, FreshTypes
<1> QED BY <1>1, <1>2, <1>3, <1>4, Typed, Assemble

\* Every other branch leaves the parser reset.
LEMMA FreshStart ==
  ASSUME IInv, NEW k \in Counters, Fits(cur, k), sock' = [sock EXCEPT ![cur] = k],
         sm' = [sm EXCEPT ![cur] = ResetParser(@)],
         net' = [net EXCEPT ![cur] = NewSocket] \/ UNCHANGED net,
         UNCHANGED <<polled, timeout, faults>>, all_fin' \in Nat,
         GoNext \/ (Goto("send") /\ call' = NoCall /\ burst' = burst)
                \/ (Goto("end") /\ call' = call /\ burst' = burst)
  PROVE  IInv'
<1>1. sm' = [sm EXCEPT ![cur] = CleanParser] /\ PeerTypeOK'
  BY FreshTypes
<1>2. CASE GoNext
  BY <1>1, <1>2, GoNextType, Typed, CleanParserType, Assemble
<1>3. CASE Goto("send") /\ call' = NoCall /\ burst' = burst
  BY <1>1, <1>3, GotoType, Typed, CleanParserType, Assemble
<1>4. CASE Goto("end") /\ call' = call /\ burst' = burst
  BY <1>1, <1>4, GotoType, Typed, CleanParserType, Assemble
<1> QED BY <1>2, <1>3, <1>4

LEMMA DispatchPeerClosesInv == ASSUME IInv, DispatchPeerCloses PROVE IInv'
<1> DEFINE p == Paid
           k == Zeroed(p)
<1>1. /\ Dispatch({"FIN", "CLOSE"}) /\ GoNext
      /\ sock' = [sock EXCEPT ![cur] = k]
      /\ sm' = [sm EXCEPT ![cur] = ResetParser(@)]
      /\ net' = [net EXCEPT ![cur] = NewSocket]
  BY DEF DispatchPeerCloses, Zeroed
<1>2. /\ all_fin' \in Nat /\ UNCHANGED <<polled, timeout, faults>>
      /\ p \in Counters /\ Fits(cur, p)
  BY <1>1, DispatchType
<1> HIDE DEF p
<1>3. k \in Counters /\ Fits(cur, k)
  BY <1>2, Typed, ZeroedFits
<1> HIDE DEF k
<1> QED BY <1>1, <1>2, <1>3, FreshStart

LEMMA DispatchKeepInv == ASSUME IInv, DispatchKeep PROVE IInv'
<1> DEFINE p == Paid
           k == Zeroed(p)
<1>1. /\ Dispatch({"CLIENT_ERR", "ERROR"}) /\ GoNext
      /\ sock' = [sock EXCEPT ![cur] = k]
      /\ sm' = [sm EXCEPT ![cur] = ResetParser(@)]
      /\ UNCHANGED net
  BY DEF DispatchKeep, Zeroed
<1>2. /\ all_fin' \in Nat /\ UNCHANGED <<polled, timeout, faults>>
      /\ p \in Counters /\ Fits(cur, p)
  BY <1>1, DispatchType
<1> HIDE DEF p
<1>3. k \in Counters /\ Fits(cur, k)
  BY <1>2, Typed, ZeroedFits
<1> HIDE DEF k
<1> QED BY <1>1, <1>2, <1>3, FreshStart

LEMMA DispatchAbortInv == ASSUME IInv, DispatchAbort PROVE IInv'
<1> DEFINE p == Paid
           k == Closed(p)
<1>1. /\ Dispatch({"CLIENT_ERR", "ERROR"}) /\ GoNext
      /\ sock' = [sock EXCEPT ![cur] = k]
      /\ sm' = [sm EXCEPT ![cur] = ResetParser(@)]
      /\ net' = [net EXCEPT ![cur] = NewSocket]
  BY DEF DispatchAbort
<1>2. /\ all_fin' \in Nat /\ UNCHANGED <<polled, timeout, faults>>
      /\ p \in Counters /\ Fits(cur, p)
  BY <1>1, DispatchType
<1> HIDE DEF p
<1>3. k \in Counters /\ Fits(cur, k)
  BY <1>2, Typed, ClosedFits
<1> HIDE DEF k
<1> QED BY <1>1, <1>2, <1>3, FreshStart

LEMMA DispatchFinishedInv == ASSUME IInv, DispatchFinished PROVE IInv'
<1> DEFINE p == Paid
           r == Resized(p)
           z == [r EXCEPT !.leftover = 0]
<1>1. /\ Dispatch({"FIN", "CLOSE"})
      /\ sm' = [sm EXCEPT ![cur] = ResetParser(@)]
      /\ \/ /\ sock' = [sock EXCEPT ![cur] = z] /\ GoNext
            /\ net' = [net EXCEPT ![cur] = NewSocket]
         \/ /\ sock' = [sock EXCEPT ![cur] = r] /\ Goto("send")
            /\ call' = NoCall /\ UNCHANGED <<net, burst>>
  BY DEF DispatchFinished
<1>2. /\ all_fin' \in Nat /\ UNCHANGED <<polled, timeout, faults>>
      /\ p \in Counters /\ Fits(cur, p)
  BY <1>1, DispatchType
<1> HIDE DEF p
<1>3. r \in Counters /\ Fits(cur, r)
  BY <1>2, Typed, ResizedFits
<1> HIDE DEF r
<1>4. z \in Counters /\ Fits(cur, z)
  BY <1>3, Typed, NoLeftoverFits
<1> HIDE DEF z
<1> QED BY <1>1, <1>2, <1>3, <1>4, FreshStart

-----------------------------------------------------------------------------
(* The sending half. *)

LEMMA SendNothingInv == ASSUME IInv, SendNothing PROVE IInv'
<1>1. /\ pc = "send" /\ GoNext
      /\ UNCHANGED <<polled, timeout, all_fin, sock, sm, net, faults>>
  BY DEF SendNothing
<1>2. sock[cur].sent_req = 0 => sm[cur] = CleanParser
  BY <1>1, CurrentIdle
<1> QED BY <1>1, <1>2, Typed, GoNextType, FreshTypes, Unchanged, Assemble

\* What a send() does to the connection, k being its counters by then.
After(k, peer) ==
  \/ /\ sock' = [sock EXCEPT ![cur] = Closed(k)]
     /\ sm' = [sm EXCEPT ![cur] = ResetParser(@)]
     /\ net' = [net EXCEPT ![cur] = NewSocket]
  \/ /\ sock' = [sock EXCEPT ![cur] = k]
     /\ net' = [net EXCEPT ![cur] = peer]
     /\ UNCHANGED sm

\* ... to the invariant, when the loop goes on to the next connection or ends.
LEMMA AfterInv ==
  ASSUME IInv, pc \in {"send", "burst"},
         NEW k \in Counters, Fits(cur, k), sock[cur].sent_req <= k.sent_req,
         NEW peer \in Socket, After(k, peer),
         UNCHANGED <<polled, timeout, all_fin, faults>>,
         GoNext \/ (Goto("end") /\ call' = call /\ burst' = burst)
  PROVE  IInv'
<1>1. CASE /\ sock' = [sock EXCEPT ![cur] = Closed(k)]
           /\ sm' = [sm EXCEPT ![cur] = ResetParser(@)]
           /\ net' = [net EXCEPT ![cur] = NewSocket]
  <2>1. Closed(k) \in Counters /\ Fits(cur, Closed(k)) /\ all_fin' \in Nat
    BY Typed, ClosedFits
  <2> QED BY <1>1, <2>1, FreshStart
<1>2. CASE /\ sock' = [sock EXCEPT ![cur] = k]
           /\ net' = [net EXCEPT ![cur] = peer]
           /\ UNCHANGED sm
  <2>1. k.sent_req = 0 => sm[cur] = CleanParser
    <3>1. k.sent_req \in Nat /\ sock[cur].sent_req \in Nat
      BY Typed DEF Counters
    <3> QED BY <3>1, CurrentIdle
  <2>2. PeerTypeOK' /\ sm' = [sm EXCEPT ![cur] = sm[cur]]
    BY <1>2, Typed, Unchanged DEF PeerTypeOK
  <2>3. CASE GoNext
    BY <1>2, <2>1, <2>2, <2>3, GoNextType, Typed, Assemble
  <2>4. CASE Goto("end") /\ call' = call /\ burst' = burst
    BY <1>2, <2>1, <2>2, <2>4, GotoType, Typed, Assemble
  <2> QED BY <2>3, <2>4
<1> QED BY <1>1, <1>2 DEF After

\* One more request in flight.
OneMore(k) == [k EXCEPT !.sent_req = @ + 1]

LEMMA OneMoreType ==
  ASSUME NEW k \in Counters
  PROVE  /\ OneMore(k) \in Counters /\ OneMore(k).sent_req = k.sent_req + 1
         /\ OneMore(k).unsent_req = k.unsent_req /\ OneMore(k).rcvd_res = k.rcvd_res
         /\ OneMore(k).num_gap = k.num_gap /\ OneMore(k).leftover = k.leftover
         /\ OneMore(k).retry_conn_num = k.retry_conn_num
<1> DEFINE n == k.sent_req + 1
           d == [k EXCEPT !.sent_req = n]
<1>1. n \in Nat
  BY DEF Counters
<1> HIDE DEF n
<1>2. d \in Counters /\ d.sent_req = n /\ d.unsent_req = k.unsent_req /\ d.rcvd_res = k.rcvd_res
      /\ d.num_gap = k.num_gap /\ d.leftover = k.leftover
      /\ d.retry_conn_num = k.retry_conn_num
  BY <1>1 DEF Counters
<1> QED BY <1>2 DEF OneMore, n

LEMMA OneMoreFits ==
  ASSUME NEW c \in Conns, NEW k \in Counters, Fits(c, k), ~(ENABLE_PIPE /\ G_FAST), k.sent_req < k.unsent_req
  PROVE  OneMore(k) \in Counters /\ Fits(c, OneMore(k))
<1>1. k.sent_req \in Nat /\ k.unsent_req \in Nat
  BY DEF Counters
<1> QED BY <1>1, OneMoreType DEF Fits

LEMMA SendOneInv == ASSUME IInv, SendOne PROVE IInv'
<1> DEFINE try == Sent(net[cur], 0, ReqSize)
           k == IF try.ret = "OK" THEN OneMore(sock[cur]) ELSE sock[cur]
<1>1. /\ pc = "send" /\ MaySend /\ HasWork /\ ~ENABLE_PIPE /\ Aftermath(try, k, GoNext)
  BY DEF SendOne, Me, OneMore
<1>2. try.peer \in Socket
  BY Typed, SentType, PeerAssumption
<1>3. sock[cur].sent_req < sock[cur].unsent_req
  BY <1>1, Typed DEF MaySend, HasWork, Me, Counters
<1>4. k \in Counters /\ Fits(cur, k) /\ sock[cur].sent_req <= k.sent_req
  <2>1. sock[cur].sent_req \in Nat
    BY Typed DEF Counters
  <2> QED BY <1>1, <1>3, <2>1, Typed, OneMoreType, OneMoreFits
<1> HIDE DEF try, k
<1>5. /\ After(k, try.peer) /\ UNCHANGED <<polled, timeout, all_fin, faults>>
      /\ GoNext \/ (Goto("end") /\ call' = call /\ burst' = burst)
  BY <1>1 DEF Aftermath, After
<1> QED BY <1>1, <1>2, <1>4, <1>5, AfterInv

LEMMA StartBurstInv == ASSUME IInv, StartBurst PROVE IInv'
<1>1. /\ pc = "send" /\ HasWork /\ ENABLE_PIPE /\ ~G_FAST
      /\ burst' = Workload(sock[cur]) /\ Goto("burst")
      /\ UNCHANGED <<polled, timeout, all_fin, sock, sm, call, net, faults>>
  BY DEF StartBurst, Me
<1> DEFINE w == Workload(sock[cur])
<1>2. w \in Nat /\ sock[cur].sent_req + w <= sock[cur].unsent_req
  BY Typed, WorkloadType DEF Fits
<1>3. w >= 1
  <2>1. WorkloadBytes(sock[cur]) # 0
    BY <1>1 DEF HasWork, Me
  <2>2. sock[cur].leftover = 0
    BY <1>1, Typed DEF Fits
  <2>3. w # 0
    BY <2>1, <2>2 DEF WorkloadBytes
  <2> QED BY <1>2, <2>3
<1> HIDE DEF w
<1>4. burst' = w
  BY <1>1 DEF w
<1>5. pc' = "burst" /\ cur' = cur /\ revents' = revents
  BY <1>1 DEF Goto
<1>6. NeverNegative' /\ BurstFits' /\ CallIsBound'
  BY <1>1, <1>2, <1>3, <1>4, <1>5 DEF NeverNegative, BurstFits, CallIsBound
<1>7. sock[cur].sent_req = 0 => sm[cur] = CleanParser
  BY <1>1, CurrentIdle
<1> QED BY <1>1, <1>2, <1>4, <1>5, <1>6, <1>7, Typed, Unchanged, FreshTypes, Assemble

LEMMA SendBurstInv == ASSUME IInv, SendBurst PROVE IInv'
<1> DEFINE try == Sent(net[cur], 0, ReqSize)
           k == OneMore(sock[cur])
<1>1. /\ pc = "burst"
      /\ After(k, try.peer) /\ UNCHANGED <<polled, timeout, all_fin, faults>>
      /\ \/ Goto("end") /\ call' = call /\ burst' = burst
         \/ burst = 1 /\ GoNext
         \/ burst # 1 /\ burst' = burst - 1 /\ UNCHANGED <<pc, cur, revents, call>>
  BY DEF SendBurst, Aftermath, After, Me, OneMore
<1>2. try.peer \in Socket
  BY Typed, SentType, PeerAssumption
<1>3. /\ burst \in Nat /\ burst >= 1 /\ ENABLE_PIPE /\ ~G_FAST
      /\ sock[cur].sent_req + burst <= sock[cur].unsent_req
      /\ sock[cur].sent_req \in Nat /\ sock[cur].unsent_req \in Nat
  BY <1>1, Typed DEF IInv, BurstFits, Counters
<1>4. /\ k \in Counters /\ Fits(cur, k) /\ k.sent_req = sock[cur].sent_req + 1
      /\ k.unsent_req = sock[cur].unsent_req
  BY <1>3, Typed, OneMoreType, OneMoreFits
<1>5. sock[cur].sent_req <= k.sent_req
  BY <1>3, <1>4
<1> HIDE DEF try, k
<1>6. CASE GoNext \/ (Goto("end") /\ call' = call /\ burst' = burst)
  BY <1>1, <1>2, <1>4, <1>5, <1>6, AfterInv
<1>7. CASE burst # 1 /\ burst' = burst - 1 /\ UNCHANGED <<pc, cur, revents, call>>
  <2>1. burst' \in Nat /\ burst' >= 1
    BY <1>3, <1>7
  <2>2. NeverNegative' /\ CallIsBound'
    BY <1>1, <1>7 DEF NeverNegative, CallIsBound
  <2>3. /\ sock'[cur].sent_req \in Nat /\ sock'[cur].sent_req <= k.sent_req
        /\ sock'[cur].unsent_req = k.unsent_req
        => BurstFits'
    BY <1>3, <1>4, <1>7, <2>1 DEF BurstFits
  <2>4. CASE /\ sock' = [sock EXCEPT ![cur] = Closed(k)]
             /\ sm' = [sm EXCEPT ![cur] = ResetParser(@)]
             /\ net' = [net EXCEPT ![cur] = NewSocket]
    <3>1. /\ Closed(k) \in Counters /\ Fits(cur, Closed(k))
          /\ Closed(k).sent_req = 0 /\ Closed(k).unsent_req = k.unsent_req
      BY <1>4, Typed, ClosedFits, ClosedType
    <3>2. BurstFits'
      <4>1. sock'[cur] = Closed(k)
        BY <2>4, Typed
      <4> QED BY <1>3, <1>4, <2>3, <3>1, <4>1
    <3>3. sm' = [sm EXCEPT ![cur] = CleanParser] /\ PeerTypeOK'
      BY <1>1, <2>4, FreshTypes
    <3> QED BY <1>1, <1>7, <2>1, <2>2, <2>4, <3>1, <3>2, <3>3, Typed, CleanParserType, Assemble
  <2>5. CASE /\ sock' = [sock EXCEPT ![cur] = k]
             /\ net' = [net EXCEPT ![cur] = try.peer]
             /\ UNCHANGED sm
    <3>1. BurstFits'
      <4>1. sock'[cur] = k
        BY <2>5, Typed
      <4> QED BY <1>3, <1>4, <2>3, <4>1
    <3>2. PeerTypeOK' /\ sm' = [sm EXCEPT ![cur] = sm[cur]]
      BY <1>1, <1>2, <2>5, Typed, Unchanged DEF PeerTypeOK
    <3>3. k.sent_req # 0
      BY <1>3, <1>4
    <3> QED BY <1>1, <1>4, <1>7, <2>1, <2>2, <2>5, <3>1, <3>2, <3>3, Typed, Assemble
  <2> QED BY <1>1, <2>4, <2>5 DEF After
<1> QED BY <1>1, <1>6, <1>7

\* What the fast mode counts of u units taken, on a connection that had room
\* for them: only complete requests, and what is left over of one more.
LEMMA FastCount ==
  ASSUME NEW u \in Nat, NEW w \in Nat, u <= ReqSize * w
  PROVE  /\ CompleteRequests(u) \in Nat /\ CompleteRequests(u) <= w
         /\ (u % ReqSize) % LEFTOVER_MOD \in 0..(ReqSize - 1)
         /\ (u % ReqSize) % LEFTOVER_MOD # 0 => CompleteRequests(u) < w
<1>1. ReqSize \in Nat \ {0} /\ LEFTOVER_MOD \in Nat \ {0}
  BY PeerAssumption, ConnMgntAssumption
<1>2. /\ CompleteRequests(u) \in Nat /\ CompleteRequests(u) <= w
      /\ u % ReqSize # 0 => CompleteRequests(u) < w
  BY <1>1, CompleteBound, Quotient DEF CompleteRequests
<1> DEFINE r == u % ReqSize
<1>3. r \in 0..(ReqSize - 1)
  BY <1>1, ModRange
<1> HIDE DEF r
<1>4. r % LEFTOVER_MOD \in Nat /\ (r # 0 \/ r % LEFTOVER_MOD = 0) /\ r % LEFTOVER_MOD <= r
  BY <1>1, <1>3, SMT
<1> QED BY <1>1, <1>2, <1>3, <1>4 DEF r

\* The counters k when send() has taken the given number of units, counted
\* from the beginning of the partly sent request.
Counted(k, taken) == [k EXCEPT !.sent_req = @ + CompleteRequests(taken),
                               !.leftover = (taken % ReqSize) % LEFTOVER_MOD]

LEMMA FastType ==
  ASSUME NEW c \in Conns, NEW old \in Counters, Fits(c, old), ENABLE_PIPE, G_FAST,
         NEW s \in Socket, NEW try, try = Sent(s, old.leftover, WorkloadBytes(old)),
         NEW k, k = Counted(old, try.n + old.leftover)
  PROVE  /\ try.peer \in Socket
         /\ k \in Counters /\ Fits(c, k) /\ k.unsent_req = old.unsent_req
         /\ k.num_gap = old.num_gap /\ k.retry_conn_num = old.retry_conn_num
         /\ old.sent_req <= k.sent_req /\ k.sent_req <= old.unsent_req
<1> DEFINE bytes == WorkloadBytes(old)
           taken == try.n + old.leftover
           q == CompleteRequests(taken)
           l == (taken % ReqSize) % LEFTOVER_MOD
           n == old.sent_req + q
           w == Workload(old)
<1>1. k = [old EXCEPT !.sent_req = n, !.leftover = l]
  BY DEF Counted
<1>2. /\ old.sent_req \in Nat /\ old.unsent_req \in Nat /\ old.num_gap \in Nat
      /\ old.leftover \in Nat /\ ReqSize \in Nat
  BY PeerAssumption DEF Counters
<1>3. /\ w \in Nat /\ old.sent_req + w <= old.unsent_req
      /\ w # 0 => old.sent_req + w <= old.num_gap
  BY <1>2, WorkloadType DEF Fits
<1>4. bytes \in Nat /\ old.leftover + bytes = ReqSize * w
  BY <1>2, WorkloadBytesType DEF Fits
<1> HIDE DEF bytes, w
<1>5. try.n \in Nat /\ try.n <= bytes /\ try.peer \in Socket
  BY <1>2, <1>4, SentType DEF bytes
<1>6. taken \in Nat /\ taken <= ReqSize * w
  <2> DEFINE p == ReqSize * w
  <2>1. old.leftover + bytes = p
    BY <1>4
  <2> HIDE DEF p
  <2>2. taken \in Nat /\ taken <= p
    BY <1>2, <1>4, <1>5, <2>1
  <2> QED BY <2>2 DEF p
<1> HIDE DEF taken
<1>7. q \in Nat /\ q <= w /\ l \in 0..(ReqSize - 1) /\ (l # 0 => q < w)
  BY <1>3, <1>6, FastCount
<1> HIDE DEF q, l
<1>8. n \in Nat /\ old.sent_req <= n
  BY <1>2, <1>7
<1>9. n <= old.unsent_req /\ (l # 0 => n < old.unsent_req /\ n < old.num_gap)
  BY <1>2, <1>3, <1>7
<1> HIDE DEF n
<1>10. /\ k \in Counters /\ k.sent_req = n /\ k.leftover = l /\ k.num_gap = old.num_gap
       /\ k.unsent_req = old.unsent_req /\ k.rcvd_res = old.rcvd_res
       /\ k.retry_conn_num = old.retry_conn_num
  BY <1>1, <1>7, <1>8 DEF Counters
<1>11. Fits(c, k)
  BY <1>2, <1>9, <1>10 DEF Fits
<1> QED BY <1>5, <1>8, <1>9, <1>10, <1>11

\* What SendFast makes of the current connection, whatever send() returned.
FastOutcome(try) ==
  IF try.ret = "OK" THEN Counted(sock[cur], try.n + sock[cur].leftover) ELSE sock[cur]

LEMMA FastOutcomeType ==
  ASSUME IInv, ENABLE_PIPE, G_FAST,
         NEW try, try = Sent(net[cur], sock[cur].leftover, WorkloadBytes(sock[cur]))
  PROVE  /\ try.peer \in Socket
         /\ FastOutcome(try) \in Counters /\ Fits(cur, FastOutcome(try))
         /\ FastOutcome(try).unsent_req = sock[cur].unsent_req
         /\ FastOutcome(try).num_gap = sock[cur].num_gap
         /\ FastOutcome(try).retry_conn_num = sock[cur].retry_conn_num
         /\ sock[cur].sent_req <= FastOutcome(try).sent_req
         /\ FastOutcome(try).sent_req <= sock[cur].unsent_req
<1> DEFINE old == sock[cur]
<1>1. /\ cur \in Conns /\ net[cur] \in Socket /\ old \in Counters /\ Fits(cur, old)
      /\ old.sent_req \in Nat /\ old.sent_req <= old.unsent_req
  BY Typed DEF Counters, Fits
<1> DEFINE k == Counted(old, try.n + old.leftover)
<1>2. /\ try.peer \in Socket
      /\ k \in Counters /\ Fits(cur, k) /\ k.unsent_req = old.unsent_req
      /\ k.num_gap = old.num_gap /\ k.retry_conn_num = old.retry_conn_num
      /\ old.sent_req <= k.sent_req /\ k.sent_req <= old.unsent_req
  <2>1. cur \in Conns /\ net[cur] \in Socket /\ old \in Counters /\ Fits(cur, old)
    BY <1>1
  <2>2. try = Sent(net[cur], old.leftover, WorkloadBytes(old)) /\ k = Counted(old, try.n + old.leftover)
    OBVIOUS
  <2> HIDE DEF old, k
  <2> QED BY <2>1, <2>2, FastType
<1>3. FastOutcome(try) = IF try.ret = "OK" THEN k ELSE old
  BY DEF FastOutcome
<1> HIDE DEF k, old
<1>4. CASE try.ret = "OK"
  BY <1>2, <1>3, <1>4 DEF old
<1>5. CASE try.ret # "OK"
  BY <1>1, <1>2, <1>3, <1>5 DEF old
<1> QED BY <1>4, <1>5

LEMMA SendFastInv == ASSUME IInv, SendFast PROVE IInv'
<1> DEFINE try == Sent(net[cur], sock[cur].leftover, WorkloadBytes(sock[cur]))
           k == FastOutcome(try)
<1>1. pc = "send" /\ ENABLE_PIPE /\ G_FAST /\ Aftermath(try, k, GoNext)
  BY DEF SendFast, Me, FastOutcome, Counted
<1>2. try.peer \in Socket /\ k \in Counters /\ Fits(cur, k) /\ sock[cur].sent_req <= k.sent_req
  BY <1>1, FastOutcomeType
<1> HIDE DEF try, k
<1>3. /\ After(k, try.peer) /\ UNCHANGED <<polled, timeout, all_fin, faults>>
      /\ GoNext \/ (Goto("end") /\ call' = call /\ burst' = burst)
  BY <1>1 DEF Aftermath, After
<1> QED BY <1>1, <1>2, <1>3, AfterInv

-----------------------------------------------------------------------------
(* The invariant. *)

LEMMA NextInv == ASSUME IInv, [Next]_vars PROVE IInv'
<1>1. CASE Program
  BY <1>1, PollInv, SkipFinishedInv, CheckErrorInv, ErrorCloseInv,
     ParseTokenInv, ParseFinishInv, NothingExpectedInv, RecvInv, RecvEofInv, RecvNothingInv,
     DispatchPollDataInv, DispatchEndInv, DispatchPeerClosesInv, DispatchFinishedInv,
     DispatchKeepInv, DispatchAbortInv,
     SendNothingInv, SendOneInv, StartBurstInv, SendBurstInv, SendFastInv
     DEF Program, Receive, Respond, Send
<1>2. CASE PollFails
  BY <1>2, PollInv
<1>3. CASE Peer
  BY <1>3, PeerInv
<1>4. CASE Finished \/ UNCHANGED vars
  <2>1. UNCHANGED vars
    BY <1>4 DEF Finished
  <2>2. UNCHANGED peerVars /\ UNCHANGED progVars
    BY <2>1 DEF vars, peerVars
  <2> QED BY <2>2 DEF IInv, progVars, loopVars, peerVars, TypeOK, PeerTypeOK, Accounting,
             NeverNegative, IdleIsClean, BurstFits, LeftoverHasRoom, CallIsBound, GapOnlyShrinks
<1> QED BY <1>1, <1>2, <1>3, <1>4 DEF Next

LEMMA Invariant == Spec => []IInv
<1>1. IInv /\ [Next]_vars => IInv'
  BY NextInv
<1> QED BY <1>1, InitInv, PTL DEF Spec

-----------------------------------------------------------------------------
(* What one step does to the counters of the current connection. *)

GapKept(old, k) == \/ k.num_gap = old.num_gap
                   \/ /\ k.num_gap = Decreased(old.num_gap)
                      /\ k.retry_conn_num = old.retry_conn_num + 1
                      /\ k.sent_req = 0

\* n responses are credited, and the rest stays in flight or is given up.
Settles(old, k) == /\ GapKept(old, k)
                   /\ \E n \in 0..old.sent_req : /\ k.unsent_req = old.unsent_req - n
                                                 /\ k.sent_req \in {old.sent_req - n, 0}

\* More requests are in flight, not more than are unfinished.
Issues(old, k) == /\ k.num_gap = old.num_gap /\ k.unsent_req = old.unsent_req
                  /\ k.sent_req \in (old.sent_req + 1)..old.unsent_req

Moves(old, k) == Settles(old, k) \/ Issues(old, k)

LEMMA SameMoves == ASSUME NEW old \in Counters PROVE Moves(old, old)
<1>1. old.sent_req \in Nat /\ old.unsent_req \in Nat
  BY DEF Counters
<1>2. 0 \in 0..old.sent_req /\ old.unsent_req = old.unsent_req - 0 /\ old.sent_req = old.sent_req - 0
  BY <1>1
<1> QED BY <1>2 DEF Moves, Settles, GapKept

\* Giving up a connection on which the counters had moved to k.
LEMMA ClosedMoves ==
  ASSUME NEW old \in Counters, NEW k \in Counters,
         k.num_gap = old.num_gap, k.retry_conn_num = old.retry_conn_num,
         NEW n \in 0..old.sent_req, k.unsent_req = old.unsent_req - n
  PROVE  Closed(k) \in Counters /\ Moves(old, Closed(k))
<1>1. /\ Closed(k) \in Counters /\ Closed(k).sent_req = 0
      /\ Closed(k).unsent_req = k.unsent_req
      /\ Closed(k).num_gap \in {k.num_gap, Decreased(k.num_gap)}
      /\ Closed(k).retry_conn_num = k.retry_conn_num + 1
  BY ClosedType
<1> QED BY <1>1 DEF Moves, Settles, GapKept

LEMMA PaidMoves ==
  ASSUME IInv, pc = "dispatch"
  PROVE  /\ Paid \in Counters
         /\ call.fin_resp \in 0..sock[cur].sent_req
         /\ Paid.sent_req = sock[cur].sent_req - call.fin_resp
         /\ Paid.unsent_req = sock[cur].unsent_req - call.fin_resp
         /\ Paid.num_gap = sock[cur].num_gap
         /\ Paid.retry_conn_num = sock[cur].retry_conn_num
<1>1. /\ call.fin_resp \in Nat /\ sock[cur].sent_req \in Nat
      /\ sock[cur] \in Counters /\ Fits(cur, sock[cur])
  BY Typed DEF ParserCall, Counters
<1>2. call.fin_resp <= sock[cur].sent_req
  BY DEF IInv, NeverNegative
<1> QED BY <1>1, <1>2, CreditedType DEF Paid, Me, Fits

\* A step of the loop moves the counters of the current connection only.
CurrentMoves == \E k \in Counters : sock' = [sock EXCEPT ![cur] = k] /\ Moves(sock[cur], k)

LEMMA AfterMoves ==
  ASSUME IInv, NEW k \in Counters, NEW peer, After(k, peer), Moves(sock[cur], k),
         k.unsent_req = sock[cur].unsent_req, k.num_gap = sock[cur].num_gap,
         k.retry_conn_num = sock[cur].retry_conn_num
  PROVE  CurrentMoves
<1>1. /\ sock[cur] \in Counters /\ sock[cur].sent_req \in Nat /\ sock[cur].unsent_req \in Nat
      /\ 0 \in 0..sock[cur].sent_req
  BY Typed DEF Counters
<1>2. k.unsent_req = sock[cur].unsent_req - 0
  BY <1>1
<1>3. Closed(k) \in Counters /\ Moves(sock[cur], Closed(k))
  BY <1>1, <1>2, ClosedMoves
<1> QED BY <1>3 DEF After, CurrentMoves

LEMMA ReceiveMoves ==
  ASSUME IInv, Poll \/ PollTimeout \/ PollFails \/ SkipFinished \/ CheckError \/ ErrorClose
               \/ Receive
  PROVE  CurrentMoves
<1>1. CASE UNCHANGED sock
  BY <1>1, Typed, Unchanged, SameMoves DEF CurrentMoves
<1>2. CASE ErrorClose
  <2>1. sock' = [sock EXCEPT ![cur] = Closed(sock[cur])]
    BY <1>2 DEF ErrorClose, conn_mgnt_close_handler
  <2>2. /\ sock[cur] \in Counters /\ 0 \in 0..sock[cur].sent_req
        /\ sock[cur].unsent_req = sock[cur].unsent_req - 0
    BY Typed DEF Counters
  <2>3. Closed(sock[cur]) \in Counters /\ Moves(sock[cur], Closed(sock[cur]))
    BY <2>2, ClosedMoves
  <2> QED BY <2>1, <2>3 DEF CurrentMoves
<1> QED BY <1>1, <1>2 DEF Poll, PollTimeout, PollFails, SkipFinished, CheckError, Receive,
           ParseToken, ParseFinish, NothingExpected, Recv, RecvEof, RecvNothing

LEMMA RespondMoves == ASSUME IInv, Respond PROVE CurrentMoves
<1> DEFINE p == Paid
           n == call.fin_resp
           old == sock[cur]
<1>1. pc = "dispatch"
  BY DEF Respond, Dispatch, DispatchPollData, DispatchEnd, DispatchPeerCloses, DispatchFinished,
         DispatchKeep, DispatchAbort
<1>2. /\ p \in Counters /\ n \in 0..old.sent_req
      /\ p.sent_req = old.sent_req - n /\ p.unsent_req = old.unsent_req - n
      /\ p.num_gap = old.num_gap /\ p.retry_conn_num = old.retry_conn_num
  BY <1>1, PaidMoves
<1>3. old \in Counters /\ cur \in Conns
  BY Typed
<1> DEFINE z == Zeroed(p)
           r == Resized(p)
           l == [r EXCEPT !.leftover = 0]
<1>4. \/ sock' = [sock EXCEPT ![cur] = p] \/ sock' = [sock EXCEPT ![cur] = z]
      \/ sock' = [sock EXCEPT ![cur] = r] \/ sock' = [sock EXCEPT ![cur] = l]
      \/ sock' = [sock EXCEPT ![cur] = Closed(p)]
  BY DEF Respond, DispatchPollData, DispatchEnd, DispatchPeerCloses, DispatchFinished,
         DispatchKeep, DispatchAbort, Zeroed
<1>5. Fits(cur, p)
  BY <1>1, Typed, CreditedFits DEF Paid, Me, IInv, NeverNegative, ParserCall
<1> HIDE DEF p, old, n
<1>6. Moves(old, p)
  BY <1>2 DEF Moves, Settles, GapKept
<1>7. z \in Counters /\ Moves(old, z)
  <2>1. z \in Counters
    BY <1>2, <1>3, <1>5, ZeroedFits
  <2>2. /\ z.sent_req = 0 /\ z.unsent_req = p.unsent_req /\ z.num_gap = p.num_gap
    BY <1>2 DEF Zeroed, Counters
  <2> HIDE DEF z
  <2> QED BY <1>2, <2>1, <2>2 DEF Moves, Settles, GapKept
<1>8. /\ r \in Counters /\ r.sent_req = 0 /\ r.unsent_req = p.unsent_req
      /\ GapKept(old, r)
  <2>1. /\ r \in Counters /\ r.sent_req = 0 /\ r.unsent_req = p.unsent_req
        /\ \/ r.num_gap = p.num_gap
           \/ r.num_gap = Decreased(p.num_gap) /\ r.retry_conn_num = p.retry_conn_num + 1
    BY <1>2, ResizedType
  <2> HIDE DEF r
  <2> QED BY <1>2, <2>1 DEF GapKept
<1> HIDE DEF r
<1>9. Moves(old, r)
  BY <1>2, <1>8 DEF Moves, Settles
<1>10. l \in Counters /\ Moves(old, l)
  <2>1. 0 \in 0..(ReqSize - 1)
    BY PeerAssumption
  <2>2. /\ l \in Counters /\ l.sent_req = r.sent_req /\ l.unsent_req = r.unsent_req
        /\ l.num_gap = r.num_gap /\ l.retry_conn_num = r.retry_conn_num
    BY <1>8, <2>1 DEF Counters
  <2> HIDE DEF l
  <2>3. GapKept(old, l)
    BY <1>8, <2>2 DEF GapKept
  <2> QED BY <1>2, <1>8, <2>2, <2>3 DEF Moves, Settles
<1>11. Closed(p) \in Counters /\ Moves(old, Closed(p))
  BY <1>2, <1>3, ClosedMoves
<1> HIDE DEF z, l
<1> QED BY <1>2, <1>4, <1>6, <1>7, <1>8, <1>9, <1>10, <1>11 DEF CurrentMoves, old

LEMMA OneMoreMoves ==
  ASSUME NEW k \in Counters, k.sent_req < k.unsent_req
  PROVE  Moves(k, OneMore(k))
<1>1. /\ OneMore(k).sent_req = k.sent_req + 1
      /\ OneMore(k).unsent_req = k.unsent_req /\ OneMore(k).num_gap = k.num_gap
  BY OneMoreType
<1>2. k.sent_req \in Nat /\ k.unsent_req \in Nat
  BY DEF Counters
<1> QED BY <1>1, <1>2 DEF Moves, Issues

LEMMA SendMoves == ASSUME IInv, Send PROVE CurrentMoves
<1> DEFINE old == sock[cur]
<1>1. old \in Counters /\ old.sent_req \in Nat /\ old.unsent_req \in Nat /\ old.leftover \in Nat
  BY Typed DEF Counters
<1>2. CASE SendNothing \/ StartBurst
  <2>1. UNCHANGED sock
    BY <1>2 DEF SendNothing, StartBurst
  <2> QED BY <2>1, Typed, Unchanged, SameMoves DEF CurrentMoves
<1>3. CASE SendOne
  <2> DEFINE try == Sent(net[cur], 0, ReqSize)
             k == IF try.ret = "OK" THEN OneMore(old) ELSE old
  <2>1. MaySend /\ HasWork /\ ~ENABLE_PIPE /\ Aftermath(try, k, GoNext)
    BY <1>3 DEF SendOne, Me, OneMore
  <2>2. old.sent_req < old.unsent_req
    BY <1>1, <2>1 DEF MaySend, HasWork, Me
  <2>3. /\ k \in Counters /\ Moves(old, k) /\ k.unsent_req = old.unsent_req
        /\ k.num_gap = old.num_gap /\ k.retry_conn_num = old.retry_conn_num
    BY <1>1, <2>2, SameMoves, OneMoreMoves, OneMoreType
  <2> HIDE DEF try, k
  <2>4. After(k, try.peer)
    BY <2>1 DEF Aftermath, After
  <2> QED BY <2>3, <2>4, AfterMoves
<1>4. CASE SendBurst
  <2> DEFINE try == Sent(net[cur], 0, ReqSize)
             k == OneMore(old)
  <2>1. After(k, try.peer)
    BY <1>4 DEF SendBurst, Aftermath, After, Me, OneMore
  <2>2. old.sent_req < old.unsent_req
    BY <1>1, <1>4, Typed DEF SendBurst, IInv, BurstFits
  <2>3. /\ k \in Counters /\ Moves(old, k) /\ k.unsent_req = old.unsent_req
        /\ k.num_gap = old.num_gap /\ k.retry_conn_num = old.retry_conn_num
    BY <1>1, <2>2, OneMoreMoves, OneMoreType
  <2> HIDE DEF try, k
  <2> QED BY <2>1, <2>3, AfterMoves
<1>5. CASE SendFast
  <2> DEFINE try == Sent(net[cur], sock[cur].leftover, WorkloadBytes(sock[cur]))
             k == FastOutcome(try)
  <2>1. ENABLE_PIPE /\ G_FAST /\ Aftermath(try, k, GoNext)
    BY <1>5 DEF SendFast, Me, FastOutcome, Counted
  <2>2. /\ k \in Counters /\ k.unsent_req = old.unsent_req /\ k.num_gap = old.num_gap
        /\ k.retry_conn_num = old.retry_conn_num
        /\ old.sent_req <= k.sent_req /\ k.sent_req <= old.unsent_req
    BY <2>1, FastOutcomeType
  <2> HIDE DEF try, k
  <2>3. Moves(old, k)
    <3>1. k.sent_req \in Nat
      BY <2>2 DEF Counters
    <3>2. CASE k.sent_req = old.sent_req
      <4>1. 0 \in 0..old.sent_req /\ k.unsent_req = old.unsent_req - 0 /\ k.sent_req = old.sent_req - 0
        BY <1>1, <2>2, <3>2
      <4> QED BY <2>2, <4>1 DEF Moves, Settles, GapKept
    <3>3. CASE k.sent_req # old.sent_req
      BY <1>1, <2>2, <3>1, <3>3 DEF Moves, Issues
    <3> QED BY <3>2, <3>3
  <2>4. After(k, try.peer)
    BY <2>1 DEF Aftermath, After
  <2> QED BY <2>2, <2>3, <2>4, AfterMoves
<1> QED BY <1>2, <1>3, <1>4, <1>5 DEF Send

LEMMA StepMoves ==
  ASSUME IInv, [Next]_vars
  PROVE  UNCHANGED <<sock, pc>> \/ (pc # "end" /\ CurrentMoves)
<1>1. CASE Program \/ PollFails
  <2>1. CurrentMoves
    BY <1>1, ReceiveMoves, RespondMoves, SendMoves DEF Program
  <2>2. pc # "end"
    BY <1>1 DEF Program, Poll, PollTimeout, PollFails, SkipFinished, CheckError, ErrorClose,
       Receive, ParseToken, ParseFinish, NothingExpected, Recv, RecvEof, RecvNothing,
       Respond, DispatchPollData, DispatchEnd, DispatchPeerCloses, DispatchFinished,
       DispatchKeep, DispatchAbort, Dispatch,
       Send, SendNothing, SendOne, StartBurst, SendBurst, SendFast
  <2> QED BY <2>1, <2>2
<1>2. CASE Peer \/ Finished \/ UNCHANGED vars
  BY <1>2 DEF Peer, FromPeer, Finished, vars, progVars, loopVars
<1> QED BY <1>1, <1>2 DEF Next

\* Whoever counts on a connection being new finds its parser new as well.
Connecting ==
  \A c \in Conns : net[c].tcp = "SYN_SENT" => net[c].rx = <<>> /\ sm[c] = CleanParser

LEMMA ConnectingInit == Init => Connecting
BY DEF Init, PeerInit, Connecting, NewSocket

LEMMA PeerConnecting == ASSUME IInv, Connecting, Peer PROVE Connecting'
<1>1. UNCHANGED sm
  BY DEF Peer, FromPeer, progVars
<1>2. PICK d \in Conns : PeerStep(d)
  BY DEF Peer, FromPeer
<1>3. net \in [Conns -> Socket]
  BY Typed
<1>4. /\ \A c \in Conns : c # d => net'[c] = net[c]
      /\ net'[d].tcp # "SYN_SENT"
  <2>1. net[d] \in Socket
    BY <1>3
  <2>2. CASE Establish(d)
    BY <1>3, <2>1, <2>2 DEF Establish, Socket
  <2>3. CASE Refuse(d) \/ AnswerBad(d) \/ Fin(d) \/ Rst(d)
    <3>1. \E s, state, why : /\ net' = [net EXCEPT ![d] = Gone(s, state, why)]
                             /\ s \in Socket /\ state \in {"CLOSE_WAIT", "CLOSE"}
      <4>1. [net[d] EXCEPT !.rx = @ \o Message("close4")] \in Socket
        <5>1. Message("close4") \in Seq(Tokens) /\ net[d].rx \in Seq(Tokens)
          BY <2>1, MessageType DEF Socket, HeadKinds
        <5>2. net[d].rx \o Message("close4") \in Seq(Tokens)
          BY <5>1
        <5> QED BY <2>1, <5>2 DEF Socket
      <4>2. CASE Refuse(d) \/ AnswerBad(d)
        BY <2>1, <4>1, <4>2 DEF Refuse, AnswerBad, Rejected
      <4>3. CASE Fin(d)
        BY <2>1, <4>3, CutType DEF Fin
      <4>4. CASE Rst(d)
        BY <2>1, <4>4, CutType DEF Rst
      <4> QED BY <2>3, <4>2, <4>3, <4>4
    <3>2. ASSUME NEW s \in Socket, NEW state, NEW why PROVE Gone(s, state, why).tcp = state
      BY DEF Gone, Socket
    <3> QED BY <1>3, <3>1, <3>2
  <2>4. CASE ServerRead(d)
    BY <1>3, <2>1, <2>4 DEF ServerRead, ReadUnit, Socket
  <2>5. CASE \E k \in Kinds : Answer(d, k)
    <3> PICK k \in Kinds : Answer(d, k)
      BY <2>5
    <3> DEFINE s == [net[d] EXCEPT !.rx = @ \o Message(k), !.srv = @ - 1]
    <3>1. s.tcp = "ESTABLISHED"
      BY <2>1 DEF Answer, Socket
    <3>2. net' = [net EXCEPT ![d] = IF k \in Closing THEN Gone(s, "CLOSE_WAIT", "NONE") ELSE s]
      BY DEF Answer
    <3>3. s \in [tcp : {"ESTABLISHED"}, err : {net[d].err}, rx : {s.rx}, wire : {s.wire},
                 frag : {s.frag}, srv : {s.srv}, bad : {s.bad}]
      BY <2>1, <3>1 DEF Socket
    <3> HIDE DEF s
    <3>4. Gone(s, "CLOSE_WAIT", "NONE").tcp = "CLOSE_WAIT"
      BY <3>3 DEF Gone
    <3> QED BY <1>3, <3>1, <3>2, <3>4
  <2> QED BY <1>2, <2>2, <2>3, <2>4, <2>5 DEF PeerStep
<1> QED BY <1>1, <1>4 DEF Connecting

\* One connection's socket and parser change together.
LEMMA ConnectingStep ==
  ASSUME IInv, Connecting,
         NEW m, sm' = [sm EXCEPT ![cur] = m], NEW s, net' = [net EXCEPT ![cur] = s],
         s.tcp = "SYN_SENT" => s.rx = <<>> /\ m = CleanParser
  PROVE  Connecting'
BY Typed DEF Connecting

LEMMA SentConnecting ==
  ASSUME NEW s \in Socket, NEW from, NEW n, Sent(s, from, n).peer.tcp = "SYN_SENT"
  PROVE  s.tcp = "SYN_SENT" /\ Sent(s, from, n).peer = s
<1>1. CASE s.tcp = "SYN_SENT"
  BY <1>1 DEF Sent
<1>2. CASE s.tcp # "SYN_SENT"
  BY <1>2 DEF Sent, Socket
<1> QED BY <1>1, <1>2

LEMMA AfterConnecting ==
  ASSUME IInv, Connecting, NEW k, NEW from, NEW n, After(k, Sent(net[cur], from, n).peer)
  PROVE  Connecting'
<1> DEFINE s == Sent(net[cur], from, n).peer
<1>1. s.tcp = "SYN_SENT" => net[cur].tcp = "SYN_SENT" /\ s = net[cur]
  BY Typed, SentConnecting
<1>2. s.tcp = "SYN_SENT" => s.rx = <<>> /\ sm[cur] = CleanParser
  BY <1>1, Typed DEF Connecting
<1>3. CASE sm' = [sm EXCEPT ![cur] = ResetParser(@)] /\ net' = [net EXCEPT ![cur] = NewSocket]
  BY <1>3, ConnectingStep, Typed DEF NewSocket, ResetParser
<1>4. CASE UNCHANGED sm /\ net' = [net EXCEPT ![cur] = s]
  <2> HIDE DEF s
  <2> QED BY <1>2, <1>4, ConnectingStep, Unchanged
<1> QED BY <1>3, <1>4 DEF After

LEMMA ProgramConnecting == ASSUME IInv, Connecting, Program \/ PollFails PROVE Connecting'
<1>1. CASE UNCHANGED <<sm, net>>
  BY <1>1 DEF Connecting
<1>2. CASE sm' = [sm EXCEPT ![cur] = ResetParser(@)] /\ net' = [net EXCEPT ![cur] = NewSocket]
  BY <1>2, ConnectingStep, Typed DEF NewSocket, ResetParser
<1>3. CASE sm' = [sm EXCEPT ![cur] = ResetParser(@)] /\ UNCHANGED net
  BY <1>3, Typed DEF Connecting, ResetParser
<1>4. CASE ParseToken \/ ParseFinish
  <2>1. sm[cur].buf # <<>> /\ UNCHANGED net /\ \E m : sm' = [sm EXCEPT ![cur] = m]
    BY <1>4, Typed DEF ParseToken, ParseFinish
  <2>2. net[cur].tcp # "SYN_SENT"
    BY <2>1, Typed DEF Connecting, CleanParser
  <2> QED BY <2>1, <2>2, Typed DEF Connecting
<1>5. CASE Recv
  <2>1. PICK n \in 1..Len(net[cur].rx) :
          /\ \E m : sm' = [sm EXCEPT ![cur] = m]
          /\ net' = [net EXCEPT ![cur].rx = SubSeq(@, n + 1, Len(@))]
    BY <1>5 DEF Recv
  <2>2. net[cur].rx # <<>>
    BY <2>1
  <2>3. net[cur].tcp # "SYN_SENT"
    BY <2>2, Typed DEF Connecting
  <2> DEFINE s == [net[cur] EXCEPT !.rx = SubSeq(net[cur].rx, n + 1, Len(net[cur].rx))]
  <2>4. net' = [net EXCEPT ![cur] = s] /\ s.tcp = net[cur].tcp
    BY <2>1, Typed DEF Socket
  <2> HIDE DEF s
  <2> QED BY <2>1, <2>3, <2>4, ConnectingStep
<1>6. CASE RecvNothing
  <2>1. net' = [net EXCEPT ![cur] = AfterError(net[cur])] /\ UNCHANGED sm
    BY <1>6 DEF RecvNothing
  <2>2. AfterError(net[cur]).tcp = "SYN_SENT" => AfterError(net[cur]) = net[cur]
    BY Typed DEF AfterError, Socket
  <2> QED BY <2>1, <2>2, Typed DEF Connecting
<1>7. CASE SendOne \/ SendBurst \/ SendFast
  <2>1. PICK k, from, n : After(k, Sent(net[cur], from, n).peer)
    BY <1>7 DEF SendOne, SendBurst, SendFast, Aftermath, After
  <2> QED BY <2>1, AfterConnecting
<1> QED BY <1>1, <1>2, <1>3, <1>4, <1>5, <1>6, <1>7
    DEF Program, Poll, PollTimeout, PollFails, SkipFinished, CheckError, ErrorClose,
        conn_mgnt_close_handler, Receive, NothingExpected, RecvEof, Respond, DispatchPollData,
        DispatchEnd, DispatchPeerCloses, DispatchFinished, DispatchKeep, DispatchAbort,
        Send, SendNothing, StartBurst

-----------------------------------------------------------------------------
(* Theorems. *)

\* The counters stay in their C types for good: no subtraction of
\* conn_mgnt_run_non_blocking wraps, leftover stays below a request.
THEOREM TypeCorrect == Spec => []TypeOK
<1>1. IInv => TypeOK
  BY DEF IInv
<1> QED BY <1>1, Invariant, PTL

\* Received and unfinished requests add up to the share of each connection,
\* however many connections, requests, losses and kinds of answers there are.
THEOREM RequestsAccounted == Spec => []Accounting
<1>1. IInv => Accounting
  BY DEF IInv
<1> QED BY <1>1, Invariant, PTL

\* The parser never finishes more responses than were unanswered, and its
\* unsigned bound never wraps.
THEOREM BoundNeverWraps == Spec => []NeverNegative
<1>1. IInv => NeverNegative
  BY DEF IInv
<1> QED BY <1>1, Invariant, PTL

\* A connection with nothing unanswered has a clean parser.
THEOREM IdleConnectionsAreClean == Spec => []IdleIsClean
<1>1. IInv => IdleIsClean
  BY DEF IInv
<1> QED BY <1>1, Invariant, PTL

\* The fast mode never reads past packed_req, for any burst, any request size
\* and any width of leftover.
THEOREM PackedReadsInBounds == Spec => []PackedReadInBounds
<1>1. ASSUME IInv PROVE PackedReadInBounds
  <2> DEFINE k == sock[cur]
  <2>1. /\ k \in Counters /\ Fits(cur, k) /\ NUM_GAP \in Nat /\ ReqSize \in Nat
        /\ k.sent_req \in Nat
    BY <1>1, Typed, PeerAssumption, ConnMgntAssumption DEF Counters
  <2> DEFINE w == Workload(k)
  <2>2. /\ w \in Nat /\ (w # 0 => k.sent_req + w <= k.num_gap) /\ k.num_gap <= NUM_GAP
        /\ k.num_gap \in Nat
    BY <2>1, WorkloadType DEF Fits, Counters
  <2>3. k.leftover + WorkloadBytes(k) = ReqSize * w
    BY <2>1, WorkloadBytesType DEF Fits
  <2>4. w <= NUM_GAP
    <3> HIDE DEF w, k
    <3> QED BY <2>1, <2>2
  <2>5. ReqSize * w <= ReqSize * NUM_GAP
    <3> HIDE DEF w, k
    <3> QED BY <2>1, <2>2, <2>4
  <2> QED BY <2>3, <2>5 DEF PackedReadInBounds, Me
<1> QED BY <1>1, Invariant, PTL

\* No byte of an old connection is parsed as part of a new one's stream.
THEOREM StreamsNeverMix == Spec => []NoStreamMixing
<1>1. IInv /\ Connecting /\ [Next]_vars => Connecting'
  <2>1. ASSUME IInv, Connecting, Finished \/ UNCHANGED vars PROVE Connecting'
    BY <2>1 DEF Finished, vars, progVars, Connecting
  <2> QED BY <2>1, PeerConnecting, ProgramConnecting DEF Next
<1>2. Connecting => NoStreamMixing
  BY DEF Connecting, NoStreamMixing, CleanParser
<1> QED BY <1>1, <1>2, ConnectingInit, Invariant, PTL DEF Spec

\* The burst of a connection shrinks by single steps, each with a socket given
\* up whose unanswered requests are issued again.
THEOREM BurstShrinksOnLoss == Spec => ShrinkOnLoss
<1>1. ASSUME IInv, [Next]_vars
      PROVE  \A c \in Conns :
               sock'[c].num_gap # sock[c].num_gap =>
                 /\ sock'[c].num_gap = Decreased(sock[c].num_gap)
                 /\ sock'[c].retry_conn_num = sock[c].retry_conn_num + 1
                 /\ sock'[c].sent_req = 0
  <2>1. CASE UNCHANGED sock
    BY <2>1
  <2>2. CASE CurrentMoves
    <3>1. PICK k \in Counters : sock' = [sock EXCEPT ![cur] = k] /\ Moves(sock[cur], k)
      BY <2>2 DEF CurrentMoves
    <3>2. GapKept(sock[cur], k)
      BY <3>1 DEF Moves, Settles, Issues, GapKept
    <3> QED BY <1>1, <3>1, <3>2, Typed DEF GapKept
  <2> QED BY <1>1, <2>1, <2>2, StepMoves
<1>2. IInv /\ [Next]_vars =>
        [\A c \in Conns :
           sock'[c].num_gap # sock[c].num_gap =>
             /\ sock'[c].num_gap = Decreased(sock[c].num_gap)
             /\ sock'[c].retry_conn_num = sock[c].retry_conn_num + 1
             /\ sock'[c].sent_req = 0]_vars
  BY <1>1
<1> QED BY <1>2, Invariant, PTL DEF Spec, ShrinkOnLoss

\* The event loop implements LoadGen: a connection has never more requests
\* unanswered than unfinished, an answer settles one of them, the unanswered
\* ones are only given up together, and nothing happens once the run is over.
THEOREM ImplementsLoadGen == Spec => RefinesLoadGen
<1>1. Init => LG!Init
  BY DEF Init, LG!Init
<1>2. ASSUME IInv, [Next]_vars PROVE [LG!Next]_LG!lgVars
  <2>1. CASE UNCHANGED <<sock, pc>>
    BY <2>1 DEF LG!lgVars
  <2>2. CASE pc # "end" /\ CurrentMoves
    <3> PICK me \in Conns : me = cur
      BY <1>2, Typed
    <3> DEFINE todo == [c \in Conns |-> sock[c].unsent_req]
               issued == [c \in Conns |-> sock[c].sent_req]
               old == sock[cur]
    <3>1. PICK k \in Counters : sock' = [sock EXCEPT ![cur] = k] /\ Moves(old, k)
      BY <2>2 DEF CurrentMoves
    <3>2. /\ todo' = [todo EXCEPT ![me] = k.unsent_req]
          /\ issued' = [issued EXCEPT ![me] = k.sent_req]
      BY <1>2, <3>1, Typed
    <3>3. /\ todo[me] = old.unsent_req /\ issued[me] = old.sent_req
          /\ old.sent_req \in Nat /\ old.unsent_req \in Nat
          /\ k.sent_req \in Nat /\ k.unsent_req \in Nat
          /\ todo = [todo EXCEPT ![me] = todo[me]]
      BY <1>2, Typed DEF Counters
    <3>4. (pc' = "end") \in BOOLEAN
      OBVIOUS
    <3>5. CASE Settles(old, k)
      <4>1. PICK n \in 0..old.sent_req : /\ k.unsent_req = old.unsent_req - n
                                         /\ k.sent_req \in {old.sent_req - n, 0}
        BY <3>5 DEF Settles
      <4>2. /\ n \in 0..issued[me]
            /\ todo' = [todo EXCEPT ![me] = @ - n]
            /\ \/ issued' = [issued EXCEPT ![me] = @ - n]
               \/ issued' = [issued EXCEPT ![me] = 0]
        BY <3>2, <3>3, <4>1
      <4>3. LG!Settle(me)
        BY <3>4, <4>2 DEF LG!Settle
      <4> QED BY <2>2, <4>3, Zenon DEF LG!Next
    <3>6. CASE Issues(old, k)
      <4> DEFINE n == k.sent_req - old.sent_req
      <4>1. /\ n \in 1..(todo[me] - issued[me]) /\ k.sent_req = issued[me] + n
            /\ k.unsent_req = todo[me]
        BY <3>3, <3>6 DEF Issues
      <4> HIDE DEF n
      <4>2. issued' = [issued EXCEPT ![me] = @ + n] /\ todo' = todo
        BY <3>2, <3>3, <4>1
      <4>3. LG!Issue(me)
        BY <3>4, <4>1, <4>2 DEF LG!Issue
      <4> QED BY <2>2, <4>3, Zenon DEF LG!Next
    <3> QED BY <3>1, <3>5, <3>6 DEF Moves
  <2> QED BY <1>2, <2>1, <2>2, StepMoves
<1> QED BY <1>1, <1>2, Invariant, PTL DEF Spec, LG!Spec, RefinesLoadGen
=============================================================================
