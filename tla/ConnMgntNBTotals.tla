-------------------------- MODULE ConnMgntNBTotals --------------------------
(***************************************************************************)
(* Proofs about what the event loop of ConnMgntNB adds up over its         *)
(* connections and its sockets' lives: answers, requests in flight, the    *)
(* units of a stream, and retries.                                         *)
(***************************************************************************)
EXTENDS ConnMgntNBProofs

-----------------------------------------------------------------------------
(* Answers received on all connections. *)

Shares  == [c \in Conns |-> Share(c)]
Answers == [c \in Conns |-> sock[c].rcvd_res]

\* The total is exact; and it is reached only where the loop ends: whatever
\* stops the parser but a finished response leaves a request unanswered.
TotalKept ==
  /\ all_fin = Tally(Conns, Answers)
  /\ pc # "end" => all_fin < TOTAL_REQ
  /\ pc = "dispatch" /\ call.rcode \notin {"FIN", "CLOSE"} => call.fin_resp < sock[cur].sent_req

LEMMA SharesSum == Shares \in [Conns -> Nat] /\ Tally(Conns, Shares) = TOTAL_REQ
BY ConnMgntAssumption, DealtSum DEF Shares, Share, Dealt

\* The sum over any counters s that fit.
LEMMA AnswersBound ==
  ASSUME NEW s \in [Conns -> Counters], \A c \in Conns : Fits(c, s[c]),
         NEW g, g = [c \in Conns |-> s[c].rcvd_res]
  PROVE  /\ g \in [Conns -> Nat] /\ Tally(Conns, g) \in Nat /\ Tally(Conns, g) <= TOTAL_REQ
         /\ (\E c \in Conns : s[c].unsent_req # 0) => Tally(Conns, g) < TOTAL_REQ
<1>1. ASSUME NEW c \in Conns
      PROVE  /\ s[c].rcvd_res \in Nat /\ s[c].unsent_req \in Nat /\ Share(c) \in Nat
             /\ s[c].rcvd_res + s[c].unsent_req = Share(c)
  <2>1. s[c] \in Counters /\ Fits(c, s[c])
    OBVIOUS
  <2> QED BY <2>1, ShareType DEF Counters, Fits
<1>2. g \in [Conns -> Nat] /\ \A c \in Conns : g[c] <= Shares[c]
  BY <1>1 DEF Shares
<1>3. TOTAL_REQ \in Nat
  BY ConnMgntAssumption
<1>4. /\ Tally(Conns, g) \in Nat /\ Tally(Conns, g) <= TOTAL_REQ
      /\ Tally(Conns, g) = TOTAL_REQ => \A c \in Conns : g[c] = Shares[c]
  BY <1>2, ConnsFinite, SharesSum, TallyOrder, TallyType
<1>5. ASSUME NEW c \in Conns, s[c].unsent_req # 0 PROVE g[c] # Shares[c]
  BY <1>1, <1>5 DEF Shares
<1> QED BY <1>2, <1>3, <1>4, <1>5

SameAnswers == all_fin' = all_fin /\ \A c \in Conns : sock'[c].rcvd_res = sock[c].rcvd_res

LEMMA AfterKeepsAnswers ==
  ASSUME IInv, NEW k \in Counters, k.rcvd_res = sock[cur].rcvd_res, NEW peer, After(k, peer)
  PROVE  \A c \in Conns : sock'[c].rcvd_res = sock[c].rcvd_res
<1>1. Closed(k).rcvd_res = sock[cur].rcvd_res
  BY ClosedType
<1>2. \/ sock' = [sock EXCEPT ![cur] = Closed(k)]
      \/ sock' = [sock EXCEPT ![cur] = k]
  BY DEF After
<1> QED BY <1>1, <1>2, Typed

LEMMA SendKeepsAnswers == ASSUME IInv, Send PROVE SameAnswers
<1> DEFINE old == sock[cur]
<1>1. old \in Counters /\ Fits(cur, old) /\ all_fin' = all_fin
  BY Typed DEF Send, SendNothing, SendOne, StartBurst, SendBurst, SendFast, Aftermath
<1>2. CASE SendNothing \/ StartBurst
  BY <1>2 DEF SendNothing, StartBurst, SameAnswers
<1>3. CASE SendOne
  <2> DEFINE try == Sent(net[cur], 0, ReqSize)
             k == IF try.ret = "OK" THEN OneMore(old) ELSE old
  <2>1. After(k, try.peer)
    BY <1>3 DEF SendOne, Aftermath, After, Me, OneMore
  <2>2. k \in Counters /\ k.rcvd_res = old.rcvd_res
    BY <1>1, OneMoreType
  <2> HIDE DEF try, k
  <2> QED BY <1>1, <2>1, <2>2, AfterKeepsAnswers DEF SameAnswers
<1>4. CASE SendBurst
  <2> DEFINE try == Sent(net[cur], 0, ReqSize)
             k == OneMore(old)
  <2>1. After(k, try.peer)
    BY <1>4 DEF SendBurst, Aftermath, After, Me, OneMore
  <2>2. k \in Counters /\ k.rcvd_res = old.rcvd_res
    BY <1>1, OneMoreType
  <2> HIDE DEF try, k
  <2> QED BY <1>1, <2>1, <2>2, AfterKeepsAnswers DEF SameAnswers
<1>5. CASE SendFast
  <2> DEFINE try == Sent(net[cur], sock[cur].leftover, WorkloadBytes(sock[cur]))
             k == FastOutcome(try)
  <2>1. ENABLE_PIPE /\ G_FAST /\ Aftermath(try, k, GoNext)
    BY <1>5 DEF SendFast, Me, FastOutcome, Counted
  <2>2. k \in Counters /\ Fits(cur, k) /\ k.unsent_req = old.unsent_req
    BY <2>1, FastOutcomeType
  <2> HIDE DEF try, k
  <2>3. After(k, try.peer)
    BY <2>1 DEF Aftermath, After
  <2>4. k.rcvd_res = old.rcvd_res
    <3>1. /\ k.rcvd_res \in Nat /\ old.rcvd_res \in Nat
          /\ k.unsent_req \in Nat /\ old.unsent_req \in Nat
          /\ k.rcvd_res + k.unsent_req = Share(cur) /\ old.rcvd_res + old.unsent_req = Share(cur)
      BY <1>1, <2>2 DEF Counters, Fits
    <3> QED BY <2>2, <3>1
  <2> QED BY <1>1, <2>2, <2>3, <2>4, AfterKeepsAnswers DEF SameAnswers
<1> QED BY <1>2, <1>3, <1>4, <1>5 DEF Send

LEMMA OthersKeepAnswers ==
  ASSUME IInv, Poll \/ PollTimeout \/ PollFails \/ SkipFinished \/ CheckError \/ ErrorClose
               \/ Receive \/ Peer \/ Finished \/ UNCHANGED vars
  PROVE  SameAnswers
<1>1. CASE UNCHANGED <<all_fin, sock>>
  BY <1>1 DEF SameAnswers
<1>2. CASE ErrorClose
  <2>1. all_fin' = all_fin /\ sock' = [sock EXCEPT ![cur] = Closed(sock[cur])]
    BY <1>2 DEF ErrorClose, conn_mgnt_close_handler
  <2>2. Closed(sock[cur]).rcvd_res = sock[cur].rcvd_res
    BY Typed, ClosedType
  <2> QED BY <2>1, <2>2, Typed DEF SameAnswers
<1> QED BY <1>1, <1>2 DEF Poll, PollTimeout, PollFails, SkipFinished, CheckError, Receive,
           ParseToken, ParseFinish, NothingExpected, Recv, RecvEof, RecvNothing,
           Peer, FromPeer, Finished, vars, progVars, loopVars

\* The counters a branch of the switch leaves, p being those credited with the
\* responses of the call.
LEMMA SwitchForms ==
  ASSUME Respond
  PROVE  /\ pc = "dispatch" /\ all_fin' = all_fin + call.fin_resp
         /\ \/ sock' = [sock EXCEPT ![cur] = Paid]
            \/ sock' = [sock EXCEPT ![cur] = Zeroed(Paid)]
            \/ sock' = [sock EXCEPT ![cur] = Resized(Paid)]
            \/ sock' = [sock EXCEPT ![cur] = [Resized(Paid) EXCEPT !.leftover = 0]]
            \/ sock' = [sock EXCEPT ![cur] = Closed(Paid)]
BY DEF Respond, Dispatch, DispatchPollData, DispatchEnd, DispatchPeerCloses, DispatchFinished,
       DispatchKeep, DispatchAbort, Zeroed

LEMMA RespondCredits ==
  ASSUME IInv, Respond
  PROVE  /\ sock'[cur].rcvd_res = sock[cur].rcvd_res + call.fin_resp
         /\ \A c \in Conns \ {cur} : sock'[c] = sock[c]
<1> DEFINE p == Paid
           r == Resized(p)
           l == [r EXCEPT !.leftover = 0]
<1>1. /\ sock[cur] \in Counters /\ Fits(cur, sock[cur]) /\ cur \in Conns
      /\ call.fin_resp \in Nat /\ call.fin_resp <= sock[cur].sent_req
  BY SwitchForms, Typed DEF IInv, NeverNegative, ParserCall
<1>2. p \in Counters /\ p.rcvd_res = sock[cur].rcvd_res + call.fin_resp
  BY <1>1, CreditedType DEF Paid, Me, Fits
<1>3. \/ sock' = [sock EXCEPT ![cur] = p] \/ sock' = [sock EXCEPT ![cur] = Zeroed(p)]
      \/ sock' = [sock EXCEPT ![cur] = r] \/ sock' = [sock EXCEPT ![cur] = l]
      \/ sock' = [sock EXCEPT ![cur] = Closed(p)]
  BY SwitchForms
<1> HIDE DEF p
<1>4. Zeroed(p).rcvd_res = p.rcvd_res /\ Closed(p).rcvd_res = p.rcvd_res
  BY <1>2, ClosedType DEF Zeroed, Counters
<1>5. r \in Counters /\ r.rcvd_res = p.rcvd_res
  BY <1>2, ResizedType
<1> HIDE DEF r
<1>6. l.rcvd_res = p.rcvd_res
  BY <1>5 DEF Counters
<1> HIDE DEF l
<1> QED BY <1>1, <1>2, <1>3, <1>4, <1>5, <1>6, Typed

LEMMA TotalStep ==
  ASSUME IInv, IInv', [Next]_vars, all_fin = Tally(Conns, Answers)
  PROVE  /\ all_fin' = Tally(Conns, Answers)' /\ all_fin' <= TOTAL_REQ
         /\ (\E c \in Conns : sock'[c].unsent_req # 0) => all_fin' < TOTAL_REQ
<1> DEFINE f == Answers
           g == Answers'
<1>1. /\ sock \in [Conns -> Counters] /\ \A c \in Conns : Fits(c, sock[c])
      /\ sock' \in [Conns -> Counters] /\ \A c \in Conns : Fits(c, sock'[c])
      /\ cur \in Conns /\ all_fin \in Nat /\ call.fin_resp \in Nat
  BY AllFit, Typed DEF IInv, TypeOK, Accounting, LeftoverHasRoom, GapOnlyShrinks, Fits, Share, ParserCall
<1>2. f = [c \in Conns |-> sock[c].rcvd_res] /\ g = [c \in Conns |-> sock'[c].rcvd_res]
  BY DEF Answers
<1>3. Tally(Conns, Answers)' = Tally(Conns, g) /\ Tally(Conns, Answers) = Tally(Conns, f)
  OBVIOUS
<1> HIDE DEF f, g
<1>4. f \in [Conns -> Nat] /\ Tally(Conns, f) \in Nat
  BY <1>1, <1>2, AnswersBound
<1>5. /\ g \in [Conns -> Nat] /\ Tally(Conns, g) \in Nat /\ Tally(Conns, g) <= TOTAL_REQ
      /\ (\E c \in Conns : sock'[c].unsent_req # 0) => Tally(Conns, g) < TOTAL_REQ
  BY <1>1, <1>2, AnswersBound
<1>6. CASE SameAnswers
  <2>1. f = g /\ all_fin' = all_fin
    BY <1>2, <1>6 DEF SameAnswers
  <2> QED BY <1>3, <1>5, <2>1
<1>7. CASE Respond
  <2>1. all_fin' = all_fin + call.fin_resp
    BY <1>7, SwitchForms
  <2>2. PICK i \in Conns : i = cur
    BY <1>1
  <2>3. g[i] = f[i] + call.fin_resp /\ \A c \in Conns \ {i} : g[c] = f[c]
    BY <1>2, <1>7, <2>2, RespondCredits
  <2>4. Tally(Conns, g) = Tally(Conns, f) + g[i] - f[i]
    BY <1>4, <1>5, <2>3, ConnsFinite, TallyChange
  <2>5. f[i] \in Nat
    BY <1>4
  <2>6. Tally(Conns, g) = Tally(Conns, f) + call.fin_resp
    BY <1>1, <1>4, <2>3, <2>4, <2>5
  <2> QED BY <1>3, <1>5, <2>1, <2>6
<1> QED BY <1>6, <1>7, SendKeepsAnswers, OthersKeepAnswers DEF Next, Program

\* Only a finished response stops the parser with nothing left to expect.
LEMMA CallLeavesOne ==
  ASSUME IInv, IInv', [Next]_vars, TotalKept,
         pc' = "dispatch", call'.rcode \notin {"FIN", "CLOSE"}
  PROVE  call'.fin_resp < sock'[cur'].sent_req
<1>1. /\ cur \in Conns /\ call.fin_resp \in Nat /\ call.num_reqs \in Nat
      /\ sock[cur].sent_req \in Nat /\ call \in ParserCall
  BY Typed, ConnMgntAssumption DEF ParserCall, Counters
<1>2. CASE ParseToken
  <2>1. PICK o : /\ pc = "parse" /\ sm[cur].buf # <<>> /\ UNCHANGED <<cur, sock>>
                 /\ ParserReturns(o)
    <3>1. PICK o \in Parse(sm[cur], Head(sm[cur].buf)) :
            IF o.res = "MORE" THEN UNCHANGED <<pc, call>>
            ELSE ParserReturns(IF o.res = "NOT_SUPPORT" THEN "ERROR" ELSE o.res)
      BY <1>2 DEF ParseToken
    <3> QED BY <1>2, <3>1 DEF ParseToken
  <2>2. call.num_reqs # 0
    BY <2>1 DEF IInv, CallIsBound, CleanParser
  <2>3. call.num_reqs + call.fin_resp = sock[cur].sent_req
    BY <2>1 DEF IInv, NeverNegative
  <2>4. call'.fin_resp = call.fin_resp
    BY <1>1, <2>1 DEF ParserReturns, ParserCall
  <2> QED BY <1>1, <2>1, <2>2, <2>3, <2>4
<1>3. CASE RecvNothing
  BY <1>3, Typed DEF RecvNothing, ParserReturns, IInv, CallIsBound, ParserCall
<1>4. CASE NothingExpected \/ RecvEof
  BY <1>4, <1>1 DEF NothingExpected, RecvEof, ParserReturns, ParserCall
<1>5. CASE ParseFinish
  BY <1>5 DEF ParseFinish
<1>6. CASE UNCHANGED <<pc, call, cur, sock>>
  BY <1>6 DEF TotalKept
<1>7. CASE Recv
  BY <1>7 DEF Recv, loopVars
<1> QED BY <1>2, <1>3, <1>4, <1>5, <1>6, <1>7 DEF Next, Program, Receive, Respond, Send,
     Poll, PollTimeout, PollFails, SkipFinished, CheckError, ErrorClose, GoReceive, Goto, GoNext,
     Dispatch, DispatchPollData, DispatchEnd, DispatchPeerCloses, DispatchFinished, DispatchKeep,
     DispatchAbort, SendNothing, SendOne, StartBurst, SendBurst, SendFast, Aftermath,
     Peer, FromPeer, Finished, vars, progVars, loopVars

LEMMA TotalNext == ASSUME IInv, IInv', [Next]_vars, TotalKept PROVE TotalKept'
<1>1. /\ all_fin' = Tally(Conns, Answers)' /\ all_fin' <= TOTAL_REQ
      /\ (\E c \in Conns : sock'[c].unsent_req # 0) => all_fin' < TOTAL_REQ
  BY TotalStep DEF TotalKept
<1>2. pc' = "dispatch" /\ call'.rcode \notin {"FIN", "CLOSE"}
      => call'.fin_resp < sock'[cur'].sent_req
  BY CallLeavesOne
<1>3. all_fin' \in Nat /\ TOTAL_REQ \in Nat /\ all_fin \in Nat
  BY ConnMgntAssumption DEF IInv, TypeOK
<1>4. pc' # "end" => all_fin' < TOTAL_REQ
  <2> SUFFICES ASSUME pc' # "end" PROVE all_fin' < TOTAL_REQ
    OBVIOUS
  <2>1. CASE Respond /\ call.rcode \in {"FIN", "CLOSE"}
    <3>1. ~AllDone
      BY <2>1 DEF Respond, Dispatch, DispatchPollData, DispatchEnd, DispatchPeerCloses,
         DispatchFinished, DispatchKeep, DispatchAbort, Goto
    <3>2. all_fin' # TOTAL_REQ
      BY <2>1, <3>1 DEF AllDone
    <3> QED BY <1>1, <1>3, <3>2
  <2>2. CASE Respond /\ call.rcode \notin {"FIN", "CLOSE"}
    <3> DEFINE p == Paid
               old == sock[cur]
    <3>1. call.fin_resp < old.sent_req /\ pc = "dispatch"
      BY <2>2, SwitchForms DEF TotalKept
    <3>2. /\ old \in Counters /\ Fits(cur, old) /\ cur \in Conns
          /\ call.fin_resp \in Nat /\ old.unsent_req \in Nat /\ old.sent_req \in Nat
      BY Typed DEF ParserCall, Counters
    <3>3. sock'[cur].rcvd_res = old.rcvd_res + call.fin_resp
      BY <2>2, RespondCredits
    <3>4. sock'[cur].unsent_req # 0
      <4>1. sock'[cur].rcvd_res + sock'[cur].unsent_req = Share(cur)
        BY <3>2 DEF IInv, Accounting, Share
      <4>2. sock'[cur] \in Counters
        BY <3>2 DEF IInv, TypeOK
      <4>3. sock'[cur].unsent_req \in Nat
        BY <4>2 DEF Counters
      <4>4. old.rcvd_res + old.unsent_req = Share(cur) /\ old.sent_req <= old.unsent_req
            /\ old.rcvd_res \in Nat
        BY <3>2 DEF Fits, Counters
      <4> QED BY <3>1, <3>2, <3>3, <4>1, <4>3, <4>4
    <3> QED BY <1>1, <3>2, <3>4
  <2>3. CASE SameAnswers /\ pc # "end"
    BY <2>3 DEF SameAnswers, TotalKept
  <2>4. CASE pc = "end"
    BY <2>4, StepMoves
  <2> QED BY <2>1, <2>2, <2>3, <2>4, SendKeepsAnswers, OthersKeepAnswers DEF Next, Program
<1> QED BY <1>1, <1>2, <1>4 DEF TotalKept

LEMMA TotalInit == Init => TotalKept
<1> SUFFICES ASSUME Init PROVE TotalKept
  OBVIOUS
<1>1. TOTAL_REQ \in Nat /\ TOTAL_REQ >= NConn /\ NConn \in Nat \ {0}
  BY ConnMgntAssumption, PeerAssumption
<1>2. Answers \in [Conns -> Nat] /\ \A c \in Conns : Answers[c] = 0
  BY DEF Init, Answers
<1>3. Tally(Conns, Answers) = 0
  BY <1>2, ConnsFinite, TallyZero
<1> QED BY <1>1, <1>3 DEF Init, TotalKept

LEMMA TotalInvariant == Spec => []TotalKept
<1>1. IInv /\ IInv' /\ TotalKept /\ [Next]_vars => TotalKept'
  BY TotalNext
<1> QED BY <1>1, TotalInit, Invariant, PTL DEF Spec

-----------------------------------------------------------------------------
(* What can end the loop before the total is reached. *)

\* While every fault is still to come, no connection has been refused, and no
\* answer is on its way that ends the run.
Ending == {"redirect", "err5"}
Mild   == Tokens \ Ending

Quiet(s) == s.err # "REFUSED" /\ s.rx \in Seq(Mild)

Untroubled ==
  faults = MaxFaults =>
    /\ \A c \in Conns : Quiet(net[c]) /\ sm[c].buf \in Seq(Mild)
    /\ pc = "dispatch" => call.rcode \notin {"REDIRECT", "SERVER_ERR"}

LEMMA QuietStep ==
  ASSUME PeerTypeOK, NEW d \in Conns, PeerStep(d), faults' = faults, Quiet(net[d])
  PROVE  \E t : net' = [net EXCEPT ![d] = t] /\ Quiet(t)
<1> DEFINE s == net[d]
<1>1. s \in Socket /\ faults \in Nat /\ s.rx \in Seq(Mild) /\ s.err # "REFUSED" /\ ~Fault
  BY PeerAssumption DEF PeerTypeOK, Quiet, Fault
<1>2. ASSUME NEW x \in Socket, x.rx \in Seq(Mild), NEW state, NEW why, why # "REFUSED"
      PROVE  Quiet(Gone(x, state, why))
  BY <1>2 DEF Gone, Quiet, Socket
<1>3. ASSUME NEW k \in {"ok", "empty", "close4"} PROVE s.rx \o Message(k) \in Seq(Mild)
  <2>1. k \in Mild /\ "body" \in Mild
    BY DEF Mild, Tokens, HeadKinds, Ending
  <2>2. <<k>> \in Seq(Mild) /\ <<k, "body">> \in Seq(Mild)
    BY <2>1
  <2> QED BY <1>1, <2>2 DEF Message
<1>4. CASE Establish(d)
  <2> DEFINE t == [s EXCEPT !.tcp = "ESTABLISHED"]
  <2>1. net' = [net EXCEPT ![d] = t] /\ Quiet(t)
    BY <1>1, <1>4 DEF Establish, Quiet, Socket
  <2> QED BY <2>1
<1>5. CASE ServerRead(d)
  <2>1. net' = [net EXCEPT ![d] = ReadUnit(s)] /\ s.wire # <<>>
    BY <1>5 DEF ServerRead
  <2>2. ReadUnit(s).rx = s.rx /\ ReadUnit(s).err = s.err
    BY <1>1, <2>1, ReadUnitToCome
  <2> QED BY <1>1, <2>1, <2>2 DEF Quiet
<1>6. CASE AnswerBad(d)
  <2> DEFINE r == s.rx \o Message("close4")
             x == [s EXCEPT !.rx = r]
  <2>1. net' = [net EXCEPT ![d] = Gone(x, "CLOSE_WAIT", "NONE")]
    BY <1>6 DEF AnswerBad, Rejected
  <2>2. r \in Seq(Mild) /\ r \in Seq(Tokens)
    <3>1. r \in Seq(Mild)
      BY <1>3
    <3> HIDE DEF r
    <3> QED BY <3>1 DEF Mild
  <2> HIDE DEF r
  <2>3. x \in Socket /\ x.rx = r
    BY <1>1, <2>2 DEF Socket
  <2> HIDE DEF x
  <2>4. Quiet(Gone(x, "CLOSE_WAIT", "NONE"))
    BY <1>2, <2>2, <2>3
  <2> QED BY <2>1, <2>4
<1>7. CASE Rst(d)
  <2>1. net' = [net EXCEPT ![d] = Gone(s, "CLOSE", "PIPE")]
    BY <1>1, <1>7 DEF Rst
  <2>2. Quiet(Gone(s, "CLOSE", "PIPE"))
    BY <1>1, <1>2
  <2> QED BY <2>1, <2>2
<1>8. CASE \E k \in Kinds : Answer(d, k)
  <2> PICK k \in Kinds : Answer(d, k)
    BY <1>8
  <2>1. k \in {"ok", "empty"}
    BY <1>1 DEF Answer, Friendly
  <2> DEFINE r == s.rx \o Message(k)
             v == s.srv - 1
             t == [s EXCEPT !.rx = r, !.srv = v]
  <2>2. net' = [net EXCEPT ![d] = t]
    BY <2>1 DEF Answer, Closing
  <2>3. r \in Seq(Mild)
    BY <1>3, <2>1
  <2> HIDE DEF r, v
  <2>4. t.rx = r /\ t.err = s.err
    BY <1>1 DEF Socket
  <2> QED BY <1>1, <2>2, <2>3, <2>4 DEF Quiet
<1>9. ~Refuse(d) /\ ~Fin(d)
  BY <1>1 DEF Refuse, Fin
<1> QED BY <1>4, <1>5, <1>6, <1>7, <1>8, <1>9 DEF PeerStep

LEMMA MildParse ==
  ASSUME NEW m, NEW t \in Mild, NEW o \in Parse(m, t)
  PROVE  o.res \notin {"REDIRECT", "SERVER_ERR"}
<1>1. t \notin {"redirect", "err5"}
  BY DEF Mild, Ending
<1> QED BY <1>1 DEF Parse, Outcome

\* What the loop does to its current socket, and to the received bytes.
LEMMA QuietLoop ==
  ASSUME IInv, Quiet(net[cur]), sm[cur].buf \in Seq(Mild), Program \/ PollFails
  PROVE  /\ UNCHANGED net \/ \E t : net' = [net EXCEPT ![cur] = t] /\ Quiet(t)
         /\ UNCHANGED sm \/ \E m : sm' = [sm EXCEPT ![cur] = m] /\ m.buf \in Seq(Mild)
<1>1. /\ net[cur] \in Socket /\ cur \in Conns /\ net[cur].rx \in Seq(Mild)
      /\ net[cur].err # "REFUSED" /\ sm[cur] \in Parser /\ sm \in [Conns -> Parser]
  BY Typed DEF Quiet
<1>2. Quiet(NewSocket) /\ CleanParser.buf \in Seq(Mild)
  BY DEF Quiet, NewSocket, CleanParser
<1>3. net' = [net EXCEPT ![cur] = NewSocket]
      => \E t : net' = [net EXCEPT ![cur] = t] /\ Quiet(t)
  BY <1>2
<1>4. sm' = [sm EXCEPT ![cur] = ResetParser(@)]
      => \E m : sm' = [sm EXCEPT ![cur] = m] /\ m.buf \in Seq(Mild)
  BY <1>2 DEF ResetParser
<1>5. CASE Recv
  <2> PICK n \in 1..Len(net[cur].rx) :
        /\ sm'  = [sm EXCEPT ![cur].buf = SubSeq(net[cur].rx, 1, n)]
        /\ net' = [net EXCEPT ![cur].rx = SubSeq(@, n + 1, Len(@))]
    BY <1>5 DEF Recv
  <2> DEFINE b == SubSeq(net[cur].rx, 1, n)
             r == SubSeq(net[cur].rx, n + 1, Len(net[cur].rx))
             m == [sm[cur] EXCEPT !.buf = b]
             t == [net[cur] EXCEPT !.rx = r]
  <2>1. sm' = [sm EXCEPT ![cur] = m] /\ net' = [net EXCEPT ![cur] = t]
    OBVIOUS
  <2>2. b \in Seq(Mild) /\ r \in Seq(Mild)
    BY <1>1, SubSeqType
  <2> HIDE DEF b, r
  <2>3. m.buf = b /\ t.rx = r /\ t.err = net[cur].err
    BY <1>1 DEF Parser, Socket
  <2> HIDE DEF m, t
  <2> QED BY <1>1, <2>1, <2>2, <2>3 DEF Quiet
<1>6. CASE ParseToken \/ ParseFinish
  <2>1. /\ sm[cur].buf # <<>> /\ UNCHANGED net
        /\ \E p, cl, st : \/ sm' = [sm EXCEPT ![cur] = [buf |-> Tail(@.buf), p_state |-> p,
                                                        is_close |-> cl, status |-> st]]
                          \/ sm' = [sm EXCEPT ![cur] = [CleanParser EXCEPT !.buf = Tail(sm[cur].buf)]]
    BY <1>1, <1>6 DEF ParseToken, ParseFinish
  <2>2. Tail(sm[cur].buf) \in Seq(Mild)
    BY <2>1, HeadTail
  <2>3. [CleanParser EXCEPT !.buf = Tail(sm[cur].buf)].buf = Tail(sm[cur].buf)
    BY DEF CleanParser
  <2> QED BY <1>1, <2>1, <2>2, <2>3
<1>7. CASE RecvNothing
  <2>1. net' = [net EXCEPT ![cur] = AfterError(net[cur])] /\ UNCHANGED sm
    BY <1>7 DEF RecvNothing
  <2>2. Quiet(AfterError(net[cur]))
    BY <1>1 DEF AfterError, Quiet, Socket
  <2> QED BY <2>1, <2>2
<1>8. CASE SendOne \/ SendBurst \/ SendFast
  <2>1. PICK k, from, n : After(k, Sent(net[cur], from, n).peer)
    BY <1>8 DEF SendOne, SendBurst, SendFast, Aftermath, After
  <2>2. Quiet(Sent(net[cur], from, n).peer)
    BY <1>1 DEF Sent, Quiet, Socket
  <2> QED BY <1>3, <1>4, <2>1, <2>2 DEF After
<1>9. CASE UNCHANGED <<sm, net>>
  BY <1>9
<1>10. CASE UNCHANGED net /\ sm' = [sm EXCEPT ![cur] = ResetParser(@)]
  BY <1>4, <1>10
<1>11. CASE net' = [net EXCEPT ![cur] = NewSocket] /\ sm' = [sm EXCEPT ![cur] = ResetParser(@)]
  BY <1>3, <1>4, <1>11
<1> QED BY <1>5, <1>6, <1>7, <1>8, <1>9, <1>10, <1>11
    DEF Program, Poll, PollTimeout, PollFails, SkipFinished, CheckError, ErrorClose,
        conn_mgnt_close_handler, Receive, NothingExpected, RecvEof, Respond, DispatchPollData,
        DispatchEnd, DispatchPeerCloses, DispatchFinished, DispatchKeep, DispatchAbort,
        Send, SendNothing, StartBurst

LEMMA ProgramKeepsFaults == ASSUME Program PROVE faults' = faults
BY DEF Program, Poll, PollTimeout, SkipFinished, CheckError, ErrorClose,
       Receive, ParseToken, ParseFinish, NothingExpected, Recv, RecvEof, RecvNothing,
       Respond, Dispatch, DispatchPollData, DispatchEnd, DispatchPeerCloses, DispatchFinished,
       DispatchKeep, DispatchAbort,
       Send, SendNothing, SendOne, StartBurst, SendBurst, SendFast, Aftermath

LEMMA FaultsFall == ASSUME IInv, [Next]_vars PROVE faults' = faults \/ faults' = faults - 1
<1>1. CASE Peer
  BY <1>1 DEF Peer, FromPeer, PeerStep, Establish, Refuse, ServerRead, AnswerBad, Fin, Rst, Answer,
     Fault
<1>2. CASE PollFails \/ Finished \/ UNCHANGED vars
  BY <1>2 DEF PollFails, Fault, Finished, vars
<1> QED BY <1>1, <1>2, ProgramKeepsFaults DEF Next

LEMMA UntroubledNext == ASSUME IInv, IInv', Untroubled, [Next]_vars PROVE Untroubled'
<1> SUFFICES ASSUME faults' = MaxFaults
             PROVE  /\ \A c \in Conns : Quiet(net'[c]) /\ sm'[c].buf \in Seq(Mild)
                    /\ pc' = "dispatch" => call'.rcode \notin {"REDIRECT", "SERVER_ERR"}
  BY DEF Untroubled, Quiet
<1>1. /\ faults' = faults /\ faults = MaxFaults
      /\ \A c \in Conns : Quiet(net[c]) /\ sm[c].buf \in Seq(Mild)
      /\ pc = "dispatch" => call.rcode \notin {"REDIRECT", "SERVER_ERR"}
  <2>1. faults \in Nat /\ MaxFaults \in Nat /\ faults <= MaxFaults
    BY PeerAssumption DEF IInv, TypeOK, PeerTypeOK
  <2>2. faults' = faults /\ faults = MaxFaults
    BY <2>1, FaultsFall
  <2> QED BY <2>2 DEF Untroubled
<1>2. /\ net \in [Conns -> Socket] /\ sm \in [Conns -> Parser] /\ cur \in Conns
      /\ call \in ParserCall
  BY Typed
<1>3. CASE Peer
  <2>1. PICK d \in Conns : PeerStep(d)
    BY <1>3 DEF Peer, FromPeer
  <2>2. PeerTypeOK
    BY DEF IInv, TypeOK
  <2>3. \E t : net' = [net EXCEPT ![d] = t] /\ Quiet(t)
    BY <1>1, <2>1, <2>2, QuietStep
  <2>4. UNCHANGED <<pc, call, sm>>
    BY <1>3 DEF Peer, FromPeer, progVars, loopVars
  <2> QED BY <1>1, <1>2, <2>3, <2>4
<1>4. CASE Program \/ PollFails
  <2>1. \A c \in Conns : Quiet(net'[c]) /\ sm'[c].buf \in Seq(Mild)
    <3>1. /\ UNCHANGED net \/ \E t : net' = [net EXCEPT ![cur] = t] /\ Quiet(t)
          /\ UNCHANGED sm \/ \E m : sm' = [sm EXCEPT ![cur] = m] /\ m.buf \in Seq(Mild)
      BY <1>1, <1>2, <1>4, QuietLoop
    <3> TAKE c \in Conns
    <3>2. Quiet(net'[c])
      BY <1>1, <1>2, <3>1
    <3>3. sm'[c].buf \in Seq(Mild)
      BY <1>1, <1>2, <3>1
    <3> QED BY <3>2, <3>3
  <2>2. ASSUME pc' = "dispatch" PROVE call'.rcode \notin {"REDIRECT", "SERVER_ERR"}
    <3>1. CASE ParseToken
      <4>1. PICK o \in Parse(sm[cur], Head(sm[cur].buf)) :
              IF o.res = "MORE" THEN UNCHANGED <<pc, call>>
              ELSE ParserReturns(IF o.res = "NOT_SUPPORT" THEN "ERROR" ELSE o.res)
        BY <3>1 DEF ParseToken
      <4>2. Head(sm[cur].buf) \in Mild /\ pc = "parse"
        BY <1>1, <1>2, <3>1, HeadTail DEF ParseToken
      <4>3. o.res \notin {"REDIRECT", "SERVER_ERR"}
        BY <4>1, <4>2, MildParse
      <4> QED BY <1>2, <2>2, <4>1, <4>2, <4>3 DEF ParserReturns, ParserCall
    <3>2. CASE NothingExpected \/ RecvEof \/ RecvNothing
      BY <1>2, <3>2 DEF NothingExpected, RecvEof, RecvNothing, ParserReturns, ParserCall
    <3>3. CASE ParseFinish
      <4>1. \E n, f : \E rc \in {"CLOSE", "FIN", "NONE"} :
              call' = [num_reqs |-> n, fin_resp |-> f, rcode |-> rc]
        BY <3>3 DEF ParseFinish
      <4> QED BY <4>1
    <3>4. CASE Recv
      BY <1>1, <2>2, <3>4 DEF Recv, loopVars
    <3> QED BY <1>4, <2>2, <3>1, <3>2, <3>3, <3>4 DEF Program, Poll, PollTimeout, PollFails,
         SkipFinished, CheckError, ErrorClose, GoReceive, Goto, GoNext, Receive, Respond, Dispatch,
         DispatchPollData, DispatchEnd, DispatchPeerCloses, DispatchFinished, DispatchKeep,
         DispatchAbort, Send, SendNothing, SendOne, StartBurst, SendBurst, SendFast, Aftermath
  <2> QED BY <2>1, <2>2
<1>5. CASE Finished \/ UNCHANGED vars
  BY <1>1, <1>5 DEF Finished, vars, progVars, loopVars
<1> QED BY <1>3, <1>4, <1>5 DEF Next

LEMMA UntroubledInit == Init => Untroubled
<1>1. Quiet(NewSocket) /\ CleanParser.buf \in Seq(Mild)
  BY DEF Quiet, NewSocket, CleanParser
<1> QED BY <1>1 DEF Init, PeerInit, Untroubled

LEMMA EarlyEndNext ==
  ASSUME IInv, Untroubled, NoEarlyEnd, [Next]_vars PROVE NoEarlyEnd'
<1> SUFFICES ASSUME pc' = "end"
             PROVE  all_fin' = TOTAL_REQ \/ faults' < MaxFaults \/ timeout' > POLL_MAX_TIMEOUT
  BY DEF NoEarlyEnd
<1>1. /\ faults \in Nat /\ MaxFaults \in Nat /\ faults <= MaxFaults
      /\ cur \in Conns /\ net[cur] \in Socket
  BY PeerAssumption, Typed
<1>2. CASE pc = "end"
  <2>1. UNCHANGED vars
    BY <1>2 DEF Next, Program, Receive, Respond, Send, Poll, PollTimeout, PollFails,
       SkipFinished, CheckError, ErrorClose, ParseToken, ParseFinish, NothingExpected, Recv,
       RecvEof, RecvNothing, Dispatch, DispatchPollData, DispatchEnd, DispatchPeerCloses,
       DispatchFinished, DispatchKeep, DispatchAbort, SendNothing, SendOne, StartBurst,
       SendBurst, SendFast, Peer, FromPeer, Finished
  <2> QED BY <1>2, <2>1 DEF NoEarlyEnd, vars, progVars, loopVars
<1>3. CASE PollTimeout
  BY <1>3 DEF PollTimeout
<1>4. CASE PollFails
  BY <1>1, <1>4 DEF PollFails, Fault
<1>5. CASE DispatchEnd
  <2>1. CASE AllDone
    BY <2>1 DEF AllDone
  <2>2. CASE call.rcode \in {"REDIRECT", "SERVER_ERR"}
    <3>1. pc = "dispatch" /\ faults' = faults
      BY <1>5 DEF DispatchEnd, Dispatch
    <3> QED BY <1>1, <2>2, <3>1 DEF Untroubled
  <2> QED BY <1>5, <2>1, <2>2 DEF DispatchEnd
<1>6. CASE Send
  <2>1. faults' = faults
    BY <1>6, ProgramKeepsFaults DEF Program
  <2>2. \E from, n : Sent(net[cur], from, n).ret = "REFUSED"
    <3>1. pc \in {"send", "burst"}
      BY <1>6 DEF Send, SendNothing, SendOne, StartBurst, SendBurst, SendFast
    <3> QED BY <1>6, <3>1 DEF Send, SendNothing, SendOne, StartBurst, SendBurst, SendFast,
            Aftermath, Goto, GoNext
  <2>3. net[cur].err = "REFUSED"
    BY <2>2 DEF Sent
  <2> QED BY <1>1, <2>1, <2>3 DEF Untroubled, Quiet
<1>7. CASE Peer \/ Finished \/ UNCHANGED vars
  BY <1>2, <1>7 DEF Peer, FromPeer, Finished, vars, progVars, loopVars
<1> QED BY <1>2, <1>3, <1>4, <1>5, <1>6, <1>7 DEF Next, Program, Poll, SkipFinished, CheckError,
     ErrorClose, GoReceive, Goto, GoNext, Receive, ParseToken, ParseFinish, NothingExpected, Recv,
     RecvEof, RecvNothing, ParserReturns, loopVars, Respond, Dispatch, DispatchPollData,
     DispatchPeerCloses, DispatchFinished, DispatchKeep, DispatchAbort

-----------------------------------------------------------------------------
(* The theorems about what ends the loop. *)

\* all_fin is the number of responses received on all connections, and never
\* passes the total asked for (conn_mgnt.c:72,138,149).
THEOREM AnswersAddUp == Spec => []AllFinExact
<1>1. IInv /\ TotalKept => AllFinExact
  <2> SUFFICES ASSUME IInv, TotalKept PROVE AllFinExact
    OBVIOUS
  <2>1. /\ sock \in [Conns -> Counters] /\ \A c \in Conns : Fits(c, sock[c])
    BY AllFit, Typed
  <2>2. Tally(Conns, [c \in Conns |-> sock[c].rcvd_res]) <= TOTAL_REQ
    BY <2>1, AnswersBound
  <2> QED BY <2>2 DEF TotalKept, Answers, AllFinExact
<1> QED BY <1>1, Invariant, TotalInvariant, PTL

\* The while condition of conn_mgnt.c:72 holds whenever it is tested: the loop
\* is only ever left by its gotos and breaks.
THEOREM LoopNeverEndsItself == Spec => []LoopConditionHolds
<1>1. TotalKept => LoopConditionHolds
  BY DEF TotalKept, LoopConditionHolds
<1> QED BY <1>1, TotalInvariant, PTL

\* The loop stops short of the total only after a fault of its surroundings or
\* the last timeout (the gotos of conn_mgnt.c and the break at poll()).
THEOREM EndsOnlyOnTrouble == Spec => []NoEarlyEnd
<1>1. Init => NoEarlyEnd
  BY DEF Init, NoEarlyEnd
<1>2. IInv /\ IInv' /\ Untroubled /\ [Next]_vars => Untroubled'
  BY UntroubledNext
<1>3. IInv /\ Untroubled /\ NoEarlyEnd /\ [Next]_vars => NoEarlyEnd'
  BY EarlyEndNext
<1> QED BY <1>1, <1>2, <1>3, UntroubledInit, Invariant, PTL DEF Spec

-----------------------------------------------------------------------------
(* What the loop knows of the socket it looks at. *)

\* Connections whose events, fetched by poll(), are still to be looked at.
Pending(c) == \/ pc = "conn" /\ c >= cur
              \/ pc \notin {"poll", "conn", "end"} /\ c > cur

\* RCODE_FIN means that everything asked for is answered, RCODE_CLOSE that the
\* server closes, and an error event that the socket is dead: no step of the
\* network undoes that, and the loop renews a socket only in its own turn.
Informed ==
  /\ pc = "dispatch" /\ call.rcode = "FIN" => call.fin_resp = sock[cur].sent_req
  /\ pc = "dispatch" /\ call.rcode = "CLOSE" => sm[cur].is_close \/ PeerGone(net[cur])
  /\ \A c \in Conns : Pending(c) /\ revents[c] \cap {"ERR", "HUP"} # {} => net[c].tcp = "CLOSE"

LEMMA OnlyCurrent ==
  ASSUME IInv, Program \/ PollFails, NEW c \in Conns, c # cur
  PROVE  sock'[c] = sock[c] /\ sm'[c] = sm[c] /\ net'[c] = net[c]
<1>1. /\ cur \in Conns /\ net \in [Conns -> Socket] /\ sock \in [Conns -> Counters]
      /\ sm \in [Conns -> Parser]
  BY Typed
<1>2. CASE Send
  BY <1>1, <1>2 DEF Send, SendNothing, SendOne, StartBurst, SendBurst, SendFast, Aftermath
<1>3. CASE Receive
  BY <1>1, <1>3 DEF Receive, ParseToken, ParseFinish, NothingExpected, Recv, RecvEof, RecvNothing
<1>4. CASE Respond
  BY <1>1, <1>4 DEF Respond, DispatchPollData, DispatchEnd, DispatchPeerCloses, DispatchFinished,
     DispatchKeep, DispatchAbort
<1>5. CASE UNCHANGED <<sock, sm, net>> \/ ErrorClose
  BY <1>1, <1>5 DEF ErrorClose, conn_mgnt_close_handler
<1> QED BY <1>2, <1>3, <1>4, <1>5 DEF Program, Poll, PollTimeout, PollFails, SkipFinished, CheckError

LEMMA NextPending ==
  ASSUME IInv, GoNext, NEW c \in Conns, Pending(c)', pc \notin {"poll", "end"}
  PROVE  Pending(c) /\ c # cur /\ revents'[c] = revents[c]
<1>1. cur \in Nat /\ NConn \in Nat \ {0} /\ c \in Nat
  BY Typed, PeerAssumption DEF Conns
<1>2. pc' = "conn" /\ cur + 1 < NConn /\ revents' = revents
  BY <1>1 DEF GoNext, Pending
<1>3. cur' = cur + 1
  BY <1>1, <1>2, Remainder DEF GoNext
<1> QED BY <1>1, <1>2, <1>3 DEF Pending

LEMMA PendingStep ==
  ASSUME IInv, Program \/ PollFails, ~Poll, NEW c \in Conns, Pending(c)'
  PROVE  /\ Pending(c) /\ revents'[c] = revents[c] /\ net'[c] = net[c]
<1>1. cur \in Int /\ c \in Int
  BY Typed, PeerAssumption DEF Conns
<1>2. CASE UNCHANGED <<pc, cur, revents>>
  <2>1. pc \in {"parse", "dispatch", "burst"} \/ UNCHANGED net
    BY <1>2 DEF Program, Poll, PollTimeout, PollFails, SkipFinished, CheckError, ErrorClose,
       GoReceive, Goto, Receive, Respond, Dispatch, DispatchPollData, DispatchEnd,
       DispatchPeerCloses, DispatchFinished, DispatchKeep, DispatchAbort, ParseToken, ParseFinish,
       NothingExpected, Recv, RecvEof, RecvNothing, Send, SendNothing, SendOne, StartBurst,
       SendBurst, SendFast, Aftermath, GoNext
  <2>2. Pending(c)
    BY <1>2 DEF Pending
  <2>3. UNCHANGED net \/ c # cur
    BY <1>1, <2>1, <2>2 DEF Pending
  <2> QED BY <1>2, <2>2, <2>3, OnlyCurrent
<1>3. CASE GoNext /\ pc \notin {"poll", "end"}
  BY <1>3, NextPending, OnlyCurrent
<1>4. CASE /\ UNCHANGED <<cur, revents>> /\ pc \notin {"poll", "end"}
           /\ pc' \notin {"poll", "conn", "end"}
  <2>1. c > cur
    BY <1>4 DEF Pending
  <2> QED BY <1>1, <1>4, <2>1, OnlyCurrent DEF Pending
<1>5. CASE pc' \in {"poll", "end"}
  BY <1>5 DEF Pending
<1>6. CASE Receive
  BY <1>2, <1>4, <1>6 DEF Receive, ParseToken, ParseFinish, NothingExpected, Recv, RecvEof, RecvNothing,
     ParserReturns, loopVars
<1>7. CASE Respond
  BY <1>3, <1>4, <1>5, <1>7 DEF Respond, Dispatch, DispatchPollData, DispatchEnd,
     DispatchPeerCloses, DispatchFinished, DispatchKeep, DispatchAbort, Goto
<1>8. CASE Send
  <2>1. pc \in {"send", "burst"}
    BY <1>8 DEF Send, SendNothing, SendOne, StartBurst, SendBurst, SendFast
  <2> QED BY <1>2, <1>3, <1>4, <1>5, <1>8, <2>1 DEF Send, SendNothing, SendOne, StartBurst,
          SendBurst, SendFast, Aftermath, Goto
<1>9. CASE CheckError \/ ErrorClose
  BY <1>4, <1>9 DEF CheckError, ErrorClose, GoReceive, Goto
<1>10. CASE PollTimeout \/ PollFails \/ SkipFinished
  BY <1>2, <1>3, <1>5, <1>10 DEF PollTimeout, PollFails, SkipFinished
<1> QED BY <1>6, <1>7, <1>8, <1>9, <1>10 DEF Program

LEMMA InformedCall ==
  ASSUME IInv, Program \/ PollFails, pc' = "dispatch"
  PROVE  /\ call'.rcode = "FIN" => call'.fin_resp = sock'[cur'].sent_req
         /\ call'.rcode = "CLOSE" => sm'[cur'].is_close \/ PeerGone(net'[cur'])
<1>1. /\ cur \in Conns /\ call \in ParserCall /\ call.fin_resp \in Nat /\ call.num_reqs \in Nat
      /\ sm \in [Conns -> Parser] /\ sock[cur].sent_req \in Nat
      /\ call.num_reqs < U32_MOD /\ U32_MOD \in Nat
  BY Typed, ConnMgntAssumption DEF ParserCall, Counters
<1>2. CASE ParseToken
  <2>1. PICK o : /\ pc = "parse" /\ sm[cur].buf # <<>> /\ UNCHANGED <<cur, sock>>
                 /\ ParserReturns(o) /\ o \notin {"FIN", "CLOSE"}
    <3>1. PICK o \in Parse(sm[cur], Head(sm[cur].buf)) :
            IF o.res = "MORE" THEN UNCHANGED <<pc, call>>
            ELSE ParserReturns(IF o.res = "NOT_SUPPORT" THEN "ERROR" ELSE o.res)
      BY <1>2 DEF ParseToken
    <3>2. o.res \in {"MORE", "FINISH"} \cup Stops
      <4>1. Head(sm[cur].buf) \in Tokens
        BY <1>1, <1>2, HeadTail DEF ParseToken, Parser
      <4> QED BY <1>1, <3>1, <4>1, ParseType
    <3>3. o.res # "MORE"
      BY <1>2, <3>1 DEF ParseToken
    <3> QED BY <1>2, <3>1, <3>2, <3>3 DEF ParseToken, Stops
  <2> QED BY <1>1, <2>1 DEF ParserReturns, ParserCall
<1>3. CASE ParseFinish
  <2>1. PICK o \in Parse(sm[cur], Head(sm[cur].buf)) :
          LET left == (call.num_reqs + U32_MOD - 1) % U32_MOD
              rc   == IF o.is_close THEN "CLOSE" ELSE IF left = 0 THEN "FIN" ELSE "NONE"
          IN  /\ call' = [num_reqs |-> left, fin_resp |-> call.fin_resp + 1, rcode |-> rc]
              /\ rc # "NONE" => sm' = [sm EXCEPT ![cur] =
                                  [buf |-> Tail(sm[cur].buf), p_state |-> o.p_state,
                                   is_close |-> o.is_close, status |-> o.status]]
              /\ pc' = IF rc = "NONE" THEN pc ELSE "dispatch"
    BY <1>3 DEF ParseFinish
  <2>2. pc = "parse" /\ sm[cur].buf # <<>> /\ UNCHANGED <<cur, sock>>
    BY <1>3 DEF ParseFinish
  <2> DEFINE left == (call.num_reqs + U32_MOD - 1) % U32_MOD
  <2>3. left = call.num_reqs - 1 /\ call.num_reqs >= 1
    <3>1. call.num_reqs # 0
      BY <2>2 DEF IInv, CallIsBound, CleanParser
    <3> QED BY <1>1, <3>1, CountDown
  <2>4. call.num_reqs + call.fin_resp = sock[cur].sent_req
    BY <2>2 DEF IInv, NeverNegative
  <2> HIDE DEF left
  <2>5. /\ call'.fin_resp = call.fin_resp + 1
        /\ call'.rcode = "FIN" => left = 0
        /\ call'.rcode = "CLOSE" => o.is_close
    BY <2>1 DEF left
  <2>6. call'.rcode = "CLOSE" => sm'[cur].is_close
    BY <1>1, <2>1, <2>5
  <2> QED BY <1>1, <2>2, <2>3, <2>4, <2>5, <2>6
<1>4. CASE NothingExpected
  <2>1. /\ pc = "parse" /\ call.num_reqs = 0 /\ UNCHANGED <<cur, sock>>
        /\ call'.rcode = "FIN" /\ call'.fin_resp = call.fin_resp
    BY <1>1, <1>4 DEF NothingExpected, ParserReturns, ParserCall
  <2>2. call.num_reqs + call.fin_resp = sock[cur].sent_req
    BY <2>1 DEF IInv, NeverNegative
  <2> QED BY <1>1, <2>1, <2>2
<1>5. CASE RecvEof
  <2>1. UNCHANGED <<cur, net>> /\ call'.rcode = "CLOSE" /\ PeerGone(net[cur])
    BY <1>1, <1>5 DEF RecvEof, ParserReturns, ParserCall, AtEof, PeerGone
  <2> QED BY <2>1
<1>6. CASE RecvNothing
  BY <1>1, <1>6 DEF RecvNothing, ParserReturns, ParserCall
<1> QED BY <1>2, <1>3, <1>4, <1>5, <1>6 DEF Program, Receive, Respond, Send,
     Poll, PollTimeout, PollFails, SkipFinished, CheckError, ErrorClose, GoReceive, Goto, GoNext,
     Recv, loopVars,
     Dispatch, DispatchPollData, DispatchEnd, DispatchPeerCloses, DispatchFinished, DispatchKeep,
     DispatchAbort, SendNothing, SendOne, StartBurst, SendBurst, SendFast, Aftermath

LEMMA InformedNext == ASSUME IInv, Informed, [Next]_vars PROVE Informed'
<1>1. /\ cur \in Conns /\ net \in [Conns -> Socket] /\ revents \in [Conns -> SUBSET Events]
  BY Typed
<1>2. CASE Peer
  <2>1. PICK d \in Conns : PeerStep(d)
    BY <1>2 DEF Peer, FromPeer
  <2>2. PeerTypeOK
    BY DEF IInv, TypeOK
  <2>3. PICK t \in Socket : /\ net' = [net EXCEPT ![d] = t]
                            /\ net[d].tcp = "CLOSE" => t.tcp = "CLOSE"
                            /\ PeerGone(net[d]) => PeerGone(t)
    BY <2>1, <2>2, LiveStep
  <2>4. UNCHANGED <<pc, cur, revents, call, sock, sm>>
    BY <1>2 DEF Peer, FromPeer, progVars, loopVars
  <2>5. \A c \in Conns : /\ net[c].tcp = "CLOSE" => net'[c].tcp = "CLOSE"
                         /\ PeerGone(net[c]) => PeerGone(net'[c])
    BY <1>1, <2>3
  <2> QED BY <1>1, <2>4, <2>5 DEF Informed, Pending, PeerGone
<1>3. CASE Poll
  <2>1. PICK r \in [Conns -> SUBSET Events] :
          /\ \A c \in Conns : r[c] \in IF c \in polled THEN Ready(net[c]) ELSE {{}}
          /\ revents' = r
    BY <1>3 DEF Poll
  <2>2. UNCHANGED net /\ pc' = "conn"
    BY <1>3 DEF Poll
  <2>3. ASSUME NEW c \in Conns, r[c] \cap {"ERR", "HUP"} # {} PROVE net[c].tcp = "CLOSE"
    <3>1. r[c] \in Ready(net[c])
      BY <2>1, <2>3
    <3> QED BY <2>3, <3>1 DEF Ready
  <2> QED BY <2>1, <2>2, <2>3 DEF Informed
<1>4. CASE (Program \/ PollFails) /\ ~Poll
  <2>1. ASSUME NEW c \in Conns, Pending(c)', revents'[c] \cap {"ERR", "HUP"} # {}
        PROVE  net'[c].tcp = "CLOSE"
    <3>1. Pending(c) /\ revents'[c] = revents[c] /\ net'[c] = net[c]
      BY <1>4, <2>1, PendingStep
    <3> QED BY <2>1, <3>1 DEF Informed
  <2>2. pc' = "dispatch" => /\ call'.rcode = "FIN" => call'.fin_resp = sock'[cur'].sent_req
                            /\ call'.rcode = "CLOSE" => sm'[cur'].is_close \/ PeerGone(net'[cur'])
    BY <1>4, InformedCall
  <2> QED BY <2>1, <2>2 DEF Informed, PeerGone
<1>5. CASE Finished \/ UNCHANGED vars
  <2>1. UNCHANGED <<pc, cur, revents, call, sock, sm, net>>
    BY <1>5 DEF Finished, vars, progVars, loopVars
  <2> QED BY <2>1 DEF Informed, Pending, PeerGone
<1> QED BY <1>2, <1>3, <1>4, <1>5 DEF Next

LEMMA InformedInit == Init => Informed
BY DEF Init, Informed, Pending

-----------------------------------------------------------------------------
(* The forms a step of the loop has, apart from those inside a parser call. *)

\* A retry is counted only where the socket is not live any more, or the
\* parser call has stopped at something else than a finished response.
Renews(k) ==
  /\ k.sent_req = 0 /\ k.leftover = 0
  /\ sock' = [sock EXCEPT ![cur] = k]
  /\ sm' = [sm EXCEPT ![cur] = CleanParser] /\ net' = [net EXCEPT ![cur] = NewSocket]
  /\ \/ k.retry_conn_num = sock[cur].retry_conn_num
     \/ /\ k.retry_conn_num = sock[cur].retry_conn_num + 1
        /\ ~Live(net[cur]) \/ (pc = "dispatch" /\ call.rcode \notin {"POLL_DATA", "FIN"})

\* The parser starts afresh on the same socket.
Restarts(k) ==
  /\ pc = "dispatch" /\ k.sent_req = 0 /\ k.retry_conn_num = sock[cur].retry_conn_num
  /\ sock' = [sock EXCEPT ![cur] = k]
  /\ sm' = [sm EXCEPT ![cur] = CleanParser] /\ UNCHANGED net
  /\ \/ call.rcode = "FIN" /\ k.leftover = sock[cur].leftover
     \/ call.rcode \in {"CLIENT_ERR", "ERROR"} /\ sm[cur].status = "keep4"

\* The responses of a parser call are credited, and nothing else changes.
Credits ==
  /\ pc = "dispatch" /\ call.fin_resp \in Nat /\ cur' = cur
  /\ pc' = "end" \/ call.rcode = "POLL_DATA"
  /\ sock' = [sock EXCEPT ![cur] = Paid] /\ UNCHANGED <<sm, net>>

\* n units are sent.
Writes(n, try, k) ==
  /\ pc \in {"send", "burst"}
  /\ try = Sent(net[cur], sock[cur].leftover, n)
  /\ sock' = [sock EXCEPT ![cur] = k] /\ net' = [net EXCEPT ![cur] = try.peer] /\ UNCHANGED sm
  /\ k.retry_conn_num = sock[cur].retry_conn_num
  /\ \/ ENABLE_PIPE /\ G_FAST /\ k = FastOutcome(try)
     \/ ENABLE_PIPE /\ ~G_FAST /\ n = ReqSize /\ k = OneMore(sock[cur])
     \/ /\ ~ENABLE_PIPE /\ n = ReqSize /\ sock[cur].sent_req = 0
        /\ k = IF try.ret = "OK" THEN OneMore(sock[cur]) ELSE sock[cur]

Rests == pc \notin {"parse", "dispatch"} /\ UNCHANGED <<sock, sm, net>>

Forms == \/ Rests \/ Credits
         \/ \E k \in Counters : Renews(k) \/ Restarts(k)
         \/ \E n \in Nat : \E try : \E k \in Counters : Writes(n, try, k)

\* After such a step no parser call has anything to credit.
Apart == pc' # "dispatch" /\ (pc' = "parse" => call'.fin_resp = 0)

LEMMA SendForms ==
  ASSUME IInv, pc \in {"send", "burst"}, NEW n \in Nat, NEW try, NEW k \in Counters,
         try = Sent(net[cur], sock[cur].leftover, n),
         NEW next, Aftermath(try, k, next), k.retry_conn_num = sock[cur].retry_conn_num,
         \/ ENABLE_PIPE /\ G_FAST /\ k = FastOutcome(try)
         \/ ENABLE_PIPE /\ ~G_FAST /\ n = ReqSize /\ k = OneMore(sock[cur])
         \/ /\ ~ENABLE_PIPE /\ n = ReqSize /\ sock[cur].sent_req = 0
            /\ k = IF try.ret = "OK" THEN OneMore(sock[cur]) ELSE sock[cur]
  PROVE  Forms
<1>1. CASE try.ret \in {"PIPE", "RESET"}
  <2>1. /\ sock' = [sock EXCEPT ![cur] = Closed(k)]
        /\ sm'   = [sm EXCEPT ![cur] = CleanParser]
        /\ net'  = [net EXCEPT ![cur] = NewSocket]
    BY <1>1 DEF Aftermath, ResetParser
  <2>2. net[cur].tcp = "CLOSE"
    BY <1>1 DEF Sent
  <2>3. /\ Closed(k) \in Counters /\ Closed(k).sent_req = 0 /\ Closed(k).leftover = 0
        /\ Closed(k).retry_conn_num = sock[cur].retry_conn_num + 1
    BY ClosedType
  <2> QED BY <2>1, <2>2, <2>3 DEF Forms, Renews, Live
<1>2. CASE try.ret \notin {"PIPE", "RESET"}
  <2>1. /\ sock' = [sock EXCEPT ![cur] = k]
        /\ net'  = [net EXCEPT ![cur] = try.peer]
        /\ UNCHANGED sm
    BY <1>2 DEF Aftermath
  <2>2. Writes(n, try, k)
    BY <2>1 DEF Writes
  <2> QED BY <2>2 DEF Forms
<1> QED BY <1>1, <1>2

LEMMA ZeroedFields ==
  ASSUME NEW p \in Counters
  PROVE  /\ Zeroed(p) \in Counters /\ Zeroed(p).sent_req = 0 /\ Zeroed(p).leftover = 0
         /\ Zeroed(p).retry_conn_num = p.retry_conn_num
<1>1. 0 \in 0..(ReqSize - 1)
  BY PeerAssumption
<1> QED BY <1>1 DEF Zeroed, Counters

LEMMA StepForms ==
  ASSUME IInv, Informed, Program \/ PollFails, ~Receive
  PROVE  Forms /\ Apart
<1> DEFINE old == sock[cur]
<1>1. /\ cur \in Conns /\ call \in ParserCall /\ call.fin_resp \in Nat
      /\ old \in Counters /\ Fits(cur, old) /\ sm \in [Conns -> Parser]
      /\ net \in [Conns -> Socket] /\ sock \in [Conns -> Counters] /\ ReqSize \in Nat
  BY Typed, PeerAssumption DEF ParserCall
<1>2. Apart
  BY DEF Apart, Program, PollFails, Receive, Poll, PollTimeout, SkipFinished, CheckError, ErrorClose,
     GoReceive, Goto, GoNext, NoCall, Respond, DispatchPollData, DispatchEnd, DispatchPeerCloses,
     DispatchFinished, DispatchKeep, DispatchAbort, Send, SendNothing, SendOne, StartBurst,
     SendBurst, SendFast, Aftermath
<1>3. CASE Poll \/ PollTimeout \/ PollFails \/ SkipFinished \/ CheckError \/ SendNothing \/ StartBurst
  <2>1. Rests
    BY <1>3 DEF Poll, PollTimeout, PollFails, SkipFinished, CheckError, SendNothing, StartBurst, Rests
  <2> QED BY <1>2, <2>1 DEF Forms
<1>4. CASE ErrorClose
  <2>1. /\ sock' = [sock EXCEPT ![cur] = Closed(old)]
        /\ sm'   = [sm EXCEPT ![cur] = CleanParser]
        /\ net'  = [net EXCEPT ![cur] = NewSocket]
        /\ pc = "conn" /\ Lost
    BY <1>4 DEF ErrorClose, conn_mgnt_close_handler, ResetParser
  <2>2. net[cur].tcp = "CLOSE"
    <3>1. Pending(cur)
      BY <1>1, <2>1, PeerAssumption DEF Pending, Conns
    <3>2. revents[cur] \cap {"ERR", "HUP"} # {}
      BY <2>1 DEF Lost, Rev
    <3> QED BY <1>1, <3>1, <3>2 DEF Informed
  <2>3. /\ Closed(old) \in Counters /\ Closed(old).sent_req = 0 /\ Closed(old).leftover = 0
        /\ Closed(old).retry_conn_num = old.retry_conn_num + 1
    BY <1>1, ClosedType
  <2>4. Renews(Closed(old))
    BY <2>1, <2>2, <2>3 DEF Renews, Live
  <2> QED BY <1>2, <2>3, <2>4 DEF Forms
<1>5. CASE Respond
  <2> DEFINE p == Paid
  <2>1. pc = "dispatch" /\ call.fin_resp <= old.sent_req
    BY <1>5, SwitchForms DEF IInv, NeverNegative
  <2>2. /\ p \in Counters /\ p.sent_req = old.sent_req - call.fin_resp
        /\ p.leftover = old.leftover /\ p.retry_conn_num = old.retry_conn_num
    BY <1>1, <2>1, CreditedType DEF Fits, Paid, Me
  <2>3. CASE DispatchPollData \/ DispatchEnd
    <3>1. /\ sock' = [sock EXCEPT ![cur] = Paid] /\ UNCHANGED <<sm, net, cur>>
          /\ pc' = "end" \/ call.rcode = "POLL_DATA"
      BY <2>3 DEF DispatchPollData, DispatchEnd, Dispatch, Goto
    <3> QED BY <1>1, <1>2, <2>1, <3>1 DEF Forms, Credits
  <2>4. CASE DispatchPeerCloses
    <3> DEFINE k == Zeroed(p)
    <3>1. /\ sock' = [sock EXCEPT ![cur] = k]
          /\ sm' = [sm EXCEPT ![cur] = CleanParser] /\ net' = [net EXCEPT ![cur] = NewSocket]
      BY <2>4 DEF DispatchPeerCloses, Zeroed, ResetParser
    <3> HIDE DEF p
    <3>2. /\ k \in Counters /\ k.sent_req = 0 /\ k.leftover = 0
          /\ k.retry_conn_num = old.retry_conn_num
      BY <2>2, ZeroedFields
    <3> HIDE DEF k
    <3> QED BY <1>2, <3>1, <3>2 DEF Forms, Renews
  <2>5. CASE DispatchAbort
    <3> DEFINE k == Closed(p)
    <3>1. /\ sock' = [sock EXCEPT ![cur] = k]
          /\ sm' = [sm EXCEPT ![cur] = CleanParser] /\ net' = [net EXCEPT ![cur] = NewSocket]
          /\ call.rcode \notin {"POLL_DATA", "FIN"}
      BY <2>5 DEF DispatchAbort, Dispatch, ResetParser
    <3> HIDE DEF p
    <3>2. /\ k \in Counters /\ k.sent_req = 0 /\ k.leftover = 0
          /\ k.retry_conn_num = old.retry_conn_num + 1
      BY <2>2, ClosedType
    <3> HIDE DEF k
    <3> QED BY <1>2, <2>1, <3>1, <3>2 DEF Forms, Renews
  <2>6. CASE DispatchKeep
    <3> DEFINE k == Zeroed(p)
    <3>1. /\ sock' = [sock EXCEPT ![cur] = k]
          /\ sm' = [sm EXCEPT ![cur] = CleanParser] /\ UNCHANGED net
          /\ call.rcode \in {"CLIENT_ERR", "ERROR"} /\ sm[cur].status = "keep4"
      BY <2>6 DEF DispatchKeep, Dispatch, Zeroed, ResetParser
    <3> HIDE DEF p
    <3>2. /\ k \in Counters /\ k.sent_req = 0
          /\ k.retry_conn_num = old.retry_conn_num
      BY <2>2, ZeroedFields
    <3> HIDE DEF k
    <3> QED BY <1>2, <2>1, <3>1, <3>2 DEF Forms, Restarts
  <2>7. CASE DispatchFinished /\ PeerGone(net[cur])
    <3> DEFINE r == Resized(p)
               k == [r EXCEPT !.leftover = 0]
    <3>1. /\ sock' = [sock EXCEPT ![cur] = k]
          /\ sm' = [sm EXCEPT ![cur] = CleanParser] /\ net' = [net EXCEPT ![cur] = NewSocket]
      BY <2>7 DEF DispatchFinished, ResetParser
    <3> HIDE DEF p
    <3>2. r \in Counters /\ r.sent_req = 0
      BY <2>2, ResizedType
    <3>3. r.retry_conn_num \in {p.retry_conn_num, p.retry_conn_num + 1}
      BY <2>2 DEF Resized, Counters
    <3> HIDE DEF r
    <3>4. /\ k \in Counters /\ k.sent_req = 0 /\ k.leftover = 0
          /\ k.retry_conn_num = r.retry_conn_num
      BY <3>2, PeerAssumption DEF Counters
    <3>5. ~Live(net[cur])
      BY <2>7 DEF PeerGone, Live
    <3> HIDE DEF k
    <3> QED BY <1>2, <2>2, <3>1, <3>3, <3>4, <3>5 DEF Forms, Renews
  <2>8. CASE DispatchFinished /\ ~PeerGone(net[cur])
    <3> DEFINE k == Resized(p)
    <3>1. /\ sock' = [sock EXCEPT ![cur] = k]
          /\ sm' = [sm EXCEPT ![cur] = CleanParser] /\ UNCHANGED net
          /\ call.rcode \in {"FIN", "CLOSE"} /\ ~sm[cur].is_close
      BY <2>8 DEF DispatchFinished, Dispatch, ResetParser
    <3> HIDE DEF p
    <3>2. call.rcode = "FIN" /\ call.fin_resp = old.sent_req
      BY <2>1, <2>8, <3>1 DEF Informed
    <3>3. p.sent_req = 0
      <4>1. old.sent_req \in Nat
        BY <1>1 DEF Counters
      <4> QED BY <1>1, <2>2, <3>2, <4>1
    <3>4. k = p
      BY <3>3 DEF Resized
    <3> HIDE DEF k
    <3> QED BY <1>2, <2>1, <2>2, <3>1, <3>2, <3>3, <3>4 DEF Forms, Restarts
  <2> QED BY <1>5, <2>3, <2>4, <2>5, <2>6, <2>7, <2>8 DEF Respond
<1>6. CASE SendOne
  <2> DEFINE try == Sent(net[cur], 0, ReqSize)
             k == IF try.ret = "OK" THEN OneMore(old) ELSE old
  <2>1. Aftermath(try, k, GoNext) /\ pc = "send" /\ ~ENABLE_PIPE /\ old.sent_req = 0
    BY <1>6 DEF SendOne, Me, OneMore, HasWork
  <2>2. k \in Counters /\ k.retry_conn_num = old.retry_conn_num
    BY <1>1, OneMoreType
  <2>3. old.leftover = 0
    BY <1>1, <2>1 DEF Fits
  <2> HIDE DEF k
  <2> QED BY <1>1, <1>2, <2>1, <2>2, <2>3, SendForms DEF k
<1>7. CASE SendBurst
  <2> DEFINE try == Sent(net[cur], 0, ReqSize)
             k == OneMore(old)
  <2>1. PICK next : Aftermath(try, k, next)
    BY <1>7 DEF SendBurst, Me, OneMore
  <2>2. pc = "burst" /\ ENABLE_PIPE /\ ~G_FAST
    BY <1>7 DEF SendBurst, IInv, BurstFits
  <2>3. k \in Counters /\ k.retry_conn_num = old.retry_conn_num
    BY <1>1, OneMoreType
  <2>4. old.leftover = 0
    BY <1>1, <2>2 DEF Fits
  <2> HIDE DEF k
  <2> QED BY <1>1, <1>2, <2>1, <2>2, <2>3, <2>4, SendForms DEF k
<1>8. CASE SendFast
  <2> DEFINE n == WorkloadBytes(old)
             try == Sent(net[cur], old.leftover, n)
             k == FastOutcome(try)
  <2>1. pc = "send" /\ ENABLE_PIPE /\ G_FAST /\ Aftermath(try, k, GoNext)
    BY <1>8 DEF SendFast, Me, FastOutcome, Counted
  <2>2. k \in Counters /\ k.retry_conn_num = old.retry_conn_num
    BY <2>1, FastOutcomeType
  <2>3. n \in Nat
    BY <1>1, WorkloadBytesType DEF Fits
  <2> HIDE DEF k, n
  <2> QED BY <1>1, <1>2, <2>1, <2>2, <2>3, SendForms DEF k
<1> QED BY <1>3, <1>4, <1>5, <1>6, <1>7, <1>8 DEF Program, Send

-----------------------------------------------------------------------------
(* Where the streams of requests are cut. *)

\* What a send() on a live socket, whose stream is cut where leftover says,
\* comes to: it is so again, and no more answers are to come than are counted;
\* exactly so many in the fast mode.
LEMMA WriteEven ==
  ASSUME IInv, NEW n \in Nat, NEW try, NEW k \in Counters, Writes(n, try, k),
         Live(net[cur]), Even(net[cur], sock[cur].leftover),
         \/ ReqSize = 1
         \/ ENABLE_PIPE /\ G_FAST /\ LEFTOVER_MOD >= ReqSize
         \/ ~ENABLE_PIPE /\ ReqSize <= SndCap /\ net[cur].wire = <<>>
  PROVE  /\ try.peer \in Socket /\ Live(try.peer) /\ try.peer.rx = net[cur].rx
         /\ Even(try.peer, k.leftover)
         /\ \E d \in Nat :
              /\ k.sent_req = sock[cur].sent_req + d
              /\ \A E \in OneEach :
                   /\ ToCome(try.peer, E) <= ToCome(net[cur], E) + d
                   /\ ENABLE_PIPE /\ G_FAST => ToCome(try.peer, E) = ToCome(net[cur], E) + d
<1> DEFINE s == net[cur]
           old == sock[cur]
           left == old.leftover
           t == try.peer
           taken == left + try.n
<1>1. /\ s \in Socket /\ old \in Counters /\ Fits(cur, old) /\ left \in 0..(ReqSize - 1) /\ left \in Nat
      /\ ReqSize \in Nat \ {0} /\ SndCap \in Nat \ {0} /\ old.sent_req \in Nat
      /\ LEFTOVER_MOD \in Nat \ {0}
  BY Typed, PeerAssumption, ConnMgntAssumption DEF Counters
<1>2. try = Sent(s, left, n)
  BY DEF Writes
<1>3. \A E : /\ try.ret \in {"OK", "AGAIN"} /\ try.n \in Nat
             /\ try.ret = "AGAIN" => t = s
             /\ try.ret = "OK" =>
                  /\ try.n = Smaller(n, SndCap - Len(s.wire))
                  /\ Even(t, taken % ReqSize)
                  /\ ToCome(t, E) = ToCome(s, E) + (taken \div ReqSize)
             /\ t \in Socket /\ t.tcp = s.tcp /\ t.rx = s.rx
  <2> SUFFICES ASSUME NEW E
               PROVE  /\ try.ret \in {"OK", "AGAIN"} /\ try.n \in Nat
                      /\ try.ret = "AGAIN" => t = s
                      /\ try.ret = "OK" =>
                           /\ try.n = Smaller(n, SndCap - Len(s.wire))
                           /\ Even(t, taken % ReqSize)
                           /\ ToCome(t, E) = ToCome(s, E) + (taken \div ReqSize)
                      /\ t \in Socket /\ t.tcp = s.tcp /\ t.rx = s.rx
    OBVIOUS
  <2>1. s \in Socket
    BY <1>1
  <2>2. left \in 0..(ReqSize - 1)
    BY <1>1
  <2>3. Live(s)
    OBVIOUS
  <2>4. Even(s, left)
    OBVIOUS
  <2> HIDE DEF s, left
  <2> QED BY <1>2, <2>1, <2>2, <2>3, <2>4, SentEven
<1>4. t \in Socket /\ Live(t) /\ t.rx = s.rx /\ try.n \in Nat /\ taken \in Nat
  <2>1. t \in Socket /\ t.rx = s.rx /\ t.tcp = s.tcp /\ try.n \in Nat
    <3> HIDE DEF s, left, t
    <3> QED BY <1>3
  <2>2. taken \in Nat
    <3> HIDE DEF left
    <3> QED BY <1>1, <2>1
  <2>3. Live(t)
    <3> HIDE DEF t
    <3> QED BY <2>1 DEF Live
  <2> QED BY <2>1, <2>2, <2>3
<1>5. ASSUME NEW E PROVE ToCome(s, E) \in Nat /\ ToCome(t, E) \in Nat
  BY <1>1, <1>4, ToComeType
<1> DEFINE More(d) == /\ k.sent_req = old.sent_req + d
                      /\ \A E \in OneEach :
                           /\ ToCome(t, E) <= ToCome(s, E) + d
                           /\ ENABLE_PIPE /\ G_FAST => ToCome(t, E) = ToCome(s, E) + d
<1>6. CASE ENABLE_PIPE /\ G_FAST
  <2>1. k = FastOutcome(try) /\ LEFTOVER_MOD >= ReqSize
    BY <1>1, <1>6 DEF Writes
  <2>2. CASE try.ret = "AGAIN"
    <3>1. k = old /\ t = s
      BY <1>3, <2>1, <2>2 DEF FastOutcome
    <3>2. More(0)
      BY <1>1, <1>5, <3>1
    <3> QED BY <1>4, <3>1, <3>2
  <2>3. CASE try.ret = "OK"
    <3> DEFINE q == taken \div ReqSize
               l == taken % ReqSize
    <3>1. try.n + left = taken
      BY <1>1, <1>4
    <3>2. k = [old EXCEPT !.sent_req = old.sent_req + q, !.leftover = l % LEFTOVER_MOD]
      BY <2>1, <2>3, <3>1 DEF FastOutcome, Counted, CompleteRequests
    <3>3. q \in Nat /\ l \in 0..(ReqSize - 1)
      <4> HIDE DEF taken
      <4> QED BY <1>1, <1>4, DivMod
    <3>4. l \in 0..(LEFTOVER_MOD - 1)
      BY <1>1, <2>1, <3>3
    <3>5. l % LEFTOVER_MOD = l
      BY <1>1, <3>4, Remainder
    <3>6. Even(t, l) /\ \A E : ToCome(t, E) = ToCome(s, E) + q
      BY <1>3, <2>3
    <3> HIDE DEF q, l
    <3>7. k.sent_req = old.sent_req + q /\ k.leftover = l
      BY <1>1, <3>2, <3>5 DEF Counters
    <3>8. More(q)
      BY <1>5, <3>3, <3>6, <3>7
    <3> QED BY <1>4, <3>3, <3>6, <3>7, <3>8
  <2> QED BY <1>3, <2>2, <2>3
<1>7. CASE ~(ENABLE_PIPE /\ G_FAST)
  <2>1. left = 0 /\ n = ReqSize
    BY <1>1, <1>7 DEF Fits, Writes
  <2>2. CASE try.ret = "AGAIN"
    <3>1. k \in {old, OneMore(old)} /\ t = s
      BY <1>3, <1>7, <2>2 DEF Writes
    <3>2. k.leftover = left /\ \E d \in {0, 1} : k.sent_req = old.sent_req + d
      BY <1>1, <3>1, OneMoreType
    <3>3. \E d \in {0, 1} : More(d)
      BY <1>5, <1>7, <3>1, <3>2
    <3> QED BY <1>4, <3>1, <3>2, <3>3
  <2>3. CASE try.ret = "OK"
    <3>1. k = OneMore(old)
      BY <1>7, <2>3 DEF Writes
    <3>2. k.leftover = 0 /\ k.sent_req = old.sent_req + 1
      BY <1>1, <2>1, <3>1, OneMoreType
    <3>3. try.n = Smaller(ReqSize, SndCap - Len(s.wire)) /\ taken = try.n
      BY <1>1, <1>3, <1>4, <2>1, <2>3
    <3>4. taken <= ReqSize
      <4>1. Len(s.wire) \in Nat
        BY <1>1 DEF Socket
      <4> QED BY <1>1, <3>3, <4>1 DEF Smaller
    <3>5. taken % ReqSize = 0
      <4>1. CASE ReqSize = 1
        <5>1. taken % ReqSize \in 0..(ReqSize - 1)
          <6> HIDE DEF taken
          <6> QED BY <1>1, <1>4, DivMod
        <5> QED BY <4>1, <5>1
      <4>2. CASE ReqSize <= SndCap /\ s.wire = <<>>
        <5>1. taken = ReqSize
          BY <1>1, <3>3, <4>2 DEF Smaller
        <5>2. ReqSize = ReqSize * 1 + 0 /\ 0 \in 0..(ReqSize - 1)
          BY <1>1
        <5> QED BY <1>1, <5>1, <5>2, ModUnique
      <4> QED BY <1>7, <4>1, <4>2
    <3>6. taken \div ReqSize <= 1 /\ taken \div ReqSize \in Nat
      <4>1. taken <= ReqSize * 1
        BY <1>1, <3>4
      <4> HIDE DEF taken
      <4> QED BY <1>1, <1>4, <4>1, CompleteBound, Quotient
    <3>7. Even(t, k.leftover) /\ \A E : ToCome(t, E) = ToCome(s, E) + (taken \div ReqSize)
      BY <1>3, <2>3, <3>2, <3>5
    <3> DEFINE q == taken \div ReqSize
    <3> HIDE DEF q
    <3>8. \A E : ToCome(t, E) <= ToCome(s, E) + 1
      BY <1>5, <3>6, <3>7 DEF q
    <3>9. More(1)
      BY <1>7, <3>2, <3>8
    <3> QED BY <1>4, <3>7, <3>9
  <2> QED BY <1>3, <2>2, <2>3
<1> QED BY <1>6, <1>7

\* Inside a parser call only recv() does anything to a live socket.
LEMMA ReceiveForms ==
  ASSUME IInv, Receive
  PROVE  /\ pc = "parse" /\ cur' = cur /\ sock' = sock /\ pc' \in {"parse", "dispatch"}
         /\ UNCHANGED net \/ Recv \/ (RecvNothing /\ ~Live(net[cur]) /\ ~Live(net'[cur]))
<1>1. /\ pc = "parse" /\ cur' = cur /\ sock' = sock
  BY DEF Receive, ParseToken, ParseFinish, NothingExpected, Recv, RecvEof, RecvNothing, loopVars
<1>2. pc' \in {"parse", "dispatch"}
  BY <1>1 DEF Receive, ParseToken, ParseFinish, NothingExpected, Recv, RecvEof, RecvNothing, loopVars,
     ParserReturns
<1>3. UNCHANGED net \/ Recv \/ RecvNothing
  BY DEF Receive, ParseToken, ParseFinish, NothingExpected, RecvEof
<1>4. ASSUME RecvNothing PROVE UNCHANGED net \/ (~Live(net[cur]) /\ ~Live(net'[cur]))
  <2> DEFINE s == net[cur]
  <2>1. cur \in Conns /\ net \in [Conns -> Socket] /\ s \in Socket
    BY Typed
  <2>2. net' = [net EXCEPT ![cur] = AfterError(s)]
    BY <1>4 DEF RecvNothing
  <2>3. CASE s.tcp = "CLOSE"
    <3>1. AfterError(s).tcp = "CLOSE"
      BY <2>1, <2>3 DEF AfterError, Socket
    <3> QED BY <2>1, <2>2, <2>3, <3>1 DEF Live
  <2>4. CASE s.tcp # "CLOSE"
    BY <2>1, <2>2, <2>4 DEF AfterError
  <2> QED BY <2>3, <2>4
<1> QED BY <1>1, <1>2, <1>3, <1>4

LEMMA RecvForm ==
  ASSUME IInv, Recv
  PROVE  \E n \in 1..Len(net[cur].rx) :
           LET b == SubSeq(net[cur].rx, 1, n)
               r == SubSeq(net[cur].rx, n + 1, Len(net[cur].rx))
               m == [sm[cur] EXCEPT !.buf = b]
               t == [net[cur] EXCEPT !.rx = r]
           IN  /\ sm' = [sm EXCEPT ![cur] = m] /\ net' = [net EXCEPT ![cur] = t]
               /\ sm[cur].buf = <<>> /\ UNCHANGED <<pc, cur, sock, call>>
               /\ m \in Parser /\ t \in Socket
               /\ m.buf = b /\ m.p_state = sm[cur].p_state /\ m.is_close = sm[cur].is_close
               /\ m.status = sm[cur].status
               /\ t.rx = r /\ t.tcp = net[cur].tcp /\ t.srv = net[cur].srv /\ t.bad = net[cur].bad
               /\ t.wire = net[cur].wire /\ t.frag = net[cur].frag /\ t.err = net[cur].err
<1>1. /\ cur \in Conns /\ net \in [Conns -> Socket] /\ net[cur] \in Socket
      /\ sm \in [Conns -> Parser] /\ sm[cur] \in Parser
  BY Typed
<1>2. PICK n \in 1..Len(net[cur].rx) :
        /\ sm'  = [sm EXCEPT ![cur].buf = SubSeq(net[cur].rx, 1, n)]
        /\ net' = [net EXCEPT ![cur].rx = SubSeq(@, n + 1, Len(@))]
  BY DEF Recv
<1> DEFINE b == SubSeq(net[cur].rx, 1, n)
           r == SubSeq(net[cur].rx, n + 1, Len(net[cur].rx))
           m == [sm[cur] EXCEPT !.buf = b]
           t == [net[cur] EXCEPT !.rx = r]
<1>3. sm' = [sm EXCEPT ![cur] = m] /\ net' = [net EXCEPT ![cur] = t]
  BY <1>2
<1>4. b \in Seq(Tokens) /\ r \in Seq(Tokens)
  BY <1>1, SubSeqType DEF Socket
<1> HIDE DEF b, r
<1>5. /\ m \in Parser /\ m.buf = b /\ m.p_state = sm[cur].p_state /\ m.is_close = sm[cur].is_close
      /\ m.status = sm[cur].status
  BY <1>1, <1>4 DEF Parser
<1>6. /\ t \in Socket /\ t.rx = r /\ t.tcp = net[cur].tcp /\ t.srv = net[cur].srv
      /\ t.bad = net[cur].bad /\ t.wire = net[cur].wire /\ t.frag = net[cur].frag
      /\ t.err = net[cur].err
  BY <1>1, <1>4 DEF Socket
<1>7. sm[cur].buf = <<>> /\ UNCHANGED <<pc, cur, sock, call>>
  BY DEF Recv, loopVars
<1> QED BY <1>3, <1>5, <1>6, <1>7 DEF b, r

-----------------------------------------------------------------------------
(* The framing of the fast mode. *)

\* The setting in which leftover is meant to keep the stream framed: the bit
\* field is wide enough for it, and no answer of the kinds of 403 to 406 makes
\* the loop start afresh, with leftover 0, on the same socket.
FastFraming == ENABLE_PIPE /\ G_FAST /\ LEFTOVER_MOD >= ReqSize /\ "keep4" \notin Kinds

Others == Tokens \ {"keep4"}

Unkept == \A c \in Conns : /\ net[c].rx \in Seq(Others) /\ sm[c].buf \in Seq(Others)
                           /\ sm[c].status \in Others \cup {"none"}

EvenAll == \A c \in Conns : Live(net[c]) => Even(net[c], sock[c].leftover)

\* What is received from a server that sends only tokens of T.
LEMMA AlphabetStep ==
  ASSUME PeerTypeOK, NEW d \in Conns, PeerStep(d),
         NEW T, Kinds \subseteq T, "body" \in T, "close4" \in T, net[d].rx \in Seq(T)
  PROVE  \E t \in Socket : net' = [net EXCEPT ![d] = t] /\ t.rx \in Seq(T)
<1> DEFINE s == net[d]
<1>1. s \in Socket
  BY DEF PeerTypeOK
<1>2. ASSUME NEW k \in T PROVE s.rx \o Message(k) \in Seq(T)
  <2>1. <<k>> \in Seq(T) /\ <<k, "body">> \in Seq(T)
    OBVIOUS
  <2> QED BY <2>1 DEF Message
<1>3. CASE AnswerBad(d)
  <2> DEFINE r == s.rx \o Message("close4")
             x == [s EXCEPT !.rx = r]
  <2>1. net' = [net EXCEPT ![d] = Gone(x, "CLOSE_WAIT", "NONE")]
    BY <1>3 DEF AnswerBad, Rejected
  <2>2. r \in Seq(T) /\ r \in Seq(Tokens)
    <3>1. Message("close4") \in Seq(Tokens) /\ s.rx \in Seq(Tokens)
      BY <1>1, MessageType DEF HeadKinds, Socket
    <3> QED BY <1>2, <3>1
  <2> HIDE DEF r
  <2>3. x \in Socket /\ x.rx = r
    BY <1>1, <2>2 DEF Socket
  <2> HIDE DEF x
  <2>4. Gone(x, "CLOSE_WAIT", "NONE") \in Socket
    BY <2>3, GoneType
  <2>5. Gone(x, "CLOSE_WAIT", "NONE").rx = x.rx
    BY <2>3 DEF Gone, Socket
  <2> QED BY <2>1, <2>2, <2>3, <2>4, <2>5
<1>4. CASE ~AnswerBad(d)
  <2>1. PICK t \in Socket : net' = [net EXCEPT ![d] = t] /\ SocketMoves(s, t)
    BY <1>4, StepMovesSocket DEF PeerStep
  <2>2. RxMoves(s.rx, t.rx)
    BY <2>1 DEF SocketMoves
  <2>3. t.rx \in Seq(T)
    <3>1. s.rx \in Seq(T)
      OBVIOUS
    <3>2. ASSUME NEW r, s.rx # <<>>, r = SubSeq(s.rx, 1, Len(s.rx) - 1) PROVE r \in Seq(T)
      <4> DEFINE q == s.rx
      <4>1. q \in Seq(T) /\ q # <<>> /\ r = SubSeq(q, 1, Len(q) - 1)
        BY <3>1, <3>2
      <4> HIDE DEF q
      <4> QED BY <4>1
    <3>3. CASE t.rx = s.rx
      BY <3>1, <3>3
    <3>4. CASE \E k \in Kinds : t.rx = s.rx \o Message(k)
      BY <1>2, <3>4
    <3> QED BY <2>2, <3>2, <3>3, <3>4 DEF RxMoves
  <2> QED BY <2>1, <2>3
<1> QED BY <1>3, <1>4

LEMMA ParseStatus ==
  ASSUME NEW m, NEW t, NEW o \in Parse(m, t) PROVE o.status \in {t, "none", m.status}
BY DEF Parse, Outcome

LEMMA LoopAlphabet ==
  ASSUME IInv, Informed, Program \/ PollFails, NEW T, net[cur].rx \in Seq(T),
         sm[cur].buf \in Seq(T), sm[cur].status \in T \cup {"none"}
  PROVE  /\ net'[cur].rx \in Seq(T) /\ sm'[cur].buf \in Seq(T)
         /\ sm'[cur].status \in T \cup {"none"}
<1>1. /\ cur \in Conns /\ net \in [Conns -> Socket] /\ net[cur] \in Socket
      /\ sm \in [Conns -> Parser] /\ sm[cur] \in Parser /\ sock \in [Conns -> Counters]
  BY Typed
<1>2. CleanParser.buf = <<>> /\ CleanParser.status = "none" /\ NewSocket.rx = <<>>
  BY DEF CleanParser, NewSocket
<1>3. CASE Recv
  <2>1. PICK n \in 1..Len(net[cur].rx) :
           /\ sm'[cur].buf = SubSeq(net[cur].rx, 1, n) /\ sm'[cur].status = sm[cur].status
           /\ net'[cur].rx = SubSeq(net[cur].rx, n + 1, Len(net[cur].rx))
    BY <1>1, <1>3, RecvForm
  <2> DEFINE r == net[cur].rx
  <2>2. r \in Seq(T) /\ n \in 1..Len(r)
    OBVIOUS
  <2> HIDE DEF r
  <2>3. SubSeq(r, 1, n) \in Seq(T) /\ SubSeq(r, n + 1, Len(r)) \in Seq(T)
    BY <2>2, SubSeqType
  <2> QED BY <2>1, <2>3 DEF r
<1>4. CASE ParseToken \/ ParseFinish
  <2>1. sm[cur].buf # <<>> /\ UNCHANGED net
    BY <1>4 DEF ParseToken, ParseFinish
  <2>2. Head(sm[cur].buf) \in T /\ Tail(sm[cur].buf) \in Seq(T)
    BY <2>1, HeadTail
  <2>3. PICK o \in Parse(sm[cur], Head(sm[cur].buf)) :
          \/ sm' = [sm EXCEPT ![cur] = [buf |-> Tail(@.buf), p_state |-> o.p_state,
                                        is_close |-> o.is_close, status |-> o.status]]
          \/ sm' = [sm EXCEPT ![cur] = [CleanParser EXCEPT !.buf = Tail(sm[cur].buf)]]
    BY <1>4 DEF ParseToken, ParseFinish
  <2>4. o.status \in T \cup {"none"}
    BY <2>2, <2>3, ParseStatus
  <2>5. LET c == [CleanParser EXCEPT !.buf = Tail(sm[cur].buf)]
        IN  c.buf = Tail(sm[cur].buf) /\ c.status = "none"
    BY DEF CleanParser
  <2>6. sm'[cur].buf = Tail(sm[cur].buf) /\ sm'[cur].status \in {o.status, "none"}
    <3> DEFINE b == Tail(sm[cur].buf)
               c == [CleanParser EXCEPT !.buf = b]
    <3>1. c.buf = b /\ c.status = "none"
      BY <2>5
    <3> HIDE DEF c, b
    <3>2. \/ sm' = [sm EXCEPT ![cur] = [buf |-> b, p_state |-> o.p_state,
                                        is_close |-> o.is_close, status |-> o.status]]
          \/ sm' = [sm EXCEPT ![cur] = c]
      BY <2>3 DEF b, c
    <3>3. sm'[cur].buf = b /\ sm'[cur].status \in {o.status, "none"}
      BY <1>1, <3>1, <3>2
    <3> QED BY <3>3 DEF b
  <2> QED BY <2>1, <2>2, <2>4, <2>6
<1>5. CASE NothingExpected \/ RecvNothing
  <2>1. UNCHANGED sm /\ (UNCHANGED net \/ net' = [net EXCEPT ![cur] = AfterError(@)])
    BY <1>5 DEF NothingExpected, RecvNothing
  <2>2. AfterError(net[cur]).rx = net[cur].rx
    BY <1>1 DEF AfterError, Socket
  <2> QED BY <1>1, <2>1, <2>2
<1>6. CASE RecvEof
  BY <1>1, <1>2, <1>6 DEF RecvEof, ResetParser
<1>7. CASE ~Receive
  <2>1. Forms
    BY <1>7, StepForms
  <2>2. CASE Rests \/ Credits
    BY <2>2 DEF Rests, Credits
  <2>3. CASE \E k \in Counters : Renews(k) \/ Restarts(k)
    <3>1. /\ sm'[cur] = CleanParser
          /\ UNCHANGED net \/ net'[cur] = NewSocket
      BY <1>1, <2>3 DEF Renews, Restarts
    <3>2. <<>> \in Seq(T)
      OBVIOUS
    <3> QED BY <1>2, <3>1, <3>2
  <2>4. CASE \E n \in Nat : \E try : \E k \in Counters : Writes(n, try, k)
    <3> PICK n \in Nat : \E try : \E k \in Counters : Writes(n, try, k)
      BY <2>4
    <3>1. PICK try : \E k \in Counters : Writes(n, try, k)
      OBVIOUS
    <3>2. try.peer.rx = net[cur].rx
      <4>1. try = Sent(net[cur], sock[cur].leftover, n)
        BY <3>1 DEF Writes
      <4> QED BY <1>1, <4>1 DEF Sent, Socket
    <3> QED BY <1>1, <3>1, <3>2 DEF Writes
  <2> QED BY <2>1, <2>2, <2>3, <2>4 DEF Forms
<1> QED BY <1>3, <1>4, <1>5, <1>6, <1>7 DEF Receive

LEMMA UnkeptNext ==
  ASSUME IInv, Informed, Unkept, "keep4" \notin Kinds, [Next]_vars PROVE Unkept'
<1>1. /\ cur \in Conns /\ net \in [Conns -> Socket] /\ PeerTypeOK
  BY Typed DEF IInv, TypeOK
<1>2. CASE Peer
  <2>1. PICK d \in Conns : PeerStep(d)
    BY <1>2 DEF Peer, FromPeer
  <2>2. Kinds \subseteq Others /\ "body" \in Others /\ "close4" \in Others
    BY PeerAssumption DEF Others, Tokens, HeadKinds
  <2>3. net[d].rx \in Seq(Others)
    BY DEF Unkept
  <2>4. \E t \in Socket : net' = [net EXCEPT ![d] = t] /\ t.rx \in Seq(Others)
    BY <1>1, <2>1, <2>2, <2>3, AlphabetStep
  <2>5. UNCHANGED sm
    BY <1>2 DEF Peer, FromPeer, progVars
  <2> QED BY <1>1, <2>4, <2>5 DEF Unkept
<1>3. CASE Program \/ PollFails
  <2>1. /\ net'[cur].rx \in Seq(Others) /\ sm'[cur].buf \in Seq(Others)
        /\ sm'[cur].status \in Others \cup {"none"}
    <3>1. /\ net[cur].rx \in Seq(Others) /\ sm[cur].buf \in Seq(Others)
          /\ sm[cur].status \in Others \cup {"none"}
      BY <1>1 DEF Unkept
    <3> QED BY <1>3, <3>1, LoopAlphabet
  <2>2. \A c \in Conns : c # cur => net'[c] = net[c] /\ sm'[c] = sm[c]
    BY <1>3, OnlyCurrent
  <2> QED BY <2>1, <2>2 DEF Unkept
<1>4. CASE Finished \/ UNCHANGED vars
  <2>1. UNCHANGED <<net, sm>>
    BY <1>4 DEF Finished, vars, progVars
  <2> QED BY <2>1 DEF Unkept
<1> QED BY <1>2, <1>3, <1>4 DEF Next

LEMMA EvenAllNext ==
  ASSUME IInv, Informed, Unkept, EvenAll, FastFraming, [Next]_vars PROVE EvenAll'
<1>1. /\ cur \in Conns /\ net \in [Conns -> Socket] /\ PeerTypeOK
      /\ sock \in [Conns -> Counters] /\ sock[cur] \in Counters
  BY Typed DEF IInv, TypeOK
<1>2. CASE Peer
  <2>1. PICK d \in Conns : PeerStep(d)
    BY <1>2 DEF Peer, FromPeer
  <2>2. PICK t \in Socket :
          /\ net' = [net EXCEPT ![d] = t]
          /\ Live(t) => Live(net[d]) /\ \A left : Even(net[d], left) => Even(t, left)
    BY <1>1, <2>1, LiveStep
  <2>3. UNCHANGED sock
    BY <1>2 DEF Peer, FromPeer, progVars
  <2> QED BY <1>1, <2>2, <2>3 DEF EvenAll
<1>3. CASE Program \/ PollFails
  <2>1. ASSUME Live(net'[cur]) PROVE Even(net'[cur], sock'[cur].leftover)
    <3>1. CASE Receive
      <4>1. CASE UNCHANGED net
        BY <1>1, <2>1, <3>1, <4>1, ReceiveForms DEF EvenAll
      <4>2. CASE Recv
        <5>1. /\ net'[cur].tcp = net[cur].tcp /\ net'[cur].bad = net[cur].bad
              /\ net'[cur].wire = net[cur].wire /\ net'[cur].frag = net[cur].frag
              /\ sock' = sock
          BY <1>1, <4>2, RecvForm
        <5> QED BY <1>1, <2>1, <5>1 DEF EvenAll, Live, Even
      <4> QED BY <2>1, <3>1, <4>1, <4>2, ReceiveForms
    <3>2. CASE Rests
      BY <1>1, <2>1, <3>2 DEF Rests, EvenAll
    <3>3. CASE Credits
      <4>1. Paid.leftover = sock[cur].leftover
        BY <1>1 DEF Paid, Credited, Me, Counters
      <4> QED BY <1>1, <2>1, <3>3, <4>1 DEF Credits, EvenAll
    <3>4. ASSUME NEW k \in Counters, Renews(k) PROVE Even(net'[cur], sock'[cur].leftover)
      BY <1>1, <3>4, EvenNew DEF Renews
    <3>5. ASSUME NEW k \in Counters, Restarts(k) PROVE Even(net'[cur], sock'[cur].leftover)
      <4>1. sm[cur].status # "keep4"
        BY <1>1 DEF Unkept, Others
      <4> QED BY <1>1, <2>1, <3>5, <4>1 DEF Restarts, EvenAll
    <3>6. ASSUME NEW n \in Nat, NEW try, NEW k \in Counters, Writes(n, try, k)
          PROVE  Even(net'[cur], sock'[cur].leftover)
      <4>1. net'[cur] = try.peer /\ sock'[cur] = k
        BY <1>1, <3>6 DEF Writes
      <4>2. Live(net[cur])
        <5>1. try = Sent(net[cur], sock[cur].leftover, n)
          BY <3>6 DEF Writes
        <5>2. net[cur] \in Socket
          BY <1>1
        <5>3. try.peer.tcp = net[cur].tcp
          BY <5>1, <5>2 DEF Sent, Socket
        <5> QED BY <2>1, <4>1, <5>3 DEF Live
      <4>3. Even(net[cur], sock[cur].leftover)
        BY <1>1, <4>2 DEF EvenAll
      <4>4. Even(try.peer, k.leftover)
        BY <3>6, <4>2, <4>3, WriteEven DEF FastFraming
      <4> QED BY <4>1, <4>4
    <3> QED BY <1>3, <3>1, <3>2, <3>3, <3>4, <3>5, <3>6, StepForms DEF Forms
  <2>2. \A c \in Conns : c # cur => net'[c] = net[c] /\ sock'[c] = sock[c]
    BY <1>3, OnlyCurrent
  <2> QED BY <2>1, <2>2 DEF EvenAll
<1>4. CASE Finished \/ UNCHANGED vars
  <2>1. UNCHANGED <<net, sock>>
    BY <1>4 DEF Finished, vars, progVars
  <2> QED BY <2>1 DEF EvenAll
<1> QED BY <1>2, <1>3, <1>4 DEF Next

LEMMA StreamsInit == Init => Unkept /\ EvenAll
<1> SUFFICES ASSUME Init PROVE Unkept /\ EvenAll
  OBVIOUS
<1>1. NewSocket.rx = <<>> /\ CleanParser.buf = <<>> /\ CleanParser.status = "none"
  BY DEF NewSocket, CleanParser
<1>2. \A c \in Conns : net[c] = NewSocket /\ sm[c] = CleanParser /\ sock[c].leftover = 0
  BY DEF Init, PeerInit
<1>3. Unkept
  <2>1. <<>> \in Seq(Others)
    OBVIOUS
  <2> QED BY <1>1, <1>2, <2>1 DEF Unkept
<1>4. EvenAll
  BY <1>2, EvenNew DEF EvenAll
<1> QED BY <1>3, <1>4

LEMMA InformedInvariant == Spec => []Informed
<1>1. IInv /\ Informed /\ [Next]_vars => Informed'
  BY InformedNext
<1> QED BY <1>1, InformedInit, Invariant, PTL DEF Spec

LEMMA StreamsInvariant == ASSUME FastFraming PROVE Spec => [](Unkept /\ EvenAll)
<1>1. IInv /\ Informed /\ (Unkept /\ EvenAll) /\ [Next]_vars => (Unkept /\ EvenAll)'
  BY UnkeptNext, EvenAllNext DEF FastFraming
<1> QED BY <1>1, StreamsInit, Invariant, InformedInvariant, PTL DEF Spec

\* In the fast mode, with a bit field wide enough for leftover and without the
\* answers of conn_mgnt.c:215-218 that keep the socket, the next send() always goes
\* on in the middle of the request the server has the beginning of: whatever
\* the sizes of requests, bursts and send buffers, and whatever is lost.
THEOREM FastModeKeepsFraming == ASSUME FastFraming PROVE Spec => []FramingKept
<1>1. EvenAll => FramingKept
  BY DEF EvenAll, FramingKept, Live, Even
<1> QED BY <1>1, StreamsInvariant, PTL

-----------------------------------------------------------------------------
(* What the parser makes of its stream. *)

\* A parser is done only from the end of a call to the reset that follows.
DoneIsReset ==
  \A c \in Conns : sm[c].p_state = "DONE"
    => c = cur /\ (pc = "end" \/ (pc = "dispatch" /\ call.rcode # "POLL_DATA"))

PairedAll == \A c \in Conns : Live(net[c]) => Paired(sm[c].p_state, sm[c].buf \o net[c].rx)

\* A token parsed.  o is what the parser makes of it.
ParseForm(o) ==
  /\ pc = "parse" /\ sm[cur].buf # <<>> /\ cur' = cur /\ UNCHANGED <<net, sock>>
  /\ sm'[cur].buf = Tail(sm[cur].buf)
  /\ \/ /\ o.res = "MORE" /\ UNCHANGED <<pc, call>> /\ sm'[cur].p_state = o.p_state
        /\ sm'[cur].is_close = o.is_close
     \/ /\ o.res \in Stops /\ pc' = "dispatch" /\ sm'[cur].p_state = o.p_state
        /\ call'.rcode \notin {"POLL_DATA", "FIN"} /\ call'.fin_resp = call.fin_resp
     \/ /\ o.res = "FINISH" /\ call'.fin_resp = call.fin_resp + 1
        /\ \/ pc' = "parse" /\ sm'[cur].p_state = "VER" /\ ~sm'[cur].is_close
           \/ /\ pc' = "dispatch" /\ sm'[cur].p_state = o.p_state
              /\ sm'[cur].is_close = o.is_close
              /\ call'.rcode = IF o.is_close THEN "CLOSE" ELSE "FIN"

LEMMA ParseForms ==
  ASSUME IInv, ParseToken \/ ParseFinish
  PROVE  \E o \in Parse(sm[cur], Head(sm[cur].buf)) : ParseForm(o)
<1>1. /\ cur \in Conns /\ sm \in [Conns -> Parser] /\ call \in ParserCall
  BY Typed
<1>2. CASE ParseToken
  <2>1. PICK o \in Parse(sm[cur], Head(sm[cur].buf)) :
          /\ o.res # "FINISH"
          /\ sm' = [sm EXCEPT ![cur] = [buf |-> Tail(@.buf), p_state |-> o.p_state,
                                        is_close |-> o.is_close, status |-> o.status]]
          /\ IF o.res = "MORE" THEN UNCHANGED <<pc, call>>
             ELSE ParserReturns(IF o.res = "NOT_SUPPORT" THEN "ERROR" ELSE o.res)
    BY <1>2 DEF ParseToken
  <2>2. /\ pc = "parse" /\ sm[cur].buf # <<>> /\ cur' = cur /\ UNCHANGED <<net, sock>>
    BY <1>2 DEF ParseToken
  <2>3. o.res \in {"MORE", "FINISH"} \cup Stops
    <3>1. Head(sm[cur].buf) \in Tokens
      BY <1>1, <2>2, HeadTail DEF Parser
    <3> QED BY <1>1, <2>1, <3>1, ParseType
  <2>4. /\ sm'[cur].buf = Tail(sm[cur].buf) /\ sm'[cur].p_state = o.p_state
        /\ sm'[cur].is_close = o.is_close
    BY <1>1, <2>1
  <2>5. CASE o.res = "MORE"
    BY <2>1, <2>2, <2>4, <2>5 DEF ParseForm
  <2>6. CASE o.res # "MORE"
    <3> DEFINE rc == IF o.res = "NOT_SUPPORT" THEN "ERROR" ELSE o.res
    <3>1. o.res \in Stops /\ rc \notin {"POLL_DATA", "FIN"}
      BY <2>1, <2>3, <2>6 DEF Stops
    <3>2. pc' = "dispatch" /\ call'.rcode = rc /\ call'.fin_resp = call.fin_resp
      BY <1>1, <2>1, <2>6 DEF ParserReturns, ParserCall
    <3> QED BY <2>2, <2>4, <3>1, <3>2 DEF ParseForm
  <2> QED BY <2>5, <2>6
<1>3. CASE ParseFinish
  <2> DEFINE left == (call.num_reqs + U32_MOD - 1) % U32_MOD
             Rc(o) == IF o.is_close THEN "CLOSE" ELSE IF left = 0 THEN "FIN" ELSE "NONE"
             rest == Tail(sm[cur].buf)
  <2>1. PICK o \in Parse(sm[cur], Head(sm[cur].buf)) :
          /\ o.res = "FINISH"
          /\ call' = [num_reqs |-> left, fin_resp |-> call.fin_resp + 1, rcode |-> Rc(o)]
          /\ sm' = [sm EXCEPT ![cur] =
                      IF Rc(o) = "NONE" THEN [CleanParser EXCEPT !.buf = rest]
                      ELSE [buf |-> rest, p_state |-> o.p_state,
                            is_close |-> o.is_close, status |-> o.status]]
          /\ pc' = IF Rc(o) = "NONE" THEN pc ELSE "dispatch"
    BY <1>3 DEF ParseFinish
  <2>2. /\ pc = "parse" /\ sm[cur].buf # <<>> /\ cur' = cur /\ UNCHANGED <<net, sock>>
    BY <1>3 DEF ParseFinish
  <2> HIDE DEF left
  <2>3. CASE Rc(o) = "NONE"
    <3> DEFINE m == [CleanParser EXCEPT !.buf = rest]
    <3>1. m.buf = rest /\ m.p_state = "VER" /\ ~m.is_close
      BY DEF CleanParser
    <3>2. sm'[cur] = m
      BY <1>1, <2>1, <2>3
    <3> HIDE DEF m
    <3> QED BY <2>1, <2>2, <2>3, <3>1, <3>2 DEF ParseForm
  <2>4. CASE Rc(o) # "NONE"
    <3>1. /\ sm'[cur].buf = rest /\ sm'[cur].p_state = o.p_state /\ sm'[cur].is_close = o.is_close
      BY <1>1, <2>1, <2>4
    <3> QED BY <2>1, <2>2, <2>4, <3>1 DEF ParseForm
  <2> QED BY <2>3, <2>4
<1> QED BY <1>2, <1>3

\* The other ends of a parser call.
ReturnForm ==
  /\ pc = "parse" /\ pc' = "dispatch" /\ cur' = cur /\ UNCHANGED sock
  /\ call'.fin_resp = call.fin_resp /\ sm[cur].buf = <<>>
  /\ \/ call'.rcode = "CLOSE" /\ ~Live(net[cur]) /\ UNCHANGED net
        /\ sm' = [sm EXCEPT ![cur] = CleanParser]
     \/ call'.rcode = "FIN" /\ UNCHANGED <<sm, net>>
     \/ /\ call'.rcode = "POLL_DATA" /\ UNCHANGED sm
        /\ UNCHANGED net \/ (~Live(net[cur]) /\ ~Live(net'[cur]))

LEMMA ReturnForms ==
  ASSUME IInv, NothingExpected \/ RecvEof \/ RecvNothing PROVE ReturnForm
<1>1. call \in ParserCall
  BY Typed
<1>2. CASE NothingExpected
  BY <1>1, <1>2 DEF NothingExpected, ParserReturns, ParserCall, ReturnForm
<1>3. CASE RecvEof
  BY <1>1, <1>3 DEF RecvEof, ParserReturns, ParserCall, ReturnForm, ResetParser, AtEof, Live
<1>4. CASE RecvNothing
  <2>1. UNCHANGED net \/ (~Live(net[cur]) /\ ~Live(net'[cur]))
    BY <1>4, ReceiveForms DEF Receive, Recv, RecvNothing, RecvFails
  <2> QED BY <1>1, <1>4, <2>1 DEF RecvNothing, ParserReturns, ParserCall, ReturnForm
<1> QED BY <1>2, <1>3, <1>4

LEMMA DoneNext == ASSUME IInv, Informed, DoneIsReset, [Next]_vars PROVE DoneIsReset'
<1>1. /\ cur \in Conns /\ sm \in [Conns -> Parser] /\ cur' \in Conns
  <2>1. IInv'
    BY NextInv
  <2> QED BY <2>1, Typed DEF IInv, TypeOK
<1>2. CASE Program \/ PollFails
  <2>1. pc # "end"
    BY <1>2 DEF Program, Receive, Respond, Send, Poll, PollTimeout, PollFails,
       SkipFinished, CheckError, ErrorClose, ParseToken, ParseFinish, NothingExpected, Recv,
       RecvEof, RecvNothing, Dispatch, DispatchPollData, DispatchEnd, DispatchPeerCloses,
       DispatchFinished, DispatchKeep, DispatchAbort, SendNothing, SendOne, StartBurst,
       SendBurst, SendFast
  <2>2. ASSUME NEW c \in Conns, c # cur PROVE sm'[c].p_state # "DONE"
    BY <1>2, <2>2, OnlyCurrent DEF DoneIsReset
  <2>3. CleanParser.p_state # "DONE"
    BY DEF CleanParser
  <2>4. ASSUME sm'[cur].p_state = "DONE"
        PROVE  cur' = cur /\ (pc' = "end" \/ (pc' = "dispatch" /\ call'.rcode # "POLL_DATA"))
    <3>1. CASE ParseToken \/ ParseFinish
      <4>1. PICK o \in Parse(sm[cur], Head(sm[cur].buf)) : ParseForm(o)
        BY <3>1, ParseForms
      <4>2. pc = "parse" /\ cur' = cur
        BY <4>1 DEF ParseForm
      <4>3. sm[cur].p_state # "DONE"
        BY <1>1, <4>2 DEF DoneIsReset
      <4>4. ~ (o.res = "MORE" /\ o.p_state = "DONE")
        BY <4>1, <4>3 DEF Parse, Outcome
      <4> QED BY <2>4, <4>1, <4>2, <4>4 DEF ParseForm
    <3>2. CASE NothingExpected \/ RecvEof \/ RecvNothing
      <4>1. ReturnForm
        BY <3>2, ReturnForms
      <4> QED BY <1>1, <2>3, <2>4, <4>1 DEF ReturnForm, DoneIsReset
    <3>3. CASE Recv
      <4>1. pc = "parse" /\ sm'[cur].p_state = sm[cur].p_state
        BY <1>1, <3>3, RecvForm, ReceiveForms DEF Receive
      <4> QED BY <1>1, <2>4, <4>1 DEF DoneIsReset
    <3>4. CASE ~Receive
      <4>1. Forms
        BY <1>2, <3>4, StepForms
      <4>2. CASE Rests
        BY <1>1, <2>1, <2>4, <4>2 DEF Rests, DoneIsReset
      <4>3. CASE Credits
        BY <1>1, <2>4, <4>3 DEF Credits, DoneIsReset
      <4>4. CASE \E k \in Counters : Renews(k) \/ Restarts(k)
        BY <1>1, <2>3, <2>4, <4>4 DEF Renews, Restarts
      <4>5. CASE \E n \in Nat : \E try : \E k \in Counters : Writes(n, try, k)
        BY <1>1, <2>4, <4>5 DEF Writes, DoneIsReset
      <4> QED BY <4>1, <4>2, <4>3, <4>4, <4>5 DEF Forms
    <3> QED BY <3>1, <3>2, <3>3, <3>4 DEF Receive
  <2> QED BY <1>1, <2>2, <2>4 DEF DoneIsReset
<1>3. CASE Peer \/ Finished \/ UNCHANGED vars
  <2>1. UNCHANGED <<pc, cur, call, sm>>
    BY <1>3 DEF Peer, FromPeer, Finished, vars, progVars, loopVars
  <2> QED BY <2>1 DEF DoneIsReset
<1> QED BY <1>2, <1>3 DEF Next

LEMMA PairedNext ==
  ASSUME IInv, Informed, PairedAll, [Next]_vars PROVE PairedAll'
<1>1. /\ cur \in Conns /\ net \in [Conns -> Socket] /\ PeerTypeOK /\ sm \in [Conns -> Parser]
      /\ sock \in [Conns -> Counters] /\ net[cur] \in Socket /\ sm[cur] \in Parser
  BY Typed DEF IInv, TypeOK
<1>2. ASSUME NEW c \in Conns
      PROVE  /\ net[c].rx \in Seq(Tokens) /\ sm[c].buf \in Seq(Tokens)
             /\ sm[c].buf \o net[c].rx \in Seq(Tokens)
  <2>1. net[c].rx \in Seq(Tokens) /\ sm[c].buf \in Seq(Tokens)
    BY <1>1 DEF Socket, Parser
  <2> QED BY <2>1
<1>3. CASE Peer
  <2>1. PICK d \in Conns : PeerStep(d)
    BY <1>3 DEF Peer, FromPeer
  <2>2. PICK t \in Socket :
          /\ net' = [net EXCEPT ![d] = t]
          /\ Live(t) => /\ Live(net[d])
                        /\ t.rx = net[d].rx \/ \E k \in Kinds : t.rx = net[d].rx \o Message(k)
    BY <1>1, <2>1, LiveStep
  <2>3. UNCHANGED sm
    BY <1>3 DEF Peer, FromPeer, progVars
  <2>4. ASSUME Live(t) PROVE Paired(sm[d].p_state, sm[d].buf \o t.rx)
    <3>1. Paired(sm[d].p_state, sm[d].buf \o net[d].rx)
      BY <2>2, <2>4 DEF PairedAll
    <3>2. CASE t.rx = net[d].rx
      BY <3>1, <3>2
    <3>3. ASSUME NEW k \in Kinds, t.rx = net[d].rx \o Message(k)
          PROVE  Paired(sm[d].p_state, sm[d].buf \o t.rx)
      <4>1. k \in HeadKinds /\ Message(k) \in Seq(Tokens)
        BY PeerAssumption, MessageType
      <4>2. Paired(sm[d].p_state, (sm[d].buf \o net[d].rx) \o Message(k))
        BY <1>2, <3>1, <4>1, PairedMessage
      <4>3. (sm[d].buf \o net[d].rx) \o Message(k) = sm[d].buf \o (net[d].rx \o Message(k))
        <5>1. sm[d].buf \in Seq(Tokens)
          BY <1>2
        <5>2. net[d].rx \in Seq(Tokens)
          BY <1>2
        <5>3. Message(k) \in Seq(Tokens)
          BY <4>1
        <5>4. ASSUME NEW x \in Seq(Tokens), NEW y \in Seq(Tokens), NEW z \in Seq(Tokens)
              PROVE  (x \o y) \o z = x \o (y \o z)
          BY ConcatAssociative
        <5> QED BY <5>1, <5>2, <5>3, <5>4
      <4> QED BY <3>3, <4>2, <4>3
    <3> QED BY <2>2, <2>4, <3>2, <3>3
  <2> QED BY <1>1, <2>2, <2>3, <2>4 DEF PairedAll
<1>4. CASE Program \/ PollFails
  <2> DEFINE b == sm[cur].buf
             r == net[cur].rx
  <2>1. b \in Seq(Tokens) /\ r \in Seq(Tokens) /\ b \o r \in Seq(Tokens)
    BY <1>1, <1>2
  <2>2. ASSUME Live(net'[cur]) PROVE Paired(sm'[cur].p_state, sm'[cur].buf \o net'[cur].rx)
    <3>0. Live(net[cur]) => Paired(sm[cur].p_state, b \o r)
      BY <1>1 DEF PairedAll
    <3> HIDE DEF b, r
    <3>1. CASE ParseToken \/ ParseFinish
      <4>1. PICK o \in Parse(sm[cur], Head(b)) : ParseForm(o)
        BY <3>1, ParseForms DEF b
      <4>2. /\ b # <<>> /\ net' = net /\ sm'[cur].buf = Tail(b)
            /\ sm'[cur].p_state \in {o.p_state, "VER"}
        BY <4>1 DEF ParseForm, b
      <4>3. b \o r # <<>> /\ Head(b \o r) = Head(b) /\ Tail(b \o r) = Tail(b) \o r
        BY <2>1, <4>2, StreamFacts
      <4>4. Paired(sm[cur].p_state, b \o r)
        BY <2>2, <3>0, <4>2
      <4>5. ASSUME sm'[cur].p_state = "BODY" PROVE Head(b \o r) \in Openers
        <5>1. o.p_state = "BODY"
          BY <4>2, <4>5
        <5>2. CASE Head(b) \in {"ok", "close"}
          BY <4>3, <5>2 DEF Openers, HeadKinds
        <5>3. CASE sm[cur].p_state = "BODY" /\ Head(b) # "body"
          <6>1. 0 \in 0..Len(b \o r) /\ Head(b \o r) = (b \o r)[0 + 1]
            BY <2>1, <4>3
          <6>2. (b \o r)[0 + 1] = "body"
            BY <4>4, <5>3, <6>1 DEF Paired
          <6> QED BY <4>3, <5>3, <6>1, <6>2
        <5> QED BY <5>1, <5>2, <5>3, ParseBody
      <4>6. Paired(sm'[cur].p_state, Tail(b \o r))
        BY <2>1, <4>3, <4>4, <4>5, PairedTail
      <4> QED BY <4>2, <4>3, <4>6 DEF r
    <3>2. CASE NothingExpected \/ RecvEof \/ RecvNothing
      <4>1. ReturnForm
        BY <3>2, ReturnForms
      <4>2. UNCHANGED <<sm, net>>
        BY <2>2, <4>1 DEF ReturnForm
      <4> QED BY <2>2, <3>0, <4>2 DEF b, r
    <3>3. CASE Recv
      <4>1. PICK n \in 1..Len(r) :
              /\ sm'[cur].buf = SubSeq(r, 1, n) /\ net'[cur].rx = SubSeq(r, n + 1, Len(r))
              /\ sm'[cur].p_state = sm[cur].p_state /\ net'[cur].tcp = net[cur].tcp /\ b = <<>>
        BY <1>1, <3>3, RecvForm DEF r, b
      <4>2. SubSeq(r, 1, n) \o SubSeq(r, n + 1, Len(r)) = r /\ b \o r = r
        BY <2>1, <4>1, ReceivedStream, StreamFacts
      <4> QED BY <2>2, <3>0, <4>1, <4>2 DEF Live
    <3>4. CASE ~Receive
      <4>1. Forms
        BY <1>4, <3>4, StepForms
      <4>2. CASE Rests \/ Credits
        BY <2>2, <3>0, <4>2 DEF Rests, Credits, b, r
      <4>3. ASSUME NEW k \in Counters, Renews(k)
            PROVE  Paired(sm'[cur].p_state, sm'[cur].buf \o net'[cur].rx)
        <5>1. sm'[cur] = CleanParser /\ net'[cur] = NewSocket
          BY <1>1, <4>3 DEF Renews
        <5>2. CleanParser.buf \o NewSocket.rx = <<>> /\ CleanParser.p_state = "VER"
          BY DEF CleanParser, NewSocket
        <5> QED BY <5>1, <5>2 DEF Paired
      <4>4. ASSUME NEW k \in Counters, Restarts(k)
            PROVE  Paired(sm'[cur].p_state, sm'[cur].buf \o net'[cur].rx)
        <5>1. sm'[cur] = CleanParser /\ net'[cur].rx = r /\ Live(net[cur])
          BY <1>1, <2>2, <4>4 DEF Restarts, r
        <5>2. CleanParser.buf \o r = r /\ CleanParser.p_state = "VER"
          BY <2>1, StreamFacts DEF CleanParser
        <5>3. Paired("VER", r)
          BY <2>1, <3>0, <5>1, PairedRest
        <5> QED BY <5>1, <5>2, <5>3
      <4>5. ASSUME NEW n \in Nat, NEW try, NEW k \in Counters, Writes(n, try, k)
            PROVE  Paired(sm'[cur].p_state, sm'[cur].buf \o net'[cur].rx)
        <5>1. try = Sent(net[cur], sock[cur].leftover, n) /\ net'[cur] = try.peer /\ sm' = sm
          BY <1>1, <4>5 DEF Writes
        <5>2. try.peer.rx = net[cur].rx /\ try.peer.tcp = net[cur].tcp
          BY <1>1, <5>1 DEF Sent, Socket
        <5> QED BY <2>2, <3>0, <5>1, <5>2 DEF Live, b, r
      <4> QED BY <4>1, <4>2, <4>3, <4>4, <4>5 DEF Forms
    <3> QED BY <3>1, <3>2, <3>3, <3>4 DEF Receive
  <2>3. \A c \in Conns : c # cur => net'[c] = net[c] /\ sm'[c] = sm[c]
    BY <1>4, OnlyCurrent
  <2> QED BY <2>2, <2>3 DEF PairedAll
<1>5. CASE Finished \/ UNCHANGED vars
  <2>1. UNCHANGED <<net, sm>>
    BY <1>5 DEF Finished, vars, progVars
  <2> QED BY <2>1 DEF PairedAll
<1> QED BY <1>3, <1>4, <1>5 DEF Next

LEMMA ParsingInvariant == Spec => [](DoneIsReset /\ PairedAll)
<1>1. IInv /\ Informed /\ (DoneIsReset /\ PairedAll) /\ [Next]_vars => (DoneIsReset /\ PairedAll)'
  BY DoneNext, PairedNext
<1>2. Init => DoneIsReset /\ PairedAll
  <2> SUFFICES ASSUME Init PROVE DoneIsReset /\ PairedAll
    OBVIOUS
  <2>1. \A c \in Conns : net[c] = NewSocket /\ sm[c] = CleanParser
    BY DEF Init, PeerInit
  <2>2. CleanParser.buf \o NewSocket.rx = <<>> /\ CleanParser.p_state = "VER"
    BY DEF CleanParser, NewSocket
  <2>3. DoneIsReset
    BY <2>1, <2>2 DEF DoneIsReset
  <2>4. \A c \in Conns : Paired(sm[c].p_state, sm[c].buf \o net[c].rx)
    <3>1. Paired("VER", <<>>)
      BY DEF Paired
    <3> QED BY <2>1, <2>2, <3>1
  <2> QED BY <2>3, <2>4 DEF PairedAll
<1> QED BY <1>1, <1>2, Invariant, InformedInvariant, PTL DEF Spec

-----------------------------------------------------------------------------
(* Requests that count as unanswered, and the answers that can settle them. *)

\* A response whose head is parsed has been told by its head already.
Reading(p, E) == IF p = "BODY" /\ E = HeadKinds THEN 1 ELSE 0

\* The answers, told by their tokens in E, that a parser m on the socket s can
\* still finish.
Coming(m, s, E) == Occurrences(m.buf, E) + Reading(m.p_state, E) + ToCome(s, E)

\* The requests of c not answered by what the parser has finished so far.
Due(c) == IF c = cur /\ pc \in {"parse", "dispatch"} THEN sock[c].sent_req - call.fin_resp
          ELSE sock[c].sent_req

\* The current connection, once its parser call ends in an answer.
Settling(c) == c = cur /\ (pc = "end" \/ (pc = "dispatch" /\ call.rcode # "POLL_DATA"))

RealAll ==
  \A c \in Conns : Live(net[c]) /\ ~Settling(c) => Due(c) <= Coming(sm[c], net[c], HeadKinds)

LEMMA ComingType ==
  ASSUME NEW m, m.buf \in Seq(Tokens), NEW s \in Socket, NEW E
  PROVE  /\ Occurrences(m.buf, E) \in Nat /\ ToCome(s, E) \in Nat
         /\ Reading(m.p_state, E) \in {0, 1} /\ Coming(m, s, E) \in Nat
<1>1. Occurrences(m.buf, E) \in Nat /\ ToCome(s, E) \in Nat
  BY OccType, ToComeType
<1>2. Reading(m.p_state, E) \in {0, 1}
  BY DEF Reading
<1> QED BY <1>1, <1>2 DEF Coming

\* In a stream where every head that announces a body is followed by it, each
\* token parsed takes away nothing that is still to come, or one answer.
LEMMA ParseHeads ==
  ASSUME NEW m, m.buf \in Seq(Tokens), m.buf # <<>>, m.p_state \in {"VER", "BODY", "GARB"},
         NEW r \in Seq(Tokens), Paired(m.p_state, m.buf \o r), NEW o \in Parse(m, Head(m.buf)),
         NEW n, n.buf = Tail(m.buf), NEW s \in Socket
  PROVE  /\ o.res = "MORE" /\ n.p_state = o.p_state
            => Coming(n, s, HeadKinds) = Coming(m, s, HeadKinds)
         /\ o.res = "FINISH" /\ n.p_state = "VER"
            => Coming(n, s, HeadKinds) = Coming(m, s, HeadKinds) - 1
<1> DEFINE t == Head(m.buf)
           p == m.p_state
           a == Occurrences(m.buf, HeadKinds)
           b == Occurrences(n.buf, HeadKinds)
<1>1. /\ t \in Tokens /\ n.buf \in Seq(Tokens) /\ a = b + (IF t \in HeadKinds THEN 1 ELSE 0)
  BY OccTail
<1>2. a \in Nat /\ b \in Nat /\ ToCome(s, HeadKinds) \in Nat
  BY <1>1, ComingType
<1>3. p = "BODY" => t = "body"
  <2>1. m.buf \o r # <<>> /\ Head(m.buf \o r) = t /\ m.buf \o r \in Seq(Tokens)
    BY StreamFacts
  <2>2. 0 \in 0..Len(m.buf \o r) /\ Head(m.buf \o r) = (m.buf \o r)[0 + 1]
    BY <2>1
  <2> QED BY <2>1, <2>2 DEF Paired
<1>4. "body" \notin HeadKinds
  BY DEF HeadKinds
<1> HIDE DEF a, b
<1>5. ASSUME o.res = "MORE"
      PROVE  \/ p # "BODY" /\ t \in HeadKinds /\ o.p_state = "BODY"
             \/ p # "BODY" /\ t \notin HeadKinds /\ o.p_state # "BODY"
  <2>1. CASE p = "BODY"
    BY <1>3, <1>5, <2>1 DEF Parse, Outcome
  <2>2. CASE p = "GARB"
    BY <1>1, <1>4, <1>5, <2>2 DEF Parse, Outcome, HeadKinds, Tokens
  <2>3. CASE p = "VER" /\ t = "body"
    <3>1. o.p_state \in {"VER", "GARB"}
      BY <2>3 DEF Parse, Outcome
    <3> QED BY <1>4, <2>3, <3>1
  <2>4. CASE p = "VER" /\ t # "body"
    <3>1. t \in HeadKinds
      BY <1>1, <2>4 DEF Tokens
    <3>2. o.p_state = "BODY"
      BY <1>5, <2>4, <3>1 DEF Parse, Outcome, HeadKinds
    <3> QED BY <2>4, <3>1, <3>2
  <2> QED BY <2>1, <2>2, <2>3, <2>4
<1>6. ASSUME o.res = "FINISH"
      PROVE  (p = "BODY" /\ t \notin HeadKinds) \/ (p # "BODY" /\ t \in HeadKinds)
  BY <1>3, <1>4, <1>6 DEF Parse, Outcome, HeadKinds
<1>7. Coming(m, s, HeadKinds) = a + (IF p = "BODY" THEN 1 ELSE 0) + ToCome(s, HeadKinds)
  BY DEF Coming, Reading, a
<1>8. Coming(n, s, HeadKinds) = b + (IF n.p_state = "BODY" THEN 1 ELSE 0) + ToCome(s, HeadKinds)
  BY DEF Coming, Reading, b
<1> QED BY <1>1, <1>2, <1>5, <1>6, <1>7, <1>8

LEMMA RealPeer ==
  ASSUME IInv, EvenAll, RealAll, Peer PROVE RealAll'
<1>1. PeerTypeOK /\ net \in [Conns -> Socket] /\ sm \in [Conns -> Parser]
  BY Typed DEF IInv, TypeOK
<1>2. UNCHANGED <<pc, cur, call, sock, sm>>
  BY DEF Peer, FromPeer, progVars, loopVars
<1>3. PICK d \in Conns : PeerStep(d)
  BY DEF Peer, FromPeer
<1>4. PICK t \in Socket :
        /\ net' = [net EXCEPT ![d] = t]
        /\ Live(t) => /\ Live(net[d])
                      /\ \A left : Even(net[d], left) =>
                           \A E \in OneEach : ToCome(t, E) = ToCome(net[d], E)
  BY <1>1, <1>3, LiveStep
<1>5. ASSUME NEW c \in Conns, Live(net'[c])
      PROVE  Live(net[c]) /\ ToCome(net'[c], HeadKinds) = ToCome(net[c], HeadKinds)
  <2>1. HeadKinds \in OneEach
    BY DEF OneEach
  <2>2. CASE c = d
    BY <1>1, <1>4, <1>5, <2>1, <2>2 DEF EvenAll
  <2>3. CASE c # d
    BY <1>1, <1>4, <1>5, <2>3
  <2> QED BY <2>2, <2>3
<1> SUFFICES ASSUME NEW c \in Conns, Live(net'[c]), ~Settling(c)'
             PROVE  Due(c)' <= Coming(sm'[c], net'[c], HeadKinds)
  BY DEF RealAll
<1>6. Due(c)' = Due(c) /\ ~Settling(c)
  BY <1>2 DEF Due, Settling
<1>7. Coming(sm'[c], net'[c], HeadKinds) = Coming(sm[c], net[c], HeadKinds)
  BY <1>2, <1>5 DEF Coming
<1> QED BY <1>5, <1>6, <1>7 DEF RealAll

LEMMA RealReceive ==
  ASSUME IInv, DoneIsReset, PairedAll, RealAll, Receive, NEW c \in Conns, c = cur,
         Live(net'[cur]), ~Settling(c)'
  PROVE  Due(c)' <= Coming(sm'[cur], net'[cur], HeadKinds)
<1>1. /\ cur \in Conns /\ net[cur] \in Socket /\ sm[cur] \in Parser
      /\ net \in [Conns -> Socket] /\ sm \in [Conns -> Parser]
      /\ sock[cur].sent_req \in Nat /\ call.fin_resp \in Nat
  BY Typed DEF Counters, ParserCall
<1>2. pc = "parse" /\ sock' = sock /\ cur' = cur /\ pc' \in {"parse", "dispatch"}
  BY ReceiveForms
<1>3. Due(cur) = sock[cur].sent_req - call.fin_resp /\ Due(c)' = sock[cur].sent_req - call'.fin_resp
  BY <1>2 DEF Due
<1>4. Live(net[cur]) => Due(cur) <= Coming(sm[cur], net[cur], HeadKinds)
  BY <1>1, <1>2 DEF RealAll, Settling
<1>5. /\ sm[cur].buf \in Seq(Tokens) /\ net[cur].rx \in Seq(Tokens) /\ sm[cur].p_state # "DONE"
  BY <1>1, <1>2 DEF Parser, Socket, DoneIsReset
<1>6. CASE ParseToken \/ ParseFinish
  <2>1. PICK o \in Parse(sm[cur], Head(sm[cur].buf)) : ParseForm(o)
    BY <1>6, ParseForms
  <2>2. Live(net[cur]) /\ net' = net /\ sm[cur].buf # <<>> /\ sm'[cur].buf = Tail(sm[cur].buf)
    BY <2>1 DEF ParseForm
  <2>3. Paired(sm[cur].p_state, sm[cur].buf \o net[cur].rx)
    BY <1>1, <2>2 DEF PairedAll
  <2>4. /\ o.res = "MORE" /\ sm'[cur].p_state = o.p_state
           => Coming(sm'[cur], net[cur], HeadKinds) = Coming(sm[cur], net[cur], HeadKinds)
        /\ o.res = "FINISH" /\ sm'[cur].p_state = "VER"
           => Coming(sm'[cur], net[cur], HeadKinds) = Coming(sm[cur], net[cur], HeadKinds) - 1
    <3> DEFINE m == sm[cur]
               r == net[cur].rx
               s == net[cur]
               n == sm'[cur]
    <3>1. m.buf \in Seq(Tokens)
      BY <1>5
    <3>2. m.buf # <<>>
      BY <2>2
    <3>3. m.p_state \in {"VER", "BODY", "GARB"}
      BY <1>1, <1>5 DEF Parser, ParserStates
    <3>4. r \in Seq(Tokens)
      BY <1>5
    <3>5. Paired(m.p_state, m.buf \o r)
      BY <2>3
    <3>6. n.buf = Tail(m.buf)
      BY <2>2
    <3>7. s \in Socket
      BY <1>1
    <3>8. o \in Parse(m, Head(m.buf))
      OBVIOUS
    <3> HIDE DEF m, r, s, n
    <3>9. /\ o.res = "MORE" /\ n.p_state = o.p_state
             => Coming(n, s, HeadKinds) = Coming(m, s, HeadKinds)
          /\ o.res = "FINISH" /\ n.p_state = "VER"
             => Coming(n, s, HeadKinds) = Coming(m, s, HeadKinds) - 1
      BY <3>1, <3>2, <3>3, <3>4, <3>5, <3>6, <3>7, <3>8, ParseHeads
    <3> QED BY <3>9 DEF m, s, n
  <2>5. Coming(sm[cur], net[cur], HeadKinds) \in Nat
    BY <1>1, <1>5, ComingType
  <2>6. pc' = "dispatch" => call'.rcode = "POLL_DATA"
    BY <1>2 DEF Settling
  <2>7. \/ /\ o.res = "MORE" /\ sm'[cur].p_state = o.p_state /\ call' = call
        \/ /\ o.res = "FINISH" /\ sm'[cur].p_state = "VER" /\ call'.fin_resp = call.fin_resp + 1
    BY <2>1, <2>6 DEF ParseForm
  <2> QED BY <1>1, <1>3, <1>4, <2>2, <2>4, <2>5, <2>7
<1>7. CASE NothingExpected \/ RecvEof \/ RecvNothing
  <2>1. ReturnForm
    BY <1>7, ReturnForms
  <2>2. call'.rcode = "POLL_DATA" /\ call'.fin_resp = call.fin_resp /\ UNCHANGED sm /\ UNCHANGED net
    BY <1>2, <2>1 DEF ReturnForm, Settling
  <2> QED BY <1>3, <1>4, <2>2
<1>8. CASE Recv
  <2>1. PICK n \in 1..Len(net[cur].rx) :
          /\ sm'[cur].buf = SubSeq(net[cur].rx, 1, n)
          /\ net'[cur].rx = SubSeq(net[cur].rx, n + 1, Len(net[cur].rx))
          /\ sm[cur].buf = <<>> /\ call' = call /\ sm'[cur].p_state = sm[cur].p_state
          /\ net'[cur].tcp = net[cur].tcp /\ net'[cur].srv = net[cur].srv
          /\ net'[cur].wire = net[cur].wire
    BY <1>1, <1>8, RecvForm
  <2> DEFINE b == SubSeq(net[cur].rx, 1, n)
             r == SubSeq(net[cur].rx, n + 1, Len(net[cur].rx))
             O(x) == Occurrences(x, HeadKinds)
  <2>2. /\ b \in Seq(Tokens) /\ r \in Seq(Tokens) /\ O(net[cur].rx) = O(b) + O(r)
    <3>1. n \in 0..Len(net[cur].rx)
      BY <2>1
    <3> QED BY <1>5, <3>1, OccSplit
  <2>3. O(b) \in Nat /\ O(r) \in Nat /\ O(<<>>) = 0
    BY <2>2, OccType, OccEmpty
  <2>4. Live(net[cur])
    BY <2>1 DEF Live
  <2> HIDE DEF b, r
  <2>5. Coming(sm'[cur], net'[cur], HeadKinds) = Coming(sm[cur], net[cur], HeadKinds)
    <3>1. /\ Occurrences(net[cur].wire, {ReqSize}) \in Nat /\ net[cur].srv \in Nat
          /\ Reading(sm[cur].p_state, HeadKinds) \in {0, 1}
      BY <1>1, ToComeType DEF Reading
    <3> QED BY <2>1, <2>2, <2>3, <3>1 DEF Coming, ToCome, Reading, b, r
  <2> QED BY <1>3, <1>4, <2>1, <2>4, <2>5
<1> QED BY <1>6, <1>7, <1>8 DEF Receive

LEMMA RealLoop ==
  ASSUME IInv, Informed, EvenAll, RealAll, FastFraming, Program \/ PollFails, ~Receive,
         NEW c \in Conns, c = cur, Live(net'[cur]), ~Settling(c)'
  PROVE  Due(c)' <= Coming(sm'[cur], net'[cur], HeadKinds)
<1>1. /\ cur \in Conns /\ net[cur] \in Socket /\ sm[cur] \in Parser /\ cur' \in Conns
      /\ net \in [Conns -> Socket] /\ sm \in [Conns -> Parser] /\ sock \in [Conns -> Counters]
      /\ sock[cur] \in Counters /\ sock[cur].sent_req \in Nat /\ call.fin_resp \in Nat
  <2>1. IInv'
    BY NextInv DEF Next
  <2> QED BY <2>1, Typed DEF IInv, TypeOK, Counters, ParserCall
<1>2. Forms /\ Apart
  BY StepForms
<1>3. Due(c)' = sock'[cur].sent_req
  <2>1. sock'[cur].sent_req \in Nat
    <3>1. IInv'
      BY NextInv DEF Next
    <3> QED BY <1>1, <3>1 DEF IInv, TypeOK, Counters
  <2> QED BY <1>2, <2>1 DEF Due, Apart
<1>4. pc # "end" /\ (pc # "parse")
  BY DEF Program, Receive, Respond, Send, Poll, PollTimeout, PollFails,
     SkipFinished, CheckError, ErrorClose, Dispatch, DispatchPollData, DispatchEnd, DispatchPeerCloses,
     DispatchFinished, DispatchKeep, DispatchAbort, SendNothing, SendOne, StartBurst,
     SendBurst, SendFast
<1>5. sm[cur].buf \in Seq(Tokens)
  BY <1>1 DEF Parser
<1>6. Live(net[cur]) /\ ~(pc = "dispatch" /\ call.rcode # "POLL_DATA")
      => Due(cur) <= Coming(sm[cur], net[cur], HeadKinds)
  BY <1>1, <1>4 DEF RealAll, Settling
<1>7. CASE Rests
  <2>1. Due(cur) = sock[cur].sent_req /\ pc # "dispatch"
    BY <1>7 DEF Rests, Due
  <2> QED BY <1>3, <1>6, <1>7, <2>1 DEF Rests
<1>8. CASE Credits
  <2>1. call.rcode = "POLL_DATA" /\ Due(cur) = sock[cur].sent_req - call.fin_resp
    BY <1>8 DEF Credits, Settling, Due
  <2>2. sock'[cur] = Paid /\ UNCHANGED <<sm, net>>
    BY <1>1, <1>8 DEF Credits
  <2>3. Paid.sent_req = sock[cur].sent_req - call.fin_resp
    <3>1. call.fin_resp <= sock[cur].sent_req /\ sock[cur].sent_req <= sock[cur].unsent_req
      BY <1>1, <1>8 DEF Credits, IInv, NeverNegative, Accounting
    <3> QED BY <1>1, <3>1, CreditedType DEF Paid, Me
  <2> QED BY <1>3, <1>6, <2>1, <2>2, <2>3
<1>9. ASSUME NEW k \in Counters, Renews(k) \/ Restarts(k)
      PROVE  Due(c)' <= Coming(sm'[cur], net'[cur], HeadKinds)
  <2>1. Due(c)' = 0
    BY <1>1, <1>3, <1>9 DEF Renews, Restarts
  <2>2. sm'[cur] = CleanParser /\ net'[cur] \in Socket
    BY <1>1, <1>9, NewSocketType DEF Renews, Restarts
  <2>3. CleanParser.buf \in Seq(Tokens)
    BY DEF CleanParser
  <2> QED BY <2>1, <2>2, <2>3, ComingType
<1>10. ASSUME NEW n \in Nat, NEW try, NEW k \in Counters, Writes(n, try, k)
       PROVE  Due(c)' <= Coming(sm'[cur], net'[cur], HeadKinds)
  <2>1. net'[cur] = try.peer /\ sock'[cur] = k /\ sm' = sm /\ pc \in {"send", "burst"}
    BY <1>1, <1>10 DEF Writes
  <2>2. Live(net[cur])
    <3>1. try = Sent(net[cur], sock[cur].leftover, n)
      BY <1>10 DEF Writes
    <3>2. try.peer.tcp = net[cur].tcp
      BY <1>1, <3>1 DEF Sent, Socket
    <3> QED BY <2>1, <3>2 DEF Live
  <2>3. Even(net[cur], sock[cur].leftover)
    BY <1>1, <2>2 DEF EvenAll
  <2>4. HeadKinds \in OneEach
    BY DEF OneEach
  <2>5. PICK d \in Nat : /\ k.sent_req = sock[cur].sent_req + d
                         /\ ToCome(try.peer, HeadKinds) = ToCome(net[cur], HeadKinds) + d
    BY <1>10, <2>2, <2>3, <2>4, WriteEven DEF FastFraming
  <2>6. Due(cur) = sock[cur].sent_req
    BY <2>1 DEF Due
  <2>7. /\ Occurrences(sm[cur].buf, HeadKinds) \in Nat /\ ToCome(net[cur], HeadKinds) \in Nat
        /\ Reading(sm[cur].p_state, HeadKinds) \in {0, 1}
    BY <1>1, <1>5, ComingType
  <2> QED BY <1>1, <1>3, <1>6, <2>1, <2>2, <2>5, <2>6, <2>7 DEF Coming
<1> QED BY <1>2, <1>7, <1>8, <1>9, <1>10 DEF Forms

LEMMA RealNext ==
  ASSUME IInv, Informed, EvenAll, DoneIsReset, PairedAll, RealAll, FastFraming, [Next]_vars
  PROVE  RealAll'
<1>1. CASE Peer
  BY <1>1, RealPeer
<1>2. CASE Program \/ PollFails
  <2> SUFFICES ASSUME NEW c \in Conns, Live(net'[c]), ~Settling(c)'
               PROVE  Due(c)' <= Coming(sm'[c], net'[c], HeadKinds)
    BY DEF RealAll
  <2>1. CASE c = cur
    <3>1. Live(net'[cur])
      BY <2>1
    <3>2. CASE Receive
      BY <2>1, <3>1, <3>2, RealReceive
    <3>3. CASE ~Receive
      BY <1>2, <2>1, <3>1, <3>3, RealLoop
    <3> QED BY <2>1, <3>2, <3>3
  <2>2. CASE c # cur
    <3>1. sock'[c] = sock[c] /\ sm'[c] = sm[c] /\ net'[c] = net[c]
      BY <1>2, <2>2, OnlyCurrent
    <3>2. Due(c) = sock[c].sent_req /\ ~Settling(c)
      BY <2>2 DEF Due, Settling
    <3>3. Due(c)' = sock[c].sent_req
      <4>1. CASE Receive
        <5>1. cur' = cur
          BY <4>1, ReceiveForms
        <5> QED BY <2>2, <3>1, <5>1 DEF Due
      <4>2. CASE ~Receive
        <5>1. Apart
          BY <1>2, <4>2, StepForms
        <5>2. sock[c].sent_req \in Nat
          BY Typed DEF Counters
        <5> QED BY <3>1, <5>1, <5>2 DEF Due, Apart
      <4> QED BY <4>1, <4>2
    <3> QED BY <3>1, <3>2, <3>3 DEF RealAll
  <2> QED BY <2>1, <2>2
<1>3. CASE Finished \/ UNCHANGED vars
  <2>1. UNCHANGED <<pc, cur, call, sock, sm, net>>
    BY <1>3 DEF Finished, vars, progVars, loopVars
  <2> QED BY <2>1 DEF RealAll, Due, Settling
<1> QED BY <1>1, <1>2, <1>3 DEF Next

LEMMA RealInvariant == ASSUME FastFraming PROVE Spec => []RealAll
<1>1. IInv /\ Informed /\ (Unkept /\ EvenAll) /\ (DoneIsReset /\ PairedAll) /\ RealAll /\ [Next]_vars
        => RealAll'
  <2> SUFFICES ASSUME IInv, Informed, Unkept, EvenAll, DoneIsReset, PairedAll, RealAll, [Next]_vars
               PROVE  RealAll'
    OBVIOUS
  <2> QED BY RealNext
<1>2. Init => RealAll
  <2> SUFFICES ASSUME Init PROVE RealAll
    OBVIOUS
  <2>1. \A c \in Conns : Due(c) = 0 /\ sm[c] = CleanParser /\ net[c] = NewSocket
    BY DEF Init, PeerInit, Due
  <2>2. Coming(CleanParser, NewSocket, HeadKinds) \in Nat
    <3>1. CleanParser.buf \in Seq(Tokens)
      BY DEF CleanParser
    <3> QED BY <3>1, NewSocketType, ComingType
  <2> QED BY <2>1, <2>2 DEF RealAll
<1> QED BY <1>1, <1>2, Invariant, InformedInvariant, StreamsInvariant, ParsingInvariant, PTL DEF Spec

\* In the same setting, every request that counts as unanswered on a live
\* connection is whole on its way, at the server, or answered by bytes not
\* parsed yet: none is counted that the server has only a part of, and none is
\* forgotten by the server, so that poll() always has an answer to wait for.
THEOREM UnansweredStaysReal == ASSUME FastFraming PROVE Spec => []UnansweredIsReal
<1>1. IInv /\ RealAll => UnansweredIsReal
  <2> SUFFICES ASSUME IInv, RealAll, NEW c \in Conns,
                      net[c].tcp \in {"SYN_SENT", "ESTABLISHED"},
                      ~(pc \in {"parse", "dispatch", "end"} /\ c = cur)
               PROVE  sock[c].sent_req <= InNetwork(c) + Unread(c)
    BY DEF UnansweredIsReal
  <2>1. Due(c) = sock[c].sent_req /\ ~Settling(c) /\ Live(net[c])
    BY DEF Due, Settling, Live
  <2>2. sock[c].sent_req <= Coming(sm[c], net[c], HeadKinds)
    BY <2>1 DEF RealAll
  <2>3. /\ Occurrences(sm[c].buf, HeadKinds) \in Nat /\ net[c].srv \in Nat
        /\ Occurrences(net[c].wire, {ReqSize}) \in Nat /\ Occurrences(net[c].rx, HeadKinds) \in Nat
    <3>1. net[c] \in Socket /\ sm[c].buf \in Seq(Tokens)
      BY Typed DEF Parser
    <3> QED BY <3>1, ToComeType, OccType
  <2>4. Coming(sm[c], net[c], HeadKinds) = InNetwork(c) + Unread(c)
    BY <2>3 DEF Coming, Reading, ToCome, InNetwork, Unread
  <2> QED BY <2>2, <2>4
<1> QED BY <1>1, Invariant, RealInvariant, PTL

-----------------------------------------------------------------------------
(* Retries, and the faults that pay for them. *)

Plain == Friendly \cup {"body"}

\* Parser m and socket s, its stream cut at left units into a request, have met
\* nothing that costs a fault, and no more answers are to come than are due.
CalmAt(m, s, due, left) ==
  /\ Live(s) /\ Even(s, left)
  /\ m.buf \in Seq(Plain) /\ s.rx \in Seq(Plain) /\ ~m.is_close
  /\ m.p_state \in {"VER", "BODY", "DONE"} /\ Framed(m.p_state, m.buf \o s.rx)
  /\ \A E \in OneEach : Coming(m, s, E) <= due

Calm(c) == /\ CalmAt(sm[c], net[c], Due(c), sock[c].leftover)
           /\ c = cur /\ pc = "dispatch" => call.rcode \in {"POLL_DATA", "FIN"}

\* The retries of each connection, with the one its socket may still cause.
Cost == [c \in Conns |-> sock[c].retry_conn_num + (IF Calm(c) THEN 0 ELSE 1)]

CostPaid == Tally(Conns, Cost) <= MaxFaults - faults

\* Every request is sent whole: requests of one unit; the fast mode, with a bit
\* field wide enough for leftover; or a send buffer that takes a request,
\* where only one is in flight.
Whole == \/ ReqSize = 1
         \/ ENABLE_PIPE /\ G_FAST /\ LEFTOVER_MOD >= ReqSize
         \/ ~ENABLE_PIPE /\ ReqSize <= SndCap

LEMMA PlainType == ASSUME NEW s \in Seq(Plain) PROVE s \in Seq(Tokens)
<1>1. Plain \subseteq Tokens
  BY DEF Plain, Friendly, Tokens, HeadKinds
<1> QED BY <1>1

LEMMA CalmNew == CalmAt(CleanParser, NewSocket, 0, 0)
<1>1. /\ CleanParser.buf = <<>> /\ CleanParser.p_state = "VER" /\ ~CleanParser.is_close
      /\ NewSocket.rx = <<>> /\ NewSocket.wire = <<>> /\ NewSocket.srv = 0
  BY DEF CleanParser, NewSocket
<1>2. ASSUME NEW E PROVE Coming(CleanParser, NewSocket, E) = 0
  BY <1>1, OccEmpty DEF Coming, ToCome, Reading
<1>3. <<>> \in Seq(Plain) /\ <<>> \o <<>> = <<>> /\ Framed("VER", <<>>)
  BY DEF Framed
<1> QED BY <1>1, <1>2, <1>3, EvenNew DEF CalmAt

LEMMA ParsePlain ==
  ASSUME NEW m, m.p_state \in {"VER", "BODY"}, ~m.is_close, NEW t \in Plain,
         t = "body" => m.p_state = "BODY", NEW o \in Parse(m, t)
  PROVE  /\ ~o.is_close
         /\ \/ /\ o.res = "MORE" /\ o.p_state = "BODY" /\ t # "body"
               /\ t = "ok" \/ m.p_state = "BODY"
            \/ /\ o.res = "FINISH" /\ o.p_state = "DONE"
               /\ (m.p_state = "VER" /\ t = "empty") \/ (m.p_state = "BODY" /\ t = "body")
<1>1. t \in {"ok", "empty", "body"}
  BY DEF Plain, Friendly
<1>2. CASE m.p_state = "VER"
  BY <1>1, <1>2 DEF Parse, Outcome
<1>3. CASE m.p_state = "BODY"
  BY <1>1, <1>3 DEF Parse, Outcome
<1> QED BY <1>2, <1>3

\* Each token a calm parser takes leaves it calm, or finishes one response.
LEMMA CalmParse ==
  ASSUME NEW m, NEW s \in Socket, NEW due \in Int, NEW left,
         CalmAt(m, s, due, left), m.p_state # "DONE", m.buf # <<>>,
         NEW o \in Parse(m, Head(m.buf)), NEW n, n.buf = Tail(m.buf)
  PROVE  /\ o.res \in {"MORE", "FINISH"} /\ ~o.is_close
         /\ o.res = "MORE" /\ n.p_state = o.p_state /\ ~n.is_close => CalmAt(n, s, due, left)
         /\ o.res = "FINISH" /\ n.p_state \in {"VER", o.p_state} /\ ~n.is_close
            => CalmAt(n, s, due - 1, left)
<1> DEFINE t == Head(m.buf)
           p == m.p_state
<1>1. /\ m.buf \in Seq(Plain) /\ s.rx \in Seq(Plain) /\ p \in {"VER", "BODY"} /\ ~m.is_close
      /\ Framed(p, m.buf \o s.rx)
  BY DEF CalmAt
<1>2. t \in Plain /\ n.buf \in Seq(Plain)
  BY <1>1, HeadTail
<1>3. m.buf \in Seq(Tokens) /\ s.rx \in Seq(Tokens) /\ n.buf \in Seq(Tokens)
  BY <1>1, <1>2, PlainType
<1>4. /\ m.buf \o s.rx # <<>> /\ Head(m.buf \o s.rx) = t /\ m.buf \o s.rx \in Seq(Tokens)
      /\ Tail(m.buf \o s.rx) = n.buf \o s.rx
  <2> DEFINE b == m.buf
             r == s.rx
  <2>1. b \in Seq(Tokens)
    BY <1>3
  <2>2. r \in Seq(Tokens)
    BY <1>3
  <2>3. b # <<>> /\ n.buf = Tail(b)
    OBVIOUS
  <2> HIDE DEF b, r
  <2>4. /\ b \o r # <<>> /\ Head(b \o r) = Head(b) /\ b \o r \in Seq(Tokens)
        /\ Tail(b \o r) = Tail(b) \o r
    BY <2>1, <2>2, <2>3, StreamFacts
  <2> QED BY <2>3, <2>4 DEF b, r
<1>5. t = "body" => p = "BODY"
  BY <1>1, <1>4, FramedHead
<1>6. /\ ~o.is_close
      /\ \/ /\ o.res = "MORE" /\ o.p_state = "BODY" /\ t # "body" /\ (t = "ok" \/ p = "BODY")
         \/ /\ o.res = "FINISH" /\ o.p_state = "DONE"
            /\ (p = "VER" /\ t = "empty") \/ (p = "BODY" /\ t = "body")
  BY <1>1, <1>2, <1>5, ParsePlain
<1>7. ASSUME NEW q, t \in Openers => q = "BODY" PROVE Framed(q, n.buf \o s.rx)
  BY <1>1, <1>4, <1>7, FramedTail
<1>8. ASSUME NEW E \in OneEach
      PROVE  /\ Occurrences(m.buf, E) = Occurrences(n.buf, E) + (IF t \in E THEN 1 ELSE 0)
             /\ Occurrences(n.buf, E) \in Nat /\ ToCome(s, E) \in Nat
             /\ Coming(m, s, E) <= due
  <2>1. m.buf \in Seq(Tokens)
    BY <1>3
  <2>2. n.buf \in Seq(Tokens)
    BY <1>3
  <2>3. Occurrences(m.buf, E) = Occurrences(n.buf, E) + (IF t \in E THEN 1 ELSE 0)
    BY <2>1, OccTail
  <2>4. Occurrences(n.buf, E) \in Nat
    BY <2>2, OccType
  <2>5. ToCome(s, E) \in Nat
    BY ToComeType
  <2> QED BY <2>3, <2>4, <2>5 DEF CalmAt
<1>9. /\ "body" \notin HeadKinds /\ HeadKinds # Ends /\ "body" \in Ends
      /\ "empty" \in Ends /\ "empty" \in HeadKinds /\ "ok" \in HeadKinds /\ "ok" \notin Ends
      /\ Plain = {"ok", "empty", "body"} /\ "body" \notin Openers /\ "empty" \notin Openers
  BY DEF HeadKinds, Ends, Plain, Friendly, Openers
<1>10. CASE o.res = "MORE"
  <2> SUFFICES ASSUME n.p_state = "BODY", ~n.is_close PROVE CalmAt(n, s, due, left)
    BY <1>6, <1>10
  <2>1. ASSUME NEW E \in OneEach PROVE Coming(n, s, E) <= due
    <3>1. CASE E = HeadKinds
      BY <1>2, <1>6, <1>8, <1>9, <1>10, <3>1 DEF Coming, Reading
    <3>2. CASE E = Ends
      BY <1>8, <1>9, <3>2 DEF Coming, Reading
    <3> QED BY <3>1, <3>2 DEF OneEach
  <2>2. Framed("BODY", n.buf \o s.rx)
    BY <1>7
  <2> QED BY <1>1, <1>2, <2>1, <2>2 DEF CalmAt
<1>11. CASE o.res = "FINISH"
  <2> SUFFICES ASSUME n.p_state \in {"VER", "DONE"}, ~n.is_close PROVE CalmAt(n, s, due - 1, left)
    BY <1>6, <1>11
  <2>1. ASSUME NEW E \in OneEach PROVE Coming(n, s, E) <= due - 1
    <3>1. CASE E = HeadKinds
      BY <1>6, <1>8, <1>9, <1>11, <3>1 DEF Coming, Reading
    <3>2. CASE E = Ends
      BY <1>6, <1>8, <1>9, <1>11, <3>2 DEF Coming, Reading
    <3> QED BY <3>1, <3>2 DEF OneEach
  <2>2. Framed(n.p_state, n.buf \o s.rx)
    BY <1>6, <1>7, <1>9, <1>11
  <2> QED BY <1>1, <1>2, <2>1, <2>2 DEF CalmAt
<1> QED BY <1>6, <1>10, <1>11

\* recv() moves tokens from a calm socket to its parser.
LEMMA CalmRecv ==
  ASSUME NEW m, NEW s \in Socket, NEW due \in Int, NEW left,
         CalmAt(m, s, due, left), m.buf = <<>>, NEW i \in 1..Len(s.rx),
         NEW n, n.buf = SubSeq(s.rx, 1, i), n.p_state = m.p_state, n.is_close = m.is_close,
         NEW t, t.rx = SubSeq(s.rx, i + 1, Len(s.rx)), t.tcp = s.tcp, t.bad = s.bad,
         t.wire = s.wire, t.frag = s.frag, t.srv = s.srv
  PROVE  CalmAt(n, t, due, left)
<1> DEFINE b == SubSeq(s.rx, 1, i)
           r == SubSeq(s.rx, i + 1, Len(s.rx))
<1>1. /\ s.rx \in Seq(Plain) /\ s.rx \in Seq(Tokens) /\ i \in 0..Len(s.rx)
  BY PlainType DEF CalmAt
<1>2. /\ b \in Seq(Plain) /\ r \in Seq(Plain) /\ b \o r = s.rx
      /\ \A E : Occurrences(s.rx, E) = Occurrences(b, E) + Occurrences(r, E)
  <2> DEFINE q == s.rx
  <2>1. q \in Seq(Plain) /\ i \in 0..Len(q)
    BY <1>1
  <2>2. q \in Seq(Tokens) /\ i \in 1..Len(q)
    BY <1>1
  <2> HIDE DEF q
  <2>3. /\ SubSeq(q, 1, i) \in Seq(Plain) /\ SubSeq(q, i + 1, Len(q)) \in Seq(Plain)
        /\ \A E : Occurrences(q, E)
                   = Occurrences(SubSeq(q, 1, i), E) + Occurrences(SubSeq(q, i + 1, Len(q)), E)
    BY <2>1, OccSplit
  <2>4. SubSeq(q, 1, i) \o SubSeq(q, i + 1, Len(q)) = q
    BY <2>2, ReceivedStream
  <2> QED BY <2>3, <2>4 DEF q
<1>3. /\ b \in Seq(Tokens) /\ r \in Seq(Tokens) /\ <<>> \o s.rx = s.rx
  BY <1>1, <1>2, PlainType, StreamFacts
<1>4. ASSUME NEW E \in OneEach PROVE Coming(n, t, E) <= due
  <2>1. /\ Occurrences(b, E) \in Nat /\ Occurrences(r, E) \in Nat
        /\ Occurrences(s.wire, {ReqSize}) \in Nat /\ s.srv \in Nat /\ Occurrences(<<>>, E) = 0
    BY <1>3, OccType, OccEmpty, ToComeType
  <2>2. Coming(m, s, E) <= due /\ Reading(m.p_state, E) \in {0, 1}
    BY DEF CalmAt, Reading
  <2> HIDE DEF b, r
  <2>3. Coming(n, t, E) = Coming(m, s, E)
    <3>1. n.buf = b /\ t.rx = r /\ m.buf = <<>>
      BY DEF b, r
    <3>2. Occurrences(s.rx, E) = Occurrences(n.buf, E) + Occurrences(t.rx, E)
      BY <1>2, <3>1
    <3>3. /\ Occurrences(n.buf, E) \in Nat /\ Occurrences(t.rx, E) \in Nat
          /\ Occurrences(m.buf, E) = 0 /\ Reading(n.p_state, E) = Reading(m.p_state, E)
      BY <2>1, <3>1
    <3>4. Reading(m.p_state, E) \in Nat
      BY <2>2
    <3> QED BY <2>1, <3>2, <3>3, <3>4 DEF Coming, ToCome
  <2> QED BY <2>2, <2>3
<1>5. Live(t) /\ Even(t, left)
  BY DEF CalmAt, Live, Even
<1>6. Framed(n.p_state, n.buf \o t.rx)
  BY <1>2, <1>3 DEF CalmAt
<1> QED BY <1>2, <1>4, <1>5, <1>6 DEF CalmAt

LEMMA CalmReceive ==
  ASSUME IInv, DoneIsReset, Receive, NEW c \in Conns, c = cur, Calm(c)
  PROVE  Calm(c)'
<1> DEFINE m == sm[cur]
           s == net[cur]
           left == sock[cur].leftover
<1>1. /\ cur \in Conns /\ s \in Socket /\ m \in Parser
      /\ net \in [Conns -> Socket] /\ sm \in [Conns -> Parser]
      /\ sock[cur].sent_req \in Nat /\ call.fin_resp \in Nat
  BY Typed DEF Counters, ParserCall
<1>2. pc = "parse" /\ sock' = sock /\ cur' = cur /\ pc' \in {"parse", "dispatch"}
  BY ReceiveForms
<1>3. Due(c) = sock[cur].sent_req - call.fin_resp /\ Due(c)' = sock[cur].sent_req - call'.fin_resp
  BY <1>2 DEF Due
<1>4. CalmAt(m, s, Due(c), left) /\ m.p_state # "DONE" /\ Due(c) \in Int
  BY <1>1, <1>2, <1>3 DEF Calm, DoneIsReset
<1> SUFFICES /\ CalmAt(sm'[cur], net'[cur], Due(c)', left)
             /\ pc' = "dispatch" => call'.rcode \in {"POLL_DATA", "FIN"}
  BY <1>2 DEF Calm
<1>5. CASE ParseToken \/ ParseFinish
  <2>1. PICK o \in Parse(m, Head(m.buf)) : ParseForm(o)
    BY <1>5, ParseForms
  <2>2. m.buf # <<>> /\ sm'[cur].buf = Tail(m.buf) /\ net' = net
    BY <2>1 DEF ParseForm
  <2> DEFINE n == sm'[cur]
             due == Due(c)
  <2> HIDE DEF m, s, n, due
  <2>3. /\ o.res \in {"MORE", "FINISH"} /\ ~o.is_close
        /\ o.res = "MORE" /\ n.p_state = o.p_state /\ ~n.is_close => CalmAt(n, s, due, left)
        /\ o.res = "FINISH" /\ n.p_state \in {"VER", o.p_state} /\ ~n.is_close
           => CalmAt(n, s, due - 1, left)
    <3>1. s \in Socket
      BY <1>1
    <3>2. due \in Int
      BY <1>4 DEF due
    <3>3. CalmAt(m, s, due, left)
      BY <1>4 DEF due
    <3>4. m.p_state # "DONE"
      BY <1>4
    <3>5. m.buf # <<>>
      BY <2>2
    <3>6. n.buf = Tail(m.buf)
      BY <2>2 DEF n
    <3> HIDE DEF left
    <3> QED BY <2>1, <3>1, <3>2, <3>3, <3>4, <3>5, <3>6, CalmParse
  <2>4. o.res \notin Stops
    BY <2>3 DEF Stops
  <2>5. \/ /\ o.res = "MORE" /\ n.p_state = o.p_state /\ ~n.is_close /\ pc' = pc
           /\ call'.fin_resp = call.fin_resp
        \/ /\ o.res = "FINISH" /\ n.p_state \in {"VER", o.p_state} /\ ~n.is_close
           /\ call'.fin_resp = call.fin_resp + 1
           /\ pc' = "dispatch" => call'.rcode = "FIN"
    BY <2>1, <2>3, <2>4 DEF ParseForm, n, m
  <2>6. \/ Due(c)' = due /\ o.res = "MORE"
        \/ Due(c)' = due - 1 /\ o.res = "FINISH"
    BY <1>1, <1>3, <2>5 DEF due
  <2>7. CalmAt(n, s, Due(c)', left)
    BY <2>3, <2>5, <2>6
  <2> QED BY <1>2, <2>2, <2>5, <2>7 DEF n, s
<1>6. CASE NothingExpected \/ RecvEof \/ RecvNothing
  <2>1. ReturnForm
    BY <1>6, ReturnForms
  <2>2. Live(s)
    BY <1>4 DEF CalmAt
  <2>3. /\ call'.rcode \in {"POLL_DATA", "FIN"} /\ call'.fin_resp = call.fin_resp
        /\ UNCHANGED <<sm, net>>
    BY <2>1, <2>2 DEF ReturnForm
  <2> QED BY <1>3, <1>4, <2>3
<1>7. CASE Recv
  <2>1. PICK i \in 1..Len(s.rx) :
          /\ sm'[cur].buf = SubSeq(s.rx, 1, i) /\ net'[cur].rx = SubSeq(s.rx, i + 1, Len(s.rx))
          /\ m.buf = <<>> /\ call' = call /\ pc' = pc
          /\ sm'[cur].p_state = m.p_state /\ sm'[cur].is_close = m.is_close
          /\ net'[cur].tcp = s.tcp /\ net'[cur].srv = s.srv /\ net'[cur].bad = s.bad
          /\ net'[cur].wire = s.wire /\ net'[cur].frag = s.frag
    BY <1>1, <1>7, RecvForm
  <2> DEFINE n == sm'[cur]
             t == net'[cur]
             due == Due(c)
  <2> HIDE DEF m, s, n, t, due, left
  <2>2. CalmAt(n, t, due, left)
    BY <1>1, <1>4, <2>1, CalmRecv DEF n, t, due
  <2>3. Due(c)' = due
    BY <1>3, <2>1 DEF due
  <2> QED BY <1>2, <2>1, <2>2, <2>3 DEF n, t
<1> QED BY <1>5, <1>6, <1>7 DEF Receive

\* A retry is counted only where a socket that was not calm is given up; the
\* new one is calm.
LEMMA CalmLoop ==
  ASSUME IInv, Informed, Whole, Program \/ PollFails, ~Receive, NEW c \in Conns, c = cur
  PROVE  /\ Calm(c) => Calm(c)'
         /\ \/ sock'[cur].retry_conn_num = sock[cur].retry_conn_num
            \/ /\ sock'[cur].retry_conn_num = sock[cur].retry_conn_num + 1
               /\ ~Calm(c) /\ Calm(c)'
<1> DEFINE m == sm[cur]
           s == net[cur]
           old == sock[cur]
<1>1. /\ cur \in Conns /\ s \in Socket /\ m \in Parser
      /\ net \in [Conns -> Socket] /\ sm \in [Conns -> Parser] /\ sock \in [Conns -> Counters]
      /\ old \in Counters /\ old.sent_req \in Nat /\ call.fin_resp \in Nat
      /\ Fits(cur, old)
  BY Typed DEF Counters, ParserCall
<1>2. Forms /\ Apart
  BY StepForms
<1>3. Due(c)' = sock'[cur].sent_req
  <2>1. sock'[cur].sent_req \in Nat
    <3>1. IInv'
      BY NextInv DEF Next
    <3> QED BY <1>1, <3>1 DEF IInv, TypeOK, Counters
  <2> QED BY <1>2, <2>1 DEF Due, Apart
<1>4. Calm(c)' <=> CalmAt(sm'[cur], net'[cur], sock'[cur].sent_req, sock'[cur].leftover)
  BY <1>2, <1>3 DEF Calm, Apart
<1>5. CASE Rests
  <2>1. Due(c) = old.sent_req /\ sm' = sm /\ net' = net /\ sock' = sock
    BY <1>5 DEF Rests, Due
  <2> QED BY <1>4, <2>1 DEF Calm
<1>6. CASE Credits
  <2>1. Due(c) = old.sent_req - call.fin_resp
    BY <1>6 DEF Credits, Due
  <2>2. sock'[cur] = Paid /\ UNCHANGED <<sm, net>>
    BY <1>1, <1>6 DEF Credits
  <2>3. /\ Paid.sent_req = old.sent_req - call.fin_resp /\ Paid.leftover = old.leftover
        /\ Paid.retry_conn_num = old.retry_conn_num
    <3>1. call.fin_resp <= old.sent_req /\ old.sent_req <= old.unsent_req
      BY <1>1, <1>6 DEF Credits, IInv, NeverNegative, Accounting
    <3> QED BY <1>1, <3>1, CreditedType DEF Paid, Me
  <2> QED BY <1>4, <2>1, <2>2, <2>3 DEF Calm
<1>7. ASSUME NEW k \in Counters, Renews(k)
      PROVE  /\ Calm(c)'
             /\ \/ sock'[cur].retry_conn_num = old.retry_conn_num
                \/ sock'[cur].retry_conn_num = old.retry_conn_num + 1 /\ ~Calm(c)
  <2>1. /\ sock'[cur] = k /\ sm'[cur] = CleanParser /\ net'[cur] = NewSocket
        /\ k.sent_req = 0 /\ k.leftover = 0
    BY <1>1, <1>7 DEF Renews
  <2>2. Calm(c)'
    BY <1>4, <2>1, CalmNew
  <2>3. Calm(c) => /\ Live(net[cur])
                   /\ pc = "dispatch" => call.rcode \in {"POLL_DATA", "FIN"}
    BY DEF Calm, CalmAt
  <2> QED BY <1>7, <2>1, <2>2, <2>3 DEF Renews
<1>8. ASSUME NEW k \in Counters, Restarts(k)
      PROVE  (Calm(c) => Calm(c)') /\ sock'[cur].retry_conn_num = old.retry_conn_num
  <2>1. /\ sock'[cur] = k /\ sm'[cur] = CleanParser /\ net' = net /\ pc = "dispatch"
        /\ k.sent_req = 0 /\ k.retry_conn_num = old.retry_conn_num
    BY <1>1, <1>8 DEF Restarts
  <2>2. ASSUME Calm(c) PROVE CalmAt(CleanParser, s, 0, k.leftover)
    <3>1. call.rcode = "FIN" /\ k.leftover = old.leftover
      BY <1>8, <2>1, <2>2 DEF Restarts, Calm
    <3>2. Due(c) = 0
      BY <1>1, <2>1, <3>1 DEF Due, Informed
    <3>3. CalmAt(m, s, 0, k.leftover)
      BY <2>2, <3>1, <3>2 DEF Calm
    <3> HIDE DEF m, s
    <3>4. ASSUME NEW E \in OneEach
          PROVE  /\ Coming(CleanParser, s, E) <= 0 /\ Occurrences(s.rx, E) = 0
      <4>1. /\ Coming(m, s, E) <= 0 /\ m.buf \in Seq(Tokens) /\ s.rx \in Seq(Tokens)
        BY <3>3, PlainType DEF CalmAt
      <4>2. /\ Occurrences(m.buf, E) \in Nat /\ Reading(m.p_state, E) \in {0, 1}
            /\ Occurrences(s.rx, E) \in Nat /\ s.srv \in Nat
            /\ Occurrences(s.wire, {ReqSize}) \in Nat
            /\ ToCome(s, E) \in Nat
        BY <1>1, <4>1, ComingType, ToComeType
      <4>3. ToCome(s, E) = 0 /\ Occurrences(s.rx, E) = 0
        BY <4>1, <4>2 DEF Coming, ToCome
      <4>4. Occurrences(CleanParser.buf, E) = 0 /\ Reading(CleanParser.p_state, E) = 0
        BY OccEmpty DEF CleanParser, Reading
      <4> QED BY <4>3, <4>4 DEF Coming
    <3>5. /\ s.rx \in Seq(Plain) /\ s.rx \in Seq(Tokens) /\ CleanParser.buf = <<>>
          /\ CleanParser.p_state = "VER" /\ ~CleanParser.is_close /\ <<>> \o s.rx = s.rx
      BY <3>3, PlainType, StreamFacts DEF CalmAt, CleanParser
    <3>6. Framed("VER", s.rx)
      <4>1. Ends \in OneEach /\ "body" \in Ends
        BY DEF OneEach, Ends
      <4>2. \A i \in 1..Len(s.rx) : s.rx[i] # "body"
        BY <3>4, <3>5, <4>1, OccZero
      <4> QED BY <4>2 DEF Framed
    <3>7. <<>> \in Seq(Plain) /\ Live(s) /\ Even(s, k.leftover)
      BY <3>3 DEF CalmAt
    <3> QED BY <3>4, <3>5, <3>6, <3>7 DEF CalmAt
  <2> QED BY <1>4, <2>1, <2>2
<1>9. ASSUME NEW n \in Nat, NEW try, NEW k \in Counters, Writes(n, try, k)
      PROVE  (Calm(c) => Calm(c)') /\ sock'[cur].retry_conn_num = old.retry_conn_num
  <2>1. /\ net'[cur] = try.peer /\ sock'[cur] = k /\ sm' = sm /\ pc \in {"send", "burst"}
        /\ k.retry_conn_num = old.retry_conn_num
    BY <1>1, <1>9 DEF Writes
  <2>2. ASSUME Calm(c) PROVE CalmAt(m, try.peer, k.sent_req, k.leftover)
    <3>1. Due(c) = old.sent_req /\ CalmAt(m, s, old.sent_req, old.leftover)
      BY <2>1, <2>2 DEF Due, Calm
    <3>2. Live(s) /\ Even(s, old.leftover) /\ m.buf \in Seq(Tokens)
      BY <3>1, PlainType DEF CalmAt
    <3>3. \/ ReqSize = 1
          \/ ENABLE_PIPE /\ G_FAST /\ LEFTOVER_MOD >= ReqSize
          \/ ~ENABLE_PIPE /\ ReqSize <= SndCap /\ s.wire = <<>>
      <4>1. ASSUME ~ENABLE_PIPE PROVE s.wire = <<>>
        <5>1. old.leftover = 0 /\ old.sent_req = 0
          BY <1>1, <1>9, <4>1 DEF Fits, Writes
        <5>2. Ends \in OneEach
          BY DEF OneEach
        <5>3. Coming(m, s, Ends) <= 0
          BY <3>1, <5>1, <5>2 DEF CalmAt
        <5>4. /\ Occurrences(m.buf, Ends) \in Nat /\ Reading(m.p_state, Ends) \in {0, 1}
              /\ Occurrences(s.rx, Ends) \in Nat /\ s.srv \in Nat
              /\ Occurrences(s.wire, {ReqSize}) \in Nat
          BY <1>1, <3>2, ComingType, ToComeType
        <5>5. Occurrences(s.wire, {ReqSize}) = 0
          BY <5>3, <5>4 DEF Coming, ToCome
        <5> HIDE DEF s
        <5> QED BY <1>1, <3>2, <5>1, <5>5, EvenEmpty
      <4> QED BY <4>1 DEF Whole
    <3>4. /\ try.peer \in Socket /\ Live(try.peer) /\ try.peer.rx = s.rx
          /\ Even(try.peer, k.leftover)
          /\ \E d \in Nat :
               /\ k.sent_req = old.sent_req + d
               /\ \A E \in OneEach : ToCome(try.peer, E) <= ToCome(s, E) + d
      BY <1>9, <3>2, <3>3, WriteEven
    <3>5. PICK d \in Nat : /\ k.sent_req = old.sent_req + d
                           /\ \A E \in OneEach : ToCome(try.peer, E) <= ToCome(s, E) + d
      BY <3>4
    <3>6. ASSUME NEW E \in OneEach PROVE Coming(m, try.peer, E) <= k.sent_req
      <4>1. /\ Occurrences(m.buf, E) \in Nat /\ Reading(m.p_state, E) \in {0, 1}
            /\ ToCome(s, E) \in Nat /\ ToCome(try.peer, E) \in Nat
        BY <1>1, <3>2, <3>4, ComingType
      <4>2. Coming(m, s, E) <= old.sent_req
        BY <3>1 DEF CalmAt
      <4> QED BY <1>1, <3>5, <4>1, <4>2 DEF Coming
    <3> QED BY <3>1, <3>4, <3>6 DEF CalmAt
  <2> QED BY <1>4, <2>1, <2>2
<1> QED BY <1>2, <1>5, <1>6, <1>7, <1>8, <1>9 DEF Forms

\* A step of the world that costs no fault leaves a calm connection calm.
LEMMA CalmPeer ==
  ASSUME IInv, Peer
  PROVE  \E d \in Conns : /\ \A c \in Conns \ {d} : Calm(c) <=> Calm(c)'
                          /\ faults' = faults /\ Calm(d) => Calm(d)'
<1>1. PeerTypeOK /\ net \in [Conns -> Socket] /\ sm \in [Conns -> Parser]
  BY Typed DEF IInv, TypeOK
<1>2. UNCHANGED <<pc, cur, call, sock, sm>>
  BY DEF Peer, FromPeer, progVars, loopVars
<1>3. PICK d \in Conns : PeerStep(d)
  BY DEF Peer, FromPeer
<1>4. PICK t \in Socket :
        /\ net' = [net EXCEPT ![d] = t]
        /\ Live(t) =>
             /\ \A left : Even(net[d], left) =>
                  Even(t, left) /\ \A E \in OneEach : ToCome(t, E) = ToCome(net[d], E)
             /\ \/ t.rx = net[d].rx
                \/ \E k \in Kinds : /\ t.rx = net[d].rx \o Message(k)
                                    /\ k \in Friendly \/ faults' # faults
        /\ Live(net[d]) /\ ~net[d].bad /\ faults' = faults => Live(t)
  BY <1>1, <1>3, LiveStep
<1>5. ASSUME NEW c \in Conns PROVE Due(c)' = Due(c)
  BY <1>2 DEF Due
<1>6. ASSUME NEW c \in Conns \ {d} PROVE Calm(c) <=> Calm(c)'
  <2>1. net'[c] = net[c] /\ c \in Conns
    BY <1>1, <1>4
  <2> QED BY <1>2, <1>5, <2>1 DEF Calm
<1>7. ASSUME faults' = faults, Calm(d) PROVE Calm(d)'
  <2> DEFINE m == sm[d]
             s == net[d]
             due == Due(d)
             left == sock[d].leftover
  <2>1. CalmAt(m, s, due, left)
    BY <1>7 DEF Calm
  <2>2. Live(t) /\ Even(t, left) /\ \A E \in OneEach : ToCome(t, E) = ToCome(s, E)
    <3>1. Live(s) /\ Even(s, left) /\ ~s.bad
      BY <2>1 DEF CalmAt, Even
    <3> QED BY <1>4, <1>7, <3>1
  <2>3. net'[d] = t
    BY <1>1, <1>4
  <2>4. t.rx \in Seq(Plain) /\ Framed(m.p_state, m.buf \o t.rx)
    <3>1. /\ s.rx \in Seq(Plain) /\ Framed(m.p_state, m.buf \o s.rx)
          /\ m.buf \in Seq(Tokens) /\ s.rx \in Seq(Tokens) /\ m.buf \o s.rx \in Seq(Tokens)
      BY <2>1, PlainType, StreamFacts DEF CalmAt
    <3>2. CASE t.rx = s.rx
      BY <3>1, <3>2
    <3>3. ASSUME NEW k \in Friendly, t.rx = s.rx \o Message(k)
          PROVE  t.rx \in Seq(Plain) /\ Framed(m.p_state, m.buf \o t.rx)
      <4>1. k \in HeadKinds /\ k \in Plain /\ "body" \in Plain
        BY DEF Friendly, HeadKinds, Plain
      <4>2. Message(k) \in Seq(Plain) /\ Message(k) \in Seq(Tokens)
        <5>1. <<k>> \in Seq(Plain) /\ <<k, "body">> \in Seq(Plain)
          BY <4>1
        <5>2. Message(k) \in Seq(Plain)
          BY <5>1 DEF Message
        <5> QED BY <5>2, PlainType
      <4>3. Framed(m.p_state, (m.buf \o s.rx) \o Message(k))
        BY <3>1, <4>1, FramedMessage
      <4>4. (m.buf \o s.rx) \o Message(k) = m.buf \o (s.rx \o Message(k))
        <5>1. ASSUME NEW x \in Seq(Tokens), NEW y \in Seq(Tokens), NEW z \in Seq(Tokens)
              PROVE  (x \o y) \o z = x \o (y \o z)
          BY ConcatAssociative
        <5> QED BY <3>1, <4>2, <5>1
      <4>5. s.rx \o Message(k) \in Seq(Plain)
        BY <3>1, <4>2
      <4> QED BY <3>3, <4>3, <4>4, <4>5
    <3> QED BY <1>4, <1>7, <2>2, <3>2, <3>3
  <2>5. \A E \in OneEach : Coming(m, t, E) <= due
    BY <2>1, <2>2 DEF CalmAt, Coming
  <2>6. CalmAt(m, t, due, left)
    BY <2>1, <2>2, <2>4, <2>5 DEF CalmAt
  <2> QED BY <1>2, <1>5, <1>7, <2>3, <2>6 DEF Calm
<1> QED BY <1>6, <1>7

LEMMA CostNext ==
  ASSUME IInv, IInv', Informed, DoneIsReset, CostPaid, Whole, [Next]_vars PROVE CostPaid'
<1> DEFINE f == Cost
           g == Cost'
<1>1. /\ sock \in [Conns -> Counters] /\ sock' \in [Conns -> Counters] /\ cur \in Conns
      /\ faults \in Nat /\ faults' \in Nat /\ MaxFaults \in Nat
      /\ \A c \in Conns : sock[c].retry_conn_num \in Nat /\ sock'[c].retry_conn_num \in Nat
  <2>1. /\ sock \in [Conns -> Counters] /\ sock' \in [Conns -> Counters] /\ cur \in Conns
        /\ faults \in 0..MaxFaults /\ faults' \in 0..MaxFaults /\ MaxFaults \in Nat
    BY PeerAssumption DEF IInv, TypeOK, PeerTypeOK
  <2> QED BY <2>1 DEF Counters
<1>2. /\ \A c \in Conns : f[c] = sock[c].retry_conn_num + (IF Calm(c) THEN 0 ELSE 1)
      /\ \A c \in Conns : g[c] = sock'[c].retry_conn_num + (IF Calm(c)' THEN 0 ELSE 1)
      /\ DOMAIN f = Conns /\ DOMAIN g = Conns
      /\ f = [c \in Conns |-> f[c]] /\ g = [c \in Conns |-> g[c]]
  BY DEF Cost
<1>3. Tally(Conns, f) <= MaxFaults - faults /\ (CostPaid' <=> Tally(Conns, g) <= MaxFaults - faults')
  BY DEF CostPaid
<1> HIDE DEF f, g
<1>4. \A c \in Conns : f[c] \in Nat /\ g[c] \in Nat
  BY <1>1, <1>2
<1>5. /\ f \in [Conns -> Nat] /\ g \in [Conns -> Nat] /\ IsFiniteSet(Conns)
      /\ Tally(Conns, f) \in Nat /\ Tally(Conns, g) \in Nat
  <2>1. f \in [Conns -> Nat] /\ g \in [Conns -> Nat]
    BY <1>2, <1>4
  <2> QED BY <2>1, ConnsFinite, TallyType
<1>6. faults' = faults \/ faults' = faults - 1
  BY FaultsFall
<1>7. ASSUME \A c \in Conns : g[c] <= f[c] PROVE CostPaid'
  <2>1. Tally(Conns, g) <= Tally(Conns, f)
    BY <1>5, <1>7, TallyOrder
  <2> QED BY <1>1, <1>3, <1>5, <1>6, <2>1
<1>8. CASE Peer
  <2>1. PICK d \in Conns : /\ \A c \in Conns \ {d} : Calm(c) <=> Calm(c)'
                           /\ faults' = faults /\ Calm(d) => Calm(d)'
    BY <1>8, CalmPeer
  <2>2. sock' = sock
    BY <1>8 DEF Peer, FromPeer, progVars
  <2>3. \A c \in Conns \ {d} : g[c] = f[c]
    BY <1>2, <2>1, <2>2
  <2>4. g[d] <= f[d] + 1 /\ (faults' = faults => g[d] <= f[d])
    BY <1>1, <1>2, <2>1, <2>2
  <2>5. Tally(Conns, g) = Tally(Conns, f) + g[d] - f[d]
    BY <1>5, <2>3, TallyChange
  <2> QED BY <1>1, <1>3, <1>4, <1>5, <1>6, <2>4, <2>5
<1>9. CASE Program \/ PollFails
  <2>1. ASSUME NEW c \in Conns PROVE g[c] <= f[c]
    <3>1. CASE c = cur /\ Receive
      <4>1. sock' = sock /\ (Calm(c) => Calm(c)')
        BY <3>1, ReceiveForms, CalmReceive
      <4> QED BY <1>1, <1>2, <3>1, <4>1
    <3>2. CASE c = cur /\ ~Receive
      <4>1. /\ Calm(c) => Calm(c)'
            /\ \/ sock'[cur].retry_conn_num = sock[cur].retry_conn_num
               \/ /\ sock'[cur].retry_conn_num = sock[cur].retry_conn_num + 1
                  /\ ~Calm(c) /\ Calm(c)'
        BY <1>9, <3>2, CalmLoop
      <4> QED BY <1>1, <1>2, <3>2, <4>1
    <3>3. CASE c # cur
      <4>1. sock'[c] = sock[c] /\ sm'[c] = sm[c] /\ net'[c] = net[c]
        BY <1>9, <3>3, OnlyCurrent
      <4>2. Due(c) = sock[c].sent_req
        BY <3>3 DEF Due
      <4>3. Due(c)' = sock[c].sent_req /\ ~(c = cur' /\ pc' = "dispatch")
        <5>1. CASE Receive
          <6>1. cur' = cur
            BY <5>1, ReceiveForms
          <6> QED BY <3>3, <4>1, <6>1 DEF Due
        <5>2. CASE ~Receive
          <6>1. Apart
            BY <1>9, <5>2, StepForms
          <6>2. sock[c].sent_req \in Nat
            BY <1>1 DEF Counters
          <6> QED BY <4>1, <6>1, <6>2 DEF Due, Apart
        <5> QED BY <5>1, <5>2
      <4>4. Calm(c) => Calm(c)'
        BY <4>1, <4>2, <4>3 DEF Calm
      <4> QED BY <1>1, <1>2, <4>1, <4>4
    <3> QED BY <3>1, <3>2, <3>3
  <2> QED BY <1>7, <2>1
<1>10. CASE Finished \/ UNCHANGED vars
  <2>1. UNCHANGED <<pc, cur, call, sock, sm, net>>
    BY <1>10 DEF Finished, vars, progVars, loopVars
  <2>2. \A c \in Conns : Calm(c)' <=> Calm(c)
    BY <2>1 DEF Calm, Due
  <2>3. \A c \in Conns : g[c] = f[c]
    BY <1>2, <2>1, <2>2
  <2> QED BY <1>4, <1>7, <2>3
<1> QED BY <1>8, <1>9, <1>10 DEF Next

LEMMA CostInit == Init => CostPaid
<1> SUFFICES ASSUME Init PROVE CostPaid
  OBVIOUS
<1>1. \A c \in Conns : /\ sock[c].retry_conn_num = 0 /\ sock[c].leftover = 0 /\ Due(c) = 0
                       /\ sm[c] = CleanParser /\ net[c] = NewSocket /\ pc # "dispatch"
  BY DEF Init, PeerInit, Due
<1>2. \A c \in Conns : Calm(c)
  BY <1>1, CalmNew DEF Calm
<1>3. Cost \in [Conns -> Nat] /\ \A c \in Conns : Cost[c] = 0
  BY <1>1, <1>2 DEF Cost
<1>4. Tally(Conns, Cost) = 0
  BY <1>3, ConnsFinite, TallyZero
<1>5. MaxFaults \in Nat /\ faults = MaxFaults
  BY PeerAssumption DEF Init, PeerInit
<1> QED BY <1>4, <1>5 DEF CostPaid

LEMMA CostInvariant == ASSUME Whole PROVE Spec => []CostPaid
<1>1. /\ IInv /\ IInv' /\ Informed /\ (DoneIsReset /\ PairedAll) /\ CostPaid /\ [Next]_vars
      => CostPaid'
  BY CostNext
<1> QED BY <1>1, CostInit, Invariant, InformedInvariant, ParsingInvariant, PTL DEF Spec

\* However many connections are lost, answered unkindly or written to when they
\* are dead already, every retry the loop counts, and every burst it cuts down,
\* has a fault of its own behind it: where requests are sent whole, no loss
\* is counted twice, and none that did not happen.
THEOREM RetriesArePaid == ASSUME Whole PROVE Spec => []RetryPaid
<1>1. IInv /\ CostPaid => RetryPaid
  <2> SUFFICES ASSUME IInv, CostPaid PROVE RetryPaid
    OBVIOUS
  <2> DEFINE f == [c \in Conns |-> sock[c].retry_conn_num]
             g == Cost
  <2>1. /\ \A c \in Conns : sock[c].retry_conn_num \in Nat
        /\ faults \in Nat /\ MaxFaults \in Nat
    BY Typed, PeerAssumption DEF Counters
  <2>2. /\ f \in [Conns -> Nat] /\ g \in [Conns -> Nat]
        /\ \A c \in Conns : f[c] <= g[c]
    BY <2>1 DEF Cost
  <2> HIDE DEF f, g
  <2>3. /\ Tally(Conns, f) <= Tally(Conns, g)
        /\ Tally(Conns, f) \in Nat /\ Tally(Conns, g) \in Nat
    BY <2>2, ConnsFinite, TallyOrder, TallyType
  <2>4. Tally(Conns, g) <= MaxFaults - faults
    BY DEF CostPaid, g
  <2>5. Tally(Conns, f) <= MaxFaults - faults
    BY <2>1, <2>3, <2>4
  <2> QED BY <2>5 DEF RetryPaid, f
<1> QED BY <1>1, Invariant, CostInvariant, PTL
=============================================================================
