---------------------------- MODULE ConnMgntBlk ----------------------------
(***************************************************************************)
(* conn_mgnt_run: the loop with which one thread drives its connections    *)
(* when sockets block (the default), with the blocking driver of the       *)
(* parser.  A round sends to every idle connection, then waits until the   *)
(* requests of the round (workload) are answered or given up.              *)
(*                                                                         *)
(* As in ConnMgntNB, the network and the server take steps between any two *)
(* actions.  A call that blocks is an action that waits.                   *)
(***************************************************************************)
EXTENDS TcpPeer, RespStream, Integers, FiniteSetsExt

CONSTANTS TOTAL_REQ, ENABLE_PIPE, NUM_GAP, U32_MOD,
          GARBAGE,     \* what an uninitialized num_resp may hold
          Losses       \* what the network does: "FIN", "RST", "REFUSED"

ASSUME BlockingAssumption ==
  /\ TOTAL_REQ \in Nat /\ TOTAL_REQ >= NConn
  /\ ENABLE_PIPE \in BOOLEAN
  /\ NUM_GAP \in Nat \ {0}
  /\ U32_MOD \in Nat /\ U32_MOD > TOTAL_REQ
  /\ GARBAGE \subseteq Int /\ GARBAGE # {}
  /\ Losses \subseteq {"FIN", "RST", "REFUSED"}

\* A blocking send() takes all it is given; that it may have to wait for room
\* first is left out.
ASSUME RoomAssumption == SndCap > ReqSize * TOTAL_REQ

VARIABLES
  pc,        \* where the loop is
  cur,       \* i, the connection it looks at
  revents,   \* the connections reported readable that are still to be looked at
  workload,  \* answers this round still waits for (u32)
  all_fin,
  sock,      \* this->sockets; up: sockfd is not -1
  sm,        \* sockets[i].state_m
  call,      \* the running parser call
  burst,     \* requests the sending loop (the local sent_req) has left
  g_fast     \* one send() for a whole burst (--fast, set before any thread runs)
progVars == <<pc, cur, revents, workload, all_fin, sock, sm, call, burst, g_fast>>
vars     == <<progVars, net, faults>>

Share(c) == (TOTAL_REQ \div NConn) + (IF c = NConn - 1 THEN TOTAL_REQ % NConn ELSE 0)
NoCall   == [num_reqs |-> 0, fin_resp |-> 0, rcode |-> "NONE"]
Connected == [NewSocket EXCEPT !.tcp = "ESTABLISHED"]

\* create_conn_mgnt has connected every socket, or the program has exited.
Init == /\ net = [c \in Conns |-> Connected] /\ faults = MaxFaults
        /\ pc = "send" /\ cur = 0 /\ revents = {}
        /\ workload = 0 /\ all_fin = 0
        /\ sock = [c \in Conns |-> [unsent_req |-> Share(c), sent_req |-> 0, rcvd_res |-> 0,
                                    retry_conn_num |-> 0, up |-> TRUE]]
        /\ sm = [c \in Conns |-> CleanParser]
        /\ call = NoCall /\ burst = 0
        /\ g_fast \in {fast \in BOOLEAN : fast => ENABLE_PIPE}   \* --fast sets enable_pipe, too

Me == sock[cur]
U32(n) == (n + U32_MOD) % U32_MOD

-----------------------------------------------------------------------------
(* Sending. *)

\* The next connection, or, after the last one, the inner loop.
NextSend == /\ cur' = (cur + 1) % NConn
            /\ pc' = IF cur + 1 < NConn THEN "send" ELSE "inner"
            /\ UNCHANGED <<revents, all_fin, sm, call, faults>>

\* send() of n requests; whatever goes wrong, the program exits.
Send(n, next) ==
  LET try  == Sent(net[cur], 0, n * ReqSize)
      took == Me.up /\ try.ret = "OK"
      k    == [Me EXCEPT !.sent_req = @ + n, !.unsent_req = @ - n]
  IN  IF took
        THEN /\ sock' = [sock EXCEPT ![cur] = k]
             /\ net' = [net EXCEPT ![cur] = try.peer]
             /\ next
        ELSE /\ pc' = "exit"
             /\ UNCHANGED <<cur, revents, workload, all_fin, sock, sm, call, burst, net, faults>>

Round == IF Me.unsent_req < NUM_GAP THEN Me.unsent_req ELSE NUM_GAP

\* With pipelining, a connection that waits for answers is passed over, and so
\* is one that has nothing to send.
SendSkip == /\ pc = "send"
            /\ \/ Me.sent_req # 0
               \/ IF ENABLE_PIPE /\ g_fast THEN Me.unsent_req < 0 ELSE Me.unsent_req <= 0
            /\ workload' = IF ENABLE_PIPE THEN workload ELSE U32(workload + Me.sent_req)
            /\ NextSend /\ UNCHANGED <<sock, burst, net>>

\* Mutant: one request more than there are.
SendOneMore == /\ pc = "send" /\ ~ENABLE_PIPE /\ Me.sent_req = 0 /\ Me.unsent_req >= 0
               /\ Send(1, workload' = workload + 1 /\ NextSend /\ UNCHANGED burst)

SendOne == /\ pc = "send" /\ ~ENABLE_PIPE /\ Me.sent_req = 0 /\ Me.unsent_req > 0
           /\ Send(1, workload' = workload + 1 /\ NextSend /\ UNCHANGED burst)

StartBurst == /\ pc = "send" /\ ENABLE_PIPE /\ ~g_fast /\ Me.sent_req = 0 /\ Me.unsent_req > 0
              /\ pc' = "burst" /\ burst' = Round
              /\ UNCHANGED <<cur, revents, workload, all_fin, sock, sm, call, net, faults>>

SendBurst ==
  /\ pc = "burst"
  /\ Send(1, /\ burst' = burst - 1
             /\ IF burst = 1
                  THEN workload' = workload + sock'[cur].sent_req /\ NextSend
                  ELSE UNCHANGED <<pc, cur, revents, workload, all_fin, sm, call, faults>>)

\* All in one send(), of 0 octets if there is nothing to send.
SendFast == /\ pc = "send" /\ ENABLE_PIPE /\ g_fast /\ Me.sent_req = 0 /\ Me.unsent_req >= 0
            /\ Send(Round, workload' = workload + Round /\ NextSend /\ UNCHANGED burst)

-----------------------------------------------------------------------------
(* Waiting. *)

\* Mutant: one answer short.
RoundOverShort == /\ pc = "inner" /\ workload = 0
                  /\ pc' = IF all_fin < TOTAL_REQ - 1 THEN "send" ELSE "end"
                  /\ UNCHANGED <<cur, revents, workload, all_fin, sock, sm, call, burst, net, faults>>

\* Mutant: one round more, for ever.
RoundOverLate == /\ pc = "inner" /\ workload = 0
                 /\ pc' = IF all_fin <= TOTAL_REQ THEN "send" ELSE "end"
                 /\ UNCHANGED <<cur, revents, workload, all_fin, sock, sm, call, burst, net, faults>>

\* workload = 0: another round, or the run is over.
RoundOver == /\ pc = "inner" /\ workload = 0
             /\ pc' = IF all_fin < TOTAL_REQ THEN "send" ELSE "end"
             /\ UNCHANGED <<cur, revents, workload, all_fin, sock, sm, call, burst, net, faults>>

\* From connection i on, the next one to look at.
LookAt(ready) ==
  IF ready = {}
    THEN pc' = "inner" /\ cur' = 0 /\ revents' = {} /\ call' = NoCall
    ELSE LET c == Min(ready)
         IN  /\ pc' = "parse" /\ cur' = c /\ revents' = ready \ {c}
             /\ call' = [NoCall EXCEPT !.num_reqs = U32(sock'[c].sent_req)]

Readable == {c \in Conns : sock[c].up /\ (net[c].rx # <<>> \/ PeerGone(net[c]))}

Poll == /\ pc = "inner" /\ workload # 0
        /\ Readable # {}
        /\ UNCHANGED sock
        /\ LookAt(Readable)
        /\ UNCHANGED <<workload, all_fin, sm, burst, net, faults>>

PollTimeout == /\ pc = "inner" /\ workload # 0
               /\ Readable = {}
               /\ pc' = "timeout"
               /\ UNCHANGED <<cur, revents, workload, all_fin, sock, sm, call, burst, net, faults>>

NextTimeout == /\ cur' = (cur + 1) % NConn
               /\ pc' = IF cur + 1 < NConn THEN "timeout" ELSE "inner"
               /\ UNCHANGED <<revents, call>>

\* close() and create_tcp_conn(): a new socket, whose connect() blocks.
Reconnect(k) == /\ sock' = [sock EXCEPT ![cur] = [k EXCEPT !.retry_conn_num = @ + 1]]
                /\ net' = [net EXCEPT ![cur] = NewSocket]
                /\ pc' = "connect"
                /\ UNCHANGED <<cur, revents, call>>

\* What the timeout finds closed is replaced; its unanswered requests are not
\* sent again.
CheckTimeout ==
  /\ pc = "timeout"
  /\ IF Me.unsent_req > 0 /\ Me.up /\ PeerGone(net[cur])
       THEN Reconnect(Me)
       ELSE NextTimeout /\ UNCHANGED <<sock, net>>
  /\ UNCHANGED <<workload, all_fin, sm, burst, faults>>

\* connect() returns, and the loop it was called from goes on.
ConnectReturns ==
  /\ pc = "connect" /\ net[cur].tcp # "SYN_SENT"
  /\ sock' = [sock EXCEPT ![cur].up = net[cur].err # "REFUSED"]
  /\ IF call = NoCall THEN NextTimeout ELSE LookAt(revents)
  /\ UNCHANGED <<workload, all_fin, sm, burst, net, faults>>

-----------------------------------------------------------------------------
(* multi_bytes_http_parsing_state_machine *)

Parsing == pc = "parse" /\ UNCHANGED <<cur, revents, workload, all_fin, sock, burst, faults>>
HasData == sm[cur].buf # <<>>
Returns(rc) == pc' = "dispatch" /\ call' = [call EXCEPT !.rcode = rc]

\* The parser takes a token and needs more, or stops.  Of an answer it does
\* not support the driver puts everything back.
ParseToken ==
  /\ Parsing /\ HasData
  /\ \E o \in Parse(sm[cur], Head(sm[cur].buf)) :
       /\ o.res # "FINISH"
       /\ sm' = [sm EXCEPT ![cur] = [buf |-> IF o.res = "NOT_SUPPORT" THEN @.buf ELSE Tail(@.buf),
                                     p_state |-> o.p_state,
                                     is_close |-> o.is_close, status |-> o.status]]
       /\ IF o.res = "MORE" THEN UNCHANGED <<pc, call>> ELSE Returns(o.res)
  /\ UNCHANGED net

\* A finished response; whether it says "close" is not looked at.
ParseFinish ==
  /\ Parsing /\ HasData
  /\ \E o \in Parse(sm[cur], Head(sm[cur].buf)) :
       /\ o.res = "FINISH"
       /\ sm' = [sm EXCEPT ![cur] = [CleanParser EXCEPT !.buf = Tail(sm[cur].buf)]]
       /\ call' = [call EXCEPT !.num_reqs = U32(@ - 1), !.fin_resp = @ + 1]
  /\ UNCHANGED <<pc, net>>

NothingExpected == /\ Parsing /\ ~HasData /\ call.num_reqs = 0
                   /\ Returns("POLL_DATA")
                   /\ UNCHANGED <<sm, net>>

\* recv() waits for data, the end of the stream, or an error.
Recv == /\ Parsing /\ ~HasData /\ call.num_reqs # 0
        /\ \E n \in 1..Len(net[cur].rx) :
             /\ sm'  = [sm EXCEPT ![cur].buf = SubSeq(net[cur].rx, 1, n)]
             /\ net' = [net EXCEPT ![cur].rx = SubSeq(@, n + 1, Len(@))]
        /\ UNCHANGED <<pc, call>>

\* Mutant: the end of the stream leaves the parser where it stopped.
RecvEofKeeps == /\ Parsing /\ ~HasData /\ call.num_reqs # 0
                /\ AtEof(net[cur])
                /\ Returns("CLOSE")
                /\ UNCHANGED <<sm, net>>

RecvEof == /\ Parsing /\ ~HasData /\ call.num_reqs # 0
           /\ AtEof(net[cur])
           /\ sm' = [sm EXCEPT ![cur] = ResetParser(@)]
           /\ Returns("CLOSE")
           /\ UNCHANGED net

RecvError == /\ Parsing /\ ~HasData /\ call.num_reqs # 0
             /\ net[cur].tcp = "CLOSE" /\ RecvFails(net[cur])
             /\ net' = [net EXCEPT ![cur] = AfterError(@)]
             /\ Returns("POLL_DATA")
             /\ UNCHANGED sm

-----------------------------------------------------------------------------
(* The switch on the parser's rcode. *)

\* num_resp is set where the driver leaves its loop, which a redirection does
\* not: there it holds anything.
NumResp == IF call.rcode = "REDIRECT" THEN GARBAGE ELSE {call.fin_resp}

\* Mutant: unanswered requests are forgotten.
CreditedForgets(k, n) == [k EXCEPT !.rcvd_res = @ + n, !.sent_req = @ - n]

\* The counters of connection k after n more responses: the unanswered
\* requests become unsent ones, whatever happens to them next.
Credited(k, n) == [k EXCEPT !.rcvd_res = @ + n, !.unsent_req = @ + (k.sent_req - n),
                            !.sent_req = @ - n]

Dispatch(rcodes, n) == /\ pc = "dispatch" /\ call.rcode \in rcodes /\ n \in NumResp
                       /\ all_fin' = all_fin + n
                       /\ UNCHANGED <<burst, faults>>

\* Answers are missing: with pipelining, the connection is then replaced if
\* its server has closed it, without, in any case.
MustReplace(k) == k.sent_req > 0 /\ (ENABLE_PIPE => PeerGone(net[cur]))

\* Mutant: the requests given up stay in the workload.
GivenUpNot(k) == 0

\* Mutant: the unsent requests leave the workload instead.
GivenUpUnsent(k) == k.unsent_req

\* Requests of this round that will not be waited for.
GivenUp(k) == k.sent_req

DispatchAnswered ==
  \E n \in NumResp :
    LET k == Credited(Me, n)
    IN  /\ Dispatch({"POLL_DATA", "CLOSE"} \cup (IF ENABLE_PIPE THEN {} ELSE {"NOT_SUPPORT"}), n)
        /\ sm' = [sm EXCEPT ![cur] = IF ENABLE_PIPE THEN ResetParser(@) ELSE @]
        /\ IF MustReplace(k)
             THEN /\ workload' = U32(workload - n - GivenUp(k))
                  /\ Reconnect([k EXCEPT !.sent_req = 0])
             ELSE /\ workload' = U32(workload - n)
                  /\ sock' = [sock EXCEPT ![cur] = k]
                  /\ LookAt(revents)
                  /\ UNCHANGED net

\* Mutant: the new connection keeps the unanswered requests of the old one.
DispatchAbandonKeeps ==
  \E n \in NumResp :
    LET k == Credited(Me, n)
    IN  /\ ENABLE_PIPE /\ Dispatch({"CLIENT_ERR", "ERROR"}, n)
        /\ k.unsent_req > 0
        /\ workload' = U32(workload - n)
        /\ sm' = [sm EXCEPT ![cur] = ResetParser(@)]
        /\ Reconnect(k)

\* 4xx, or bytes the parser cannot read: a new connection.  (The workload
\* keeps the requests given up.  The branch that leaves a closed descriptor to
\* poll() when nothing is unsent never runs: AbandonedHasWork.)
DispatchAbandon ==
  \E n \in NumResp :
    LET k == Credited(Me, n)
    IN  /\ ENABLE_PIPE /\ Dispatch({"CLIENT_ERR", "ERROR"}, n)
        /\ k.unsent_req > 0
        /\ workload' = U32(workload - n)
        /\ sm' = [sm EXCEPT ![cur] = ResetParser(@)]
        /\ Reconnect([k EXCEPT !.sent_req = 0])

\* An answer the switch does nothing about.
DispatchIgnored ==
  \E n \in NumResp :
    /\ Dispatch(IF ENABLE_PIPE THEN {"NOT_SUPPORT"} ELSE {"REDIRECT"}, n)
    /\ workload' = U32(workload - n)
    /\ sock' = [sock EXCEPT ![cur] = Credited(@, n)]
    /\ LookAt(revents)
    /\ UNCHANGED <<sm, net>>

\* exit(1)
DispatchExit ==
  \E n \in NumResp :
    /\ Dispatch({"SERVER_ERR"} \cup (IF ENABLE_PIPE THEN {"REDIRECT"} ELSE {"CLIENT_ERR", "ERROR"}), n)
    /\ workload' = U32(workload - n)
    /\ sock' = [sock EXCEPT ![cur] = Credited(@, n)]
    /\ pc' = "exit"
    /\ UNCHANGED <<cur, revents, sm, call, net>>

-----------------------------------------------------------------------------
Sending   == SendSkip \/ SendOne \/ StartBurst \/ SendBurst \/ SendFast
Waiting   == RoundOver \/ Poll \/ PollTimeout \/ CheckTimeout \/ ConnectReturns
Receiving == ParseToken \/ ParseFinish \/ NothingExpected \/ Recv \/ RecvEof \/ RecvError
Answering == DispatchAnswered \/ DispatchAbandon \/ DispatchIgnored \/ DispatchExit
Program   == (Sending \/ Waiting \/ Receiving \/ Answering) /\ UNCHANGED g_fast

Over == pc \in {"end", "exit"}
FromPeer(step) == ~Over /\ step /\ UNCHANGED progVars
NetworkStep(c) == \/ Establish(c) \/ ServerRead(c)
                  \/ \E k \in Kinds : Answer(c, k)
                  \/ "REFUSED" \in Losses /\ Refuse(c)
                  \/ "FIN" \in Losses /\ Fin(c)
                  \/ (net[c].tcp = "CLOSE_WAIT" \/ "RST" \in Losses) /\ Rst(c)
Peer == FromPeer(\E c \in Conns : NetworkStep(c))

Finished == Over /\ UNCHANGED vars

Next == Program \/ Peer \/ Finished

Spec == Init /\ [][Next]_vars

(***************************************************************************)
(* The thread keeps running, connections get established, and the server   *)
(* reads and answers.                                                      *)
(***************************************************************************)
FairSpec == /\ Spec
            /\ WF_vars(Program)
            /\ \A c \in Conns : /\ WF_vars(FromPeer(Establish(c)))
                                /\ WF_vars(FromPeer(ServerRead(c)))
                                /\ WF_vars(FromPeer(Answer(c, "ok")))

-----------------------------------------------------------------------------
(* Properties. *)

Counters   == [unsent_req : Nat, sent_req : Nat, rcvd_res : Nat, retry_conn_num : Nat, up : BOOLEAN]
Parser     == [buf : Seq(Tokens), p_state : ParserStates, is_close : BOOLEAN,
               status : HeadKinds \cup {"none"}]
Rcodes     == Stops \cup {"NONE", "POLL_DATA", "CLOSE"}
ParserCall == [num_reqs : 0..(U32_MOD - 1), fin_resp : Nat, rcode : Rcodes]

\* Types, with no counter of a connection below 0.
Shape ==
  /\ PeerTypeOK
  /\ pc \in {"send", "burst", "inner", "timeout", "connect", "parse", "dispatch", "end", "exit"}
  /\ cur \in Conns /\ revents \in SUBSET Conns
  /\ workload \in Int /\ all_fin \in Int
  /\ sock \in [Conns -> Counters]
  /\ sm \in [Conns -> Parser]
  /\ call \in ParserCall
  /\ burst \in Nat

TypeOK == Shape /\ workload \in 0..(U32_MOD - 1) /\ g_fast \in BOOLEAN

\* A connection's share of the requests is, at any time, what is answered,
\* what is on its way and what is unsent: giving requests up neither loses
\* nor doubles any (conn_mgnt.c:517-521,541,571).
Accounting ==
  pc # "exit" =>
    \A c \in Conns : sock[c].rcvd_res + sock[c].unsent_req + sock[c].sent_req = Share(c)

\* The inner loop waits for exactly what the connections count as unanswered
\* ("quit when finish all workload of this round", conn_mgnt.c:500), whichever
\* of them are replaced and by which branch.  That a socket still carries what
\* is counted is another matter: OnlyTimeoutStrands.
WorkloadIsCounted ==
  pc \notin {"send", "burst", "exit"} =>
    workload = Tally(Conns, [c \in Conns |-> sock[c].sent_req])

\* With abandoned connections and ignored answers it may wait for too many, but
\* still no round ends while a connection counts requests as unanswered.
NoneForgotten ==
  pc \notin {"send", "burst", "exit"} =>
    workload >= Tally(Conns, [c \in Conns |-> sock[c].sent_req])

\* A live connection counts requests as unanswered that are neither in the
\* network, nor at the server, nor answered by bytes not consumed yet: no
\* answer will ever settle them.
Unread(c) == Occurrences(sm[c].buf, HeadKinds) + (IF sm[c].p_state = "BODY" THEN 1 ELSE 0)
Stranded(c) == /\ net[c].tcp \in {"SYN_SENT", "ESTABLISHED"}
               /\ ~(pc \in {"parse", "dispatch", "exit"} /\ c = cur)
               /\ sock[c].sent_req > InNetwork(c) + Unread(c)

\* Nothing strands requests but the replacement of a connection at a timeout
\* (conn_mgnt.c:591-600,697-705), which leaves sent_req as it is; the branches
\* of the switch give up what they do not send again (540-542, 571, 677-679).
OnlyTimeoutStrands == [][\A c \in Conns : ~Stranded(c) /\ Stranded(c)' => pc = "timeout"]_vars

\* The driver never finishes more responses than are unanswered, although it
\* does not stop when its bound reaches 0 (http_new_state_machine.c:732).
NeverNegative ==
  /\ pc = "parse" => call.num_reqs + call.fin_resp = sock[cur].sent_req
  /\ pc = "dispatch" => call.fin_resp <= sock[cur].sent_req

\* "each connection will own its parsing state" (http_response_process.c:10):
\* nothing of the old stream is left in the parser when a new one begins.
NoStreamMixing ==
  \A c \in Conns : net[c].tcp = "SYN_SENT" => sm[c] = CleanParser

\* Whenever a connection is abandoned there is something left to send on it:
\* the early continue of conn_mgnt.c:563, which leaves the closed descriptor
\* in the poll set, is never taken.
AbandonedHasWork ==
  pc = "dispatch" /\ ENABLE_PIPE /\ call.rcode \in {"CLIENT_ERR", "ERROR"} =>
    Credited(Me, call.fin_resp).unsent_req > 0

\* The run ends normally only with the whole share of every connection
\* answered, not just the right sum (conn_mgnt.c:455,608).
EndMeansDone == pc = "end" => \A c \in Conns : sock[c].rcvd_res = Share(c)

\* A run ends, by the last answer or by one of its exits, whatever requests
\* had to be given up: "retry the unanswer one" (conn_mgnt.h:59).
Termination == <>Over

\* At least, it ends if no connection is lost and nothing but ordinary answers
\* comes: no round waits for more than it has sent, and the rounds add up to
\* the total (conn_mgnt.c:455,501).
TerminationWithoutLoss == [](faults = MaxFaults) => Termination

\* The blocking loop, too, keeps the promise of LoadGen.  An exit() aborts the
\* run, whatever a redirection has just added to the counters.
Aborted == pc = "exit"
LG == INSTANCE LoadGen WITH Connections <- Conns, Todo <- [c \in Conns |-> Share(c)],
        todo <- [c \in Conns |-> Share(c) - (IF Aborted THEN 0 ELSE sock[c].rcvd_res)],
        issued <- [c \in Conns |-> IF Aborted THEN 0 ELSE sock[c].sent_req], over <- Over
RefinesLoadGen == LG!Spec
=============================================================================
