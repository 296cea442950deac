----------------------------- MODULE ConnMgntNB -----------------------------
(***************************************************************************)
(* conn_mgnt_run_non_blocking: the event loop with which one thread drives *)
(* its connections, the close handler, and the loop of parser and recv()   *)
(* calls it runs on a readable socket.                                     *)
(*                                                                         *)
(* The loop is sequential; the network and the server (TcpPeer) take steps *)
(* between any two of its steps.  Every action below is one stretch of     *)
(* code between two points at which their steps can make a difference.     *)
(***************************************************************************)
EXTENDS TcpPeer, RespStream, Integers

CONSTANTS TOTAL_REQ,         \* this->total_req
          ENABLE_PIPE,       \* args->enable_pipe
          G_FAST,            \* g_fast
          NUM_GAP,           \* g_burst_length, the initial burst
          LEFTOVER_MOD,      \* 2^8, the range of the bit field leftover
          U32_MOD,           \* 2^32, the range of the parameter num_reqs
          POLL_TIMEOUT, POLL_MAX_TIMEOUT

MIN_NUM_GAP == 1

ASSUME ConnMgntAssumption ==
  /\ TOTAL_REQ \in Nat /\ TOTAL_REQ >= NConn      \* argparse sees to it
  /\ ENABLE_PIPE \in BOOLEAN /\ G_FAST \in BOOLEAN
  /\ NUM_GAP \in Nat /\ NUM_GAP >= MIN_NUM_GAP
  /\ LEFTOVER_MOD \in Nat \ {0}
  /\ U32_MOD \in Nat /\ U32_MOD > TOTAL_REQ
  /\ POLL_TIMEOUT \in Nat \ {0} /\ POLL_MAX_TIMEOUT \in Nat

VARIABLES
  pc,        \* where the loop is
  cur,       \* i, the connection it looks at
  polled,    \* the connections whose ufds[i].fd is not -1
  revents,   \* ufds[i].revents
  timeout,   \* of poll
  all_fin,   \* responses received, on all connections
  sock,      \* this->sockets, the counters of struct _conn_t
  sm,        \* sockets[i].state_m: received bytes not parsed, parser state
  call,      \* the running parser call: num_reqs, fin_resp, rcode
  burst      \* requests the sending loop (variable j) has left

loopVars == <<pc, cur, polled, revents, timeout, all_fin>>
progVars == <<loopVars, sock, sm, call, burst>>
vars     == <<progVars, net, faults>>

\* The workload of each connection (create_conn_mgnt_non_blocking).
Share(c) == (TOTAL_REQ \div NConn) + (IF c = NConn - 1 THEN TOTAL_REQ % NConn ELSE 0)

NoEvents == [c \in Conns |-> {}]
NoCall   == [num_reqs |-> 0, fin_resp |-> 0, rcode |-> "NONE"]
Rcodes   == Stops \cup {"NONE", "POLL_DATA", "FIN", "CLOSE"}

Init == /\ PeerInit
        /\ pc = "poll" /\ cur = 0
        /\ polled = Conns /\ revents = NoEvents
        /\ timeout = POLL_TIMEOUT /\ all_fin = 0
        /\ sock = [c \in Conns |-> [unsent_req |-> Share(c), sent_req |-> 0, rcvd_res |-> 0,
                                    num_gap |-> NUM_GAP, leftover |-> 0, retry_conn_num |-> 0]]
        /\ sm = [c \in Conns |-> CleanParser]
        /\ call = NoCall /\ burst = 0

-----------------------------------------------------------------------------
(* Helpers. *)

\* The next round of the for loop, or back to poll.  Locals that are dead
\* from here on (revents, the parser call, j) are reset.
GoNext == /\ cur' = (cur + 1) % NConn
          /\ pc' = IF cur + 1 < NConn THEN "conn" ELSE "poll"
          /\ revents' = IF cur + 1 < NConn THEN revents ELSE NoEvents
          /\ call' = NoCall /\ burst' = 0

Goto(label) == pc' = label /\ UNCHANGED <<cur, revents>>

\* Mutant: no floor.
DecreasedToZero(gap) == (gap * 9) \div 10

Decreased(gap) == LET g == (gap * 9) \div 10 IN IF g < MIN_NUM_GAP THEN MIN_NUM_GAP ELSE g

\* Mutant: what is left of a partly sent request survives the connection.
ClosedKeepsLeftover(k) ==
  [k EXCEPT !.num_gap = IF k.sent_req > 0 THEN Decreased(@) ELSE @,
            !.retry_conn_num = @ + 1, !.sent_req = 0]

\* The counters of a connection k given up by conn_mgnt_close_handler.
Closed(k) == [k EXCEPT !.num_gap = IF k.sent_req > 0 THEN Decreased(@) ELSE @,
                       !.retry_conn_num = @ + 1, !.sent_req = 0, !.leftover = 0]

conn_mgnt_close_handler ==
  /\ sock' = [sock EXCEPT ![cur] = Closed(@)]
  /\ sm'   = [sm EXCEPT ![cur] = ResetParser(@)]
  /\ net'  = [net EXCEPT ![cur] = NewSocket]

Rev == revents[cur]
Me  == sock[cur]

\* Mutant: as many responses as there are unfinished requests.
BoundOfUnfinished(k) == k.unsent_req

\* The responses a parser call may finish on a connection with counters k.
Bound(k) == k.sent_req

\* Where a connection goes once its error events are dealt with.
GoReceive(k) ==
  IF "IN" \in Rev
    THEN /\ Goto("parse") /\ burst' = burst
         /\ call' = [NoCall EXCEPT !.num_reqs = Bound(k)]
    ELSE Goto("send") /\ UNCHANGED <<call, burst>>

-----------------------------------------------------------------------------
(* poll() and the head of the loop. *)

\* The loop's condition all_fin < total_req holds whenever it is tested (the
\* property LoopConditionHolds): the loop is left by its gotos and breaks.
Poll == /\ pc = "poll" /\ all_fin < TOTAL_REQ
        /\ \E r \in [Conns -> SUBSET Events] :
             /\ \A c \in Conns : r[c] \in IF c \in polled THEN Ready(net[c]) ELSE {{}}
             /\ r # NoEvents
             /\ revents' = r
        /\ pc' = "conn" /\ timeout' = POLL_TIMEOUT
        /\ UNCHANGED <<cur, polled, all_fin, sock, sm, call, burst, net, faults>>

\* Nothing happened for a whole timeout: wait twice as long, or give up.
PollTimeout == /\ pc = "poll" /\ all_fin < TOTAL_REQ
               /\ \A c \in polled : {} \in Ready(net[c])
               /\ timeout' = timeout * 2
               /\ pc' = IF timeout' > POLL_MAX_TIMEOUT THEN "end" ELSE pc
               /\ UNCHANGED <<cur, polled, revents, all_fin, sock, sm, call, burst, net, faults>>

\* poll() fails (a signal arrived): the handler does nothing, the loop breaks.
PollFails == /\ pc = "poll" /\ all_fin < TOTAL_REQ
             /\ Fault
             /\ pc' = "end"
             /\ UNCHANGED <<cur, polled, revents, timeout, all_fin, sock, sm, call, burst, net>>

\* A connection that has nothing left to do is not monitored any more.
SkipFinished == /\ pc = "conn" /\ Me.unsent_req = 0
                /\ polled' = polled \ {cur}
                /\ GoNext
                /\ UNCHANGED <<timeout, all_fin, sock, sm, net, faults>>

\* POLLERR closes the socket only when it is neither readable nor writable.
Lost == IF "ERR" \in Rev THEN Rev \cap {"IN", "OUT"} = {} ELSE "HUP" \in Rev

CheckError == /\ pc = "conn" /\ Me.unsent_req # 0
              /\ ~Lost
              /\ GoReceive(Me)
              /\ UNCHANGED <<polled, timeout, all_fin, sock, sm, net, faults>>

\* The events already fetched stay in revents: they are acted upon below,
\* on the new socket.
ErrorClose == /\ pc = "conn" /\ Me.unsent_req # 0
              /\ Lost
              /\ conn_mgnt_close_handler
              /\ GoReceive(sock'[cur])
              /\ UNCHANGED <<polled, timeout, all_fin, faults>>

-----------------------------------------------------------------------------
(* multi_bytes_http_parsing_state_machine_non_blocking *)

ParserReturns(rc) == pc' = "dispatch" /\ call' = [call EXCEPT !.rcode = rc]

\* The parser takes one token and needs more, or stops with an error rcode.
\* NOT_SUPPORT is passed on as ERROR.
ParseToken ==
  /\ pc = "parse" /\ sm[cur].buf # <<>>
  /\ \E o \in Parse(sm[cur], Head(sm[cur].buf)) :
       /\ o.res # "FINISH"
       /\ sm' = [sm EXCEPT ![cur] = [buf |-> Tail(@.buf), p_state |-> o.p_state,
                                     is_close |-> o.is_close, status |-> o.status]]
       /\ IF o.res = "MORE" THEN UNCHANGED <<pc, call>> ELSE ParserReturns(IF o.res = "NOT_SUPPORT" THEN "ERROR" ELSE o.res)
  /\ UNCHANGED <<cur, polled, revents, timeout, all_fin, sock, burst, net, faults>>

\* The parser finishes a response (RCODE_FIN, RCODE_NEXT_RESP).  The bound is
\* unsigned: counting down from 0 wraps.
ParseFinish ==
  /\ pc = "parse" /\ sm[cur].buf # <<>>
  /\ \E o \in Parse(sm[cur], Head(sm[cur].buf)) :
       LET left == (call.num_reqs + U32_MOD - 1) % U32_MOD
           rest == Tail(sm[cur].buf)
           rc   == IF o.is_close THEN "CLOSE" ELSE IF left = 0 THEN "FIN" ELSE "NONE"
       IN  /\ o.res = "FINISH"
           /\ call' = [num_reqs |-> left, fin_resp |-> call.fin_resp + 1, rcode |-> rc]
           /\ sm' = [sm EXCEPT ![cur] =
                       IF rc = "NONE" THEN [CleanParser EXCEPT !.buf = rest]
                       ELSE [buf |-> rest, p_state |-> o.p_state,
                             is_close |-> o.is_close, status |-> o.status]]
           /\ pc' = IF rc = "NONE" THEN pc ELSE "dispatch"
  /\ UNCHANGED <<cur, polled, revents, timeout, all_fin, sock, burst, net, faults>>

\* The parser has used up its data (RCODE_POLL_DATA), and nothing is expected.
NothingExpected ==
  /\ pc = "parse" /\ sm[cur].buf = <<>> /\ call.num_reqs = 0
  /\ ParserReturns("FIN")
  /\ UNCHANGED <<cur, polled, revents, timeout, all_fin, sock, sm, burst, net, faults>>

\* ... or recv() fetches a first part of what the socket holds.
Recv ==
  /\ pc = "parse" /\ sm[cur].buf = <<>> /\ call.num_reqs # 0
  /\ \E n \in 1..Len(net[cur].rx) :
       /\ sm'  = [sm EXCEPT ![cur].buf = SubSeq(net[cur].rx, 1, n)]
       /\ net' = [net EXCEPT ![cur].rx = SubSeq(@, n + 1, Len(@))]
  /\ UNCHANGED <<loopVars, sock, call, burst, faults>>

RecvEof ==
  /\ pc = "parse" /\ sm[cur].buf = <<>> /\ call.num_reqs # 0
  /\ AtEof(net[cur])
  /\ sm' = [sm EXCEPT ![cur] = ResetParser(@)]
  /\ ParserReturns("CLOSE")
  /\ UNCHANGED <<cur, polled, revents, timeout, all_fin, sock, burst, net, faults>>

\* recv() returned -1: whatever errno says, the caller is told to poll again.
RecvNothing ==
  /\ pc = "parse" /\ sm[cur].buf = <<>> /\ call.num_reqs # 0
  /\ RecvFails(net[cur])
  /\ net' = [net EXCEPT ![cur] = AfterError(@)]
  /\ ParserReturns("POLL_DATA")
  /\ UNCHANGED <<cur, polled, revents, timeout, all_fin, sock, sm, burst, faults>>

-----------------------------------------------------------------------------
(* The switch on the parser's rcode. *)

\* The counters of connection k after n more responses.
Credited(k, n) == [k EXCEPT !.rcvd_res = @ + n, !.unsent_req = @ - n,
                            !.sent_req = IF @ - n < 0 THEN 0 ELSE @ - n]
Paid == Credited(Me, call.fin_resp)

\* Mutant: a rejection counts as a response as well.
DispatchCountsRejections(rcodes) ==
  /\ pc = "dispatch" /\ call.rcode \in rcodes
  /\ all_fin' = all_fin + call.fin_resp + (IF call.rcode = "CLIENT_ERR" THEN 1 ELSE 0)
  /\ UNCHANGED <<polled, timeout, faults>>

Dispatch(rcodes) == /\ pc = "dispatch" /\ call.rcode \in rcodes
                    /\ all_fin' = all_fin + call.fin_resp
                    /\ UNCHANGED <<polled, timeout, faults>>

\* An unfinished response: wait for more of it, sending meanwhile.
DispatchPollData == /\ Dispatch({"POLL_DATA"})
                    /\ sock' = [sock EXCEPT ![cur] = Paid]
                    /\ Goto("send") /\ call' = NoCall
                    /\ UNCHANGED <<sm, burst, net>>

\* Mutants: one short of the total; not asked when the peer has closed.
AllButOneDone == call.rcode \in {"FIN", "CLOSE"} /\ all_fin' >= TOTAL_REQ - 1
AllDoneOnFinOnly == call.rcode = "FIN" /\ all_fin' = TOTAL_REQ

AllDone == call.rcode \in {"FIN", "CLOSE"} /\ all_fin' = TOTAL_REQ

\* goto end: everything is answered, or an answer this client cannot handle.
DispatchEnd == /\ Dispatch({"FIN", "CLOSE", "REDIRECT", "SERVER_ERR"})
               /\ AllDone \/ call.rcode \in {"REDIRECT", "SERVER_ERR"}
               /\ sock' = [sock EXCEPT ![cur] = Paid]
               /\ Goto("end")
               /\ UNCHANGED <<sm, call, burst, net>>

\* The response said "Connection: close": reconnect, with the burst kept.
DispatchPeerCloses == /\ Dispatch({"FIN", "CLOSE"})
                      /\ ~AllDone /\ sm[cur].is_close
                      /\ sock' = [sock EXCEPT ![cur] = [Paid EXCEPT !.sent_req = 0, !.leftover = 0]]
                      /\ sm'   = [sm EXCEPT ![cur] = ResetParser(@)]
                      /\ net'  = [net EXCEPT ![cur] = NewSocket]
                      /\ GoNext

\* Mutants: the unanswered requests are not given up; every end of stream
\* counts as a retry.
ResizedKeepsUnanswered(k) ==
  IF k.sent_req > 0 THEN [k EXCEPT !.num_gap = Decreased(@), !.retry_conn_num = @ + 1] ELSE k
ResizedAlways(k) ==
  [k EXCEPT !.num_gap = Decreased(@), !.retry_conn_num = @ + 1, !.sent_req = 0]

\* Requests still unanswered when the stream stops: a smaller burst next time.
Resized(k) == IF k.sent_req > 0
                THEN [k EXCEPT !.num_gap = Decreased(@), !.retry_conn_num = @ + 1, !.sent_req = 0]
                ELSE k

DispatchFinished ==
  /\ Dispatch({"FIN", "CLOSE"})
  /\ ~AllDone /\ ~sm[cur].is_close
  /\ sm' = [sm EXCEPT ![cur] = ResetParser(@)]
  /\ IF PeerGone(net[cur])
       THEN /\ sock' = [sock EXCEPT ![cur] = [Resized(Paid) EXCEPT !.leftover = 0]]
            /\ net'  = [net EXCEPT ![cur] = NewSocket]
            /\ GoNext
       ELSE /\ sock' = [sock EXCEPT ![cur] = Resized(Paid)]
            /\ Goto("send") /\ call' = NoCall
            /\ UNCHANGED <<net, burst>>

\* 403, 404, 405, 406: start afresh on the same connection.
DispatchKeep == /\ Dispatch({"CLIENT_ERR", "ERROR"})
                /\ sm[cur].status = "keep4"
                /\ sock' = [sock EXCEPT ![cur] = [Paid EXCEPT !.sent_req = 0, !.leftover = 0]]
                /\ sm'   = [sm EXCEPT ![cur] = ResetParser(@)]
                /\ GoNext
                /\ UNCHANGED net

\* Another 4xx, or bytes the parser cannot read: start afresh on a new one.
DispatchAbort == /\ Dispatch({"CLIENT_ERR", "ERROR"})
                 /\ sm[cur].status # "keep4"
                 /\ sock' = [sock EXCEPT ![cur] = Closed(Paid)]
                 /\ sm'   = [sm EXCEPT ![cur] = ResetParser(@)]
                 /\ net'  = [net EXCEPT ![cur] = NewSocket]
                 /\ GoNext

-----------------------------------------------------------------------------
(* The sending half of the loop's body. *)

\* Mutant: the whole burst again, whatever is in flight.
WorkloadIgnoresInFlight(k) == IF k.unsent_req < k.num_gap THEN k.unsent_req ELSE k.num_gap

\* Requests a pipelining connection may add to those it has in flight.
Workload(k) ==
  LET w == (IF k.unsent_req < k.num_gap THEN k.unsent_req ELSE k.num_gap) - k.sent_req
  IN  IF w < 0 THEN 0 ELSE w

\* Mutant: the part already sent is sent again.
WholeWorkloadBytes(k) == IF Workload(k) = 0 THEN k.leftover ELSE ReqSize * Workload(k)

WorkloadBytes(k) == IF Workload(k) = 0 THEN k.leftover
                    ELSE ReqSize * (Workload(k) - 1) + (ReqSize - k.leftover)

MaySend == "OUT" \in Rev /\ Me.unsent_req > 0

\* Mutant: without pipelining, a request is sent while one is unanswered.
HasWorkAnyway == IF ENABLE_PIPE THEN WorkloadBytes(Me) # 0 ELSE TRUE

HasWork == IF ENABLE_PIPE THEN WorkloadBytes(Me) # 0 ELSE Me.sent_req = 0

SendNothing == /\ pc = "send" /\ ~(MaySend /\ HasWork)
               /\ GoNext
               /\ UNCHANGED <<polled, timeout, all_fin, sock, sm, net, faults>>

\* What one send() leads to.  k is the connection's counters when it returns.
\* A broken pipe or a reset: a new socket.  Refused: goto end.
Aftermath(try, k, next) ==
  /\ CASE try.ret \in {"PIPE", "RESET"} ->
            /\ sock' = [sock EXCEPT ![cur] = Closed(k)]
            /\ sm'   = [sm EXCEPT ![cur] = ResetParser(@)]
            /\ net'  = [net EXCEPT ![cur] = NewSocket]
       [] OTHER ->
            /\ sock' = [sock EXCEPT ![cur] = k]
            /\ net'  = [net EXCEPT ![cur] = try.peer]
            /\ UNCHANGED sm
  /\ IF try.ret = "REFUSED"
       THEN Goto("end") /\ UNCHANGED <<call, burst>>
       ELSE next
  /\ UNCHANGED <<polled, timeout, all_fin, faults>>

\* Mutant: the request is counted before send(), as in SendBurst.
SendOneCountsFirst ==
  /\ pc = "send" /\ MaySend /\ HasWork /\ ~ENABLE_PIPE
  /\ Aftermath(Sent(net[cur], 0, ReqSize), [Me EXCEPT !.sent_req = @ + 1], GoNext)

\* Without pipelining: one request, counted once send() has taken it.
SendOne ==
  /\ pc = "send" /\ MaySend /\ HasWork /\ ~ENABLE_PIPE
  /\ LET try == Sent(net[cur], 0, ReqSize)
         k   == IF try.ret = "OK" THEN [Me EXCEPT !.sent_req = @ + 1] ELSE Me
     IN  Aftermath(try, k, GoNext)

\* Pipelining: a loop of workload rounds.
StartBurst == /\ pc = "send" /\ MaySend /\ HasWork /\ ENABLE_PIPE /\ ~G_FAST
              /\ burst' = Workload(Me)
              /\ Goto("burst")
              /\ UNCHANGED <<polled, timeout, all_fin, sock, sm, call, net, faults>>

\* One round: the request is counted before send(), whatever send() returns.
SendBurst ==
  /\ pc = "burst"
  /\ LET try  == Sent(net[cur], 0, ReqSize)
         k    == [Me EXCEPT !.sent_req = @ + 1]
         next == IF burst = 1 THEN GoNext
                 ELSE burst' = burst - 1 /\ UNCHANGED <<pc, cur, revents, call>>
     IN  Aftermath(try, k, next)

\* Mutant: a partly sent request counts as sent.
StartedRequests(units) == (units + ReqSize - 1) \div ReqSize

CompleteRequests(units) == units \div ReqSize

\* Pipelining, fast: the rest of a partly sent request and the whole burst in
\* one send(); the complete requests of what was taken are counted.
SendFast ==
  /\ pc = "send" /\ MaySend /\ HasWork /\ ENABLE_PIPE /\ G_FAST
  /\ LET try   == Sent(net[cur], Me.leftover, WorkloadBytes(Me))
         taken == try.n + Me.leftover
         k     == IF try.ret = "OK"
                    THEN [Me EXCEPT !.sent_req = @ + CompleteRequests(taken),
                                    !.leftover = (taken % ReqSize) % LEFTOVER_MOD]
                    ELSE Me
     IN  Aftermath(try, k, GoNext)

-----------------------------------------------------------------------------
Receive  == \/ ParseToken \/ ParseFinish \/ NothingExpected \/ Recv \/ RecvEof \/ RecvNothing
Respond  == \/ DispatchPollData \/ DispatchEnd \/ DispatchPeerCloses \/ DispatchFinished
            \/ DispatchKeep \/ DispatchAbort
Send     == SendNothing \/ SendOne \/ StartBurst \/ SendBurst \/ SendFast
Program  == Poll \/ PollTimeout \/ SkipFinished \/ CheckError \/ ErrorClose \/ Receive \/ Respond \/ Send

FromPeer(step) == pc # "end" /\ step /\ UNCHANGED progVars
Peer == FromPeer(\E c \in Conns : PeerStep(c))

Finished == pc = "end" /\ UNCHANGED vars

Next == Program \/ PollFails \/ Peer \/ Finished

Spec == Init /\ [][Next]_vars

(***************************************************************************)
(* The thread keeps running, connections get established, and the server   *)
(* keeps reading and answering.  Losses, refusals, unfriendly answers and  *)
(* signals never have to happen.                                           *)
(***************************************************************************)
Fairness ==
  /\ WF_vars(Program)
  /\ \A c \in Conns : /\ WF_vars(FromPeer(Establish(c)))
                      /\ WF_vars(FromPeer(ServerRead(c)))
                      /\ WF_vars(FromPeer(Answer(c, "ok") \/ AnswerBad(c)))

FairSpec == Spec /\ Fairness

-----------------------------------------------------------------------------
(* Properties. *)

Counters == [unsent_req : Nat, sent_req : Nat, rcvd_res : Nat, num_gap : Nat \ {0},
             leftover : 0..(ReqSize - 1), retry_conn_num : Nat]
Parser   == [buf : Seq(Tokens), p_state : ParserStates, is_close : BOOLEAN,
             status : HeadKinds \cup {"none"}]
ParserCall == [num_reqs : 0..(U32_MOD - 1), fin_resp : Nat, rcode : Rcodes]

\* Types.  That sent_req, unsent_req and num_gap are never negative is not a
\* matter of declaration: in C they are signed, or would wrap.
TypeOK ==
  /\ PeerTypeOK
  /\ pc \in {"poll", "conn", "parse", "dispatch", "send", "burst", "end"}
  /\ cur \in Conns /\ polled \in SUBSET Conns /\ revents \in [Conns -> SUBSET Events]
  /\ timeout \in Nat /\ all_fin \in Nat
  /\ sock \in [Conns -> Counters] /\ sm \in [Conns -> Parser]
  /\ call \in ParserCall
  /\ burst \in Nat

\* Every response taken off a connection's share of the work is counted as
\* received on it, and a connection never has more requests unanswered than
\* unfinished (conn_mgnt.c:137-141 against the workloads at 255-261).
Accounting ==
  \A c \in Conns : /\ sock[c].rcvd_res + sock[c].unsent_req = Share(c)
                   /\ sock[c].sent_req <= sock[c].unsent_req

\* The clamp of sent_req at conn_mgnt.c:141 never acts, and the unsigned bound
\* of the parser call never wraps (http_new_state_machine.c:565): the parser
\* never finishes more responses than were unanswered.
NeverNegative ==
  /\ pc = "parse" => call.num_reqs + call.fin_resp = sock[cur].sent_req
  /\ pc = "dispatch" => call.fin_resp <= sock[cur].sent_req

\* A connection with nothing unanswered holds no received bytes and no parser
\* state, except inside the parser call that made it so and after the loop: every one of the paths
\* that zero sent_req also resets the parser.
IdleIsClean ==
  \A c \in Conns :
    sock[c].sent_req = 0 /\ ~(pc \in {"parse", "dispatch", "end"} /\ c = cur) => sm[c] = CleanParser

\* all_fin, which ends the loop, is the number of responses received on all
\* connections and never passes the total asked for (conn_mgnt.c:72,138,149).
AllFinExact == all_fin = Tally(Conns, [c \in Conns |-> sock[c].rcvd_res]) /\ all_fin <= TOTAL_REQ

\* Between two parser calls of a run, every request that counts as unanswered on a live
\* connection is whole in the network, at the server, or answered by bytes not
\* consumed yet ("unanswered req", conn_mgnt.h:30): sent_req counts nothing
\* that no answer can ever settle.
Unread(c) == Occurrences(sm[c].buf, HeadKinds)
             + (IF sm[c].p_state = "BODY" THEN 1 ELSE 0)
UnansweredIsReal ==
  \A c \in Conns :
    /\ net[c].tcp \in {"SYN_SENT", "ESTABLISHED"}
    /\ ~(pc \in {"parse", "dispatch", "end"} /\ c = cur)
    => sock[c].sent_req <= InNetwork(c) + Unread(c)

\* The stream of a live connection is always cut where leftover says: what the
\* next send() continues is the request the server has the beginning of
\* (conn_mgnt.h:33: "to prevent error of 400 bad requests").
FramingKept ==
  \A c \in Conns :
    net[c].tcp \in {"SYN_SENT", "ESTABLISHED"} =>
      /\ ~net[c].bad
      /\ (net[c].frag + Len(net[c].wire)) % ReqSize = sock[c].leftover

\* The fast mode's send() reads inside packed_req, which holds NUM_GAP requests
\* (conn_mgnt.c:56-62,296), although the burst shrinks and leftover moves the
\* starting point.
PackedReadInBounds ==
  pc = "send" /\ ENABLE_PIPE /\ G_FAST =>
    Me.leftover + WorkloadBytes(Me) <= ReqSize * NUM_GAP

\* The while condition of conn_mgnt.c:72 never ends the loop: the response that
\* completes the total always comes out of the parser as RCODE_FIN or
\* RCODE_CLOSE, the two codes on which the total is checked (line 149).
LoopConditionHolds == pc = "poll" => all_fin < TOTAL_REQ

\* No byte of an old connection is parsed as part of a new one's stream.
NoStreamMixing ==
  \A c \in Conns : net[c].tcp = "SYN_SENT" => sm[c].buf = <<>> /\ sm[c].p_state = "VER"

\* The loop stops short of the total only after something went wrong outside:
\* a loss, a refusal, an answer it gives up on, a signal, or the last timeout.
NoEarlyEnd ==
  pc = "end" => \/ all_fin = TOTAL_REQ
                \/ faults < MaxFaults
                \/ timeout > POLL_MAX_TIMEOUT

\* Every counted retry is paid for by a fault of its own: a loss is never
\* counted (and the burst never reduced) twice.
RetryPaid == Tally(Conns, [c \in Conns |-> sock[c].retry_conn_num]) <= MaxFaults - faults

\* The burst of a connection shrinks only as one of its sockets is given up
\* with requests unanswered, by one step, and these requests are issued again.
ShrinkOnLoss ==
  [][\A c \in Conns :
       sock'[c].num_gap # sock[c].num_gap =>
         /\ sock'[c].num_gap = Decreased(sock[c].num_gap)
         /\ sock'[c].retry_conn_num = sock[c].retry_conn_num + 1
         /\ sock'[c].sent_req = 0]_vars

\* However often connections are lost or requests refused, the run ends once
\* the server behaves: "retry the unanswer one" (conn_mgnt.h:59).
Termination == <>(pc = "end")

\* The event loop keeps the promise of LoadGen.
LG == INSTANCE LoadGen WITH Connections <- Conns, Todo <- [c \in Conns |-> Share(c)],
        todo <- [c \in Conns |-> sock[c].unsent_req],
        issued <- [c \in Conns |-> sock[c].sent_req], over <- pc = "end"
RefinesLoadGen == LG!Spec
=============================================================================
