------------------------------- MODULE Probe -------------------------------
(***************************************************************************)
(* probe_mgnt_run: kb -P asks one server for a list of well-known paths, a *)
(* connection each, and calls a path found or missed after the rcode of    *)
(* the blocking driver of the parser, which is the one of ConnMgntBlk.     *)
(***************************************************************************)
EXTENDS TcpPeer, RespStream, Integers

CONSTANTS NUris,    \* entries of common_uri
          Losses    \* what the network does: "FIN", "RST", "REFUSED"

Uris == 0..(NUris - 1)

ASSUME ProbeAssumption ==
  NConn = 1 /\ NUris \in Nat \ {0} /\ Losses \subseteq {"FIN", "RST", "REFUSED"}

VARIABLES
  pc,       \* connect, send, parse, dispatch, close, end, or killed (by a signal)
  i,        \* the entry of common_uri probed
  fd,       \* probe_fd is not -1
  sm, call, \* state_m and the running call of the driver, as in ConnMgntBlk
  verdict,  \* found, missed or neither, for each entry probed so far
  answer,   \* what the server has answered for each entry
  lost      \* the entries during whose probe the connection was lost or refused

\* The driver, on the only connection, for one response.
Drv == INSTANCE ConnMgntBlk WITH
         TOTAL_REQ <- 1, ENABLE_PIPE <- FALSE, g_fast <- FALSE, NUM_GAP <- 1, U32_MOD <- 16,
         GARBAGE <- {0}, cur <- 0, revents <- {}, workload <- 1, all_fin <- 0, burst <- 0,
         sock <- [c \in {0} |-> [unsent_req |-> 0, sent_req |-> 1, rcvd_res |-> 0,
                                 retry_conn_num |-> 0, up |-> fd]]

\* create_probe_mgnt: connect() blocks.
ProbeInit == /\ net = [c \in Conns |-> NewSocket] /\ faults = MaxFaults
             /\ pc = "connect" /\ i = 0 /\ fd = FALSE
             /\ sm = [c \in Conns |-> CleanParser] /\ call = Drv!NoCall
             /\ verdict = [u \in Uris |-> "none"] /\ answer = [u \in Uris |-> "none"] /\ lost = {}

\* create_tcp_conn returns a socket or -1; probing goes on in both cases.
Connected == /\ pc = "connect" /\ net[0].tcp # "SYN_SENT"
             /\ pc' = "send" /\ fd' = (net[0].err # "REFUSED")
             /\ UNCHANGED <<i, sm, call, verdict, answer, lost, net, faults>>

\* The result of send() is not looked at.  But SIGPIPE is handled in the
\* load-generating mode only: here a broken connection kills kb.
Ask == /\ pc = "send"
       /\ LET try == Sent(net[0], 0, ReqSize)
          IN  /\ pc' = IF fd /\ try.ret = "PIPE" THEN "killed" ELSE "parse"
              /\ net' = [net EXCEPT ![0] = IF fd THEN try.peer ELSE @]
       /\ call' = [Drv!NoCall EXCEPT !.num_reqs = 1]
       /\ UNCHANGED <<i, fd, sm, verdict, answer, lost, faults>>

Driver == UNCHANGED <<i, fd, verdict, answer, lost>> /\ Drv!Receiving

VerdictOf(rcode) ==
  CASE rcode \in {"REDIRECT", "POLL_DATA", "FIN"}                  -> "found"
    [] rcode \in {"CLOSE", "SERVER_ERR", "CLIENT_ERR", "ERROR"} -> "missed"
    [] OTHER                                                       -> "neither"

Judge == /\ pc = "dispatch" /\ pc' = "close"
         /\ verdict' = [verdict EXCEPT ![i] = VerdictOf(call.rcode)]
         /\ UNCHANGED <<i, fd, sm, call, answer, lost, net, faults>>

\* Mutant: the parser is not reset between two probes.
NewConnectionOnly ==
  /\ pc = "close" /\ net' = [net EXCEPT ![0] = NewSocket]
  /\ call' = Drv!NoCall /\ fd' = FALSE
  /\ i' = i + 1 /\ pc' = IF i + 1 < NUris THEN "connect" ELSE "end"
  /\ UNCHANGED <<sm, verdict, answer, lost, faults>>

\* Mutant: a path that was found is left by "continue", before i++.
NewConnectionStays ==
  /\ pc = "close" /\ net' = [net EXCEPT ![0] = NewSocket]
  /\ sm' = [sm EXCEPT ![0] = ResetParser(@)] /\ call' = Drv!NoCall /\ fd' = FALSE
  /\ i' = (IF verdict[i] = "found" THEN i ELSE i + 1)
  /\ pc' = IF i' < NUris THEN "connect" ELSE "end"
  /\ UNCHANGED <<verdict, answer, lost, faults>>

\* close(), a new connection (one more than there are probes), a clean parser.
NewConnection ==
  /\ pc = "close" /\ net' = [net EXCEPT ![0] = NewSocket]
  /\ sm' = [sm EXCEPT ![0] = ResetParser(@)] /\ call' = Drv!NoCall /\ fd' = FALSE
  /\ i' = i + 1 /\ pc' = IF i + 1 < NUris THEN "connect" ELSE "end"
  /\ UNCHANGED <<verdict, answer, lost, faults>>

ProbeProgram == Connected \/ Ask \/ Driver \/ Judge \/ NewConnection

Lose  == \/ "REFUSED" \in Losses /\ Refuse(0)
         \/ "FIN" \in Losses /\ Fin(0)
         \/ (net[0].tcp = "CLOSE_WAIT" \/ "RST" \in Losses) /\ Rst(0)
ProbeOver   == pc \in {"end", "killed"}
World(step) == ~ProbeOver /\ step /\ UNCHANGED <<pc, i, fd, sm, call, verdict>>
Works       == World(Establish(0) \/ ServerRead(0)) /\ UNCHANGED <<answer, lost>>
Answers(k)  == World(Answer(0, k)) /\ answer' = [answer EXCEPT ![i] = k] /\ UNCHANGED lost
Lost        == World(Lose) /\ lost' = lost \cup {i} /\ UNCHANGED answer

-----------------------------------------------------------------------------
(* Properties *)

\* A verdict is about the path it stands beside: whatever came over the earlier
\* connections, in whatever pieces, a path whose own connection was not lost is
\* found if its answer is a success or a redirection, missed if it is an error
\* kb knows, and left out otherwise (probe_mgnt.c:38-61).
ProbeVerdict ==
  \A u \in Uris \ lost : verdict[u] # "none" =>
    verdict[u] = CASE answer[u] \in {"ok", "empty", "close", "redirect"} -> "found"
                   [] answer[u] \in {"keep4", "close4", "err5"}          -> "missed"
                   [] OTHER                                            -> "neither"

=============================================================================
