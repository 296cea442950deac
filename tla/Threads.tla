------------------------------ MODULE Threads ------------------------------
(***************************************************************************)
(* main of kb in its load-generating mode, the threads it starts, and what *)
(* they share: args, the request object all of them build their request    *)
(* from, the statistics, the table of thread ids with the log files, and   *)
(* the handler of SIGINT, which runs on the main thread.                   *)
(*                                                                         *)
(* What a thread does with its connections is the subject of ConnMgntNB    *)
(* and ConnMgntBlk; here it receives answers one by one.                   *)
(***************************************************************************)
EXTENDS Integers, Sequences, Counting

CONSTANTS
  Commands,      \* the arguments kb may be started with
  MAX_THREAD,
  THRD_NUM_MOD,  \* 2^8: conn_mgnt_t.thrd_num has 8 bits
  UserHeaders,   \* headers of the table given with -H
  CUSTOM,        \* a header that is not in the table is given with -H
  Failures,      \* what may go wrong: "connect", "fopen", "pthread_create", "exit"
  INTERRUPT,     \* SIGINT may come
  GARBAGE,       \* what memory that was freed holds, read as a number
  MaxErrs        \* bound: 4xx answers the blocking threads may get

Thrds == 0..(MAX_THREAD - 1)

Arguments == [thrd : 1..MAX_THREAD, conn : Nat \ {0}, reqs : Nat, verbose : BOOLEAN,
              log : {"none", "KB", "KB_CM", "ALL"}, use_non_block : BOOLEAN, use_url : BOOLEAN]

\* What argparse leaves: see Kb.
ASSUME ThreadsAssumption ==
  /\ MAX_THREAD \in Nat \ {0} /\ THRD_NUM_MOD \in Nat \ {0} /\ MaxErrs \in Nat
  /\ Commands \subseteq Arguments
  /\ \A a \in Commands : a.reqs >= a.thrd * a.conn
  /\ UserHeaders \subseteq {"Accept"} /\ CUSTOM \in BOOLEAN /\ INTERRUPT \in BOOLEAN
  /\ GARBAGE \subseteq Nat

VARIABLES
  args,       \* *args; reqs is changed by main
  total_req,  \* main's copy of the requests asked for
  leftover,
  pc, i,      \* main: where it is, and its loop variable
  th,         \* per thread: its manager, and where it is
  slot,       \* priv_statistics
  stats,      \* statistics
  http_req,   \* args->http_req
  mapped,     \* the threads main has entered into g_thrd_id_mapping
  logf,       \* g_logfd
  armed,      \* the handler of SIGINT is installed
  dumped,     \* who has summed the statistics up
  walk        \* the handler: the manager it is at, as it reads it
vars == <<args, total_req, leftover, pc, i, th, slot, stats, http_req, mapped, logf, armed,
          dumped, walk>>

Headers  == <<"Accept", "Connection", "Host", "User-Agent">>  \* in the order of the table
HeaderNames == {"Accept", "Connection", "Host", "User-Agent"}
Inserted == <<"Host", "Connection", "User-Agent">>            \* in the order of insertion

Idle == [pc |-> "none", total |-> 0, rcvd |-> 0, got |-> 0, errs |-> 0, reg |-> 0,
         k |-> 1, dirty |-> {}, req |-> {}]

\* A time is a duration or, once started and not ended, a point of time.
NoStats == [recv |-> 0, workload |-> 0, time |-> "duration", fin |-> FALSE]

Init == /\ args \in Commands /\ total_req = 0 /\ leftover = 0
        /\ pc = "init" /\ i = 0
        /\ th = [t \in Thrds |-> Idle]
        /\ slot = [t \in Thrds |-> NoStats]
        /\ stats = [recv |-> 0, workload |-> 0, time |-> "duration"]
        /\ http_req = [dirty |-> UserHeaders, conn |-> "none", custom |-> "HDR:VAL"]
        /\ mapped = {} /\ logf = [t \in Thrds |-> "none"]
        /\ armed = FALSE /\ dumped = "no" /\ walk = [num |-> 0, sum |-> 0]

Mine      == 0..(args.thrd - 1)
Sum(f)    == Tally(Mine, f)
Over      == pc \in {"over", "exit"}

\* Time measured from t on: now minus a duration is a point of time again.
Ended(t) == IF t = "point" THEN "duration" ELSE "point"

\* A bad access: the handler of SIGSEGV ends the program, or, if errno happens
\* to say "try again" (EINPROGRESS after a non-blocking connect, EAGAIN after a
\* failing pthread_create), returns to the fault for ever.
Faults == {"exit", "spin"}

-----------------------------------------------------------------------------
(* main *)

\* Mutant: the requests that do not divide evenly are dropped.
DistributeEvenly ==
  /\ pc = "init" /\ pc' = "log"
  /\ total_req' = args.reqs /\ leftover' = 0
  /\ args' = [args EXCEPT !.reqs = @ \div args.thrd]
  /\ stats' = [stats EXCEPT !.time = "point"]
  /\ UNCHANGED <<i, mapped, logf, armed, dumped, th, slot, http_req, walk>>

Distribute ==
  /\ pc = "init" /\ pc' = "log"
  /\ total_req' = args.reqs /\ leftover' = args.reqs % args.thrd
  /\ args' = [args EXCEPT !.reqs = @ \div args.thrd]
  /\ stats' = [stats EXCEPT !.time = "point"]
  /\ UNCHANGED <<i, mapped, logf, armed, dumped, th, slot, http_req, walk>>

\* LOG_INIT(i), and the remainder for the last thread.  A failing fopen() goes
\* unnoticed: NULL is not less than 0.
OpenLog ==
  /\ pc = "log" /\ pc' = "create"
  /\ \E f \in {"open"} \cup (IF "fopen" \in Failures THEN {"null"} ELSE {}) :
       logf' = [logf EXCEPT ![i] = f]
  /\ args' = [args EXCEPT !.reqs = @ + (IF i = args.thrd - 1 THEN leftover ELSE 0)]
  /\ UNCHANGED <<total_req, leftover, i, mapped, armed, dumped, stats, th, slot, http_req, walk>>

\* The manager with its connections.
CreateManager ==
  /\ pc = "create" /\ pc' = "start"
  /\ th' = [th EXCEPT ![i] = [Idle EXCEPT !.pc = "made", !.total = args.reqs]]
  /\ UNCHANGED <<args, total_req, leftover, i, mapped, logf, armed, dumped, stats, slot, http_req, walk>>

\* exit(1): no connection, or, after the manager is there, no URL to use.
NoManager ==
  /\ \/ pc = "create" /\ "connect" \in Failures
     \/ pc = "start" /\ ~args.use_url
  /\ pc' = "exit"
  /\ UNCHANGED <<args, total_req, leftover, i, mapped, logf, armed, dumped, stats, th, slot, http_req, walk>>

\* A failing pthread_create returns a positive number and goes unnoticed.
StartThread ==
  /\ pc = "start" /\ args.use_url /\ pc' = "register"
  /\ \E how \in {"begin"} \cup (IF "pthread_create" \in Failures THEN {"failed"} ELSE {}) :
       th' = [th EXCEPT ![i].pc = how]
  /\ UNCHANGED <<args, total_req, leftover, i, mapped, logf, armed, dumped, stats, slot, http_req, walk>>

\* g_thrd_id_mapping, STATS_THR_INIT and SIG_PROTECT_CM, with the thread running.
Register ==
  /\ pc = "register"
  /\ mapped' = IF th[i].pc = "failed" THEN mapped ELSE mapped \cup {i}
  /\ i' = i + 1 /\ pc' = IF i + 1 < args.thrd THEN "log" ELSE "signal"
  /\ UNCHANGED <<args, total_req, leftover, logf, armed, dumped, stats, th, slot, http_req, walk>>

InstallHandler ==
  /\ pc = "signal" /\ armed' = TRUE
  /\ i' = 0 /\ pc' = IF args.verbose THEN "progress" ELSE "join"
  /\ UNCHANGED <<args, total_req, leftover, mapped, logf, dumped, stats, th, slot, http_req, walk>>

\* stats_progress; as long as it is not over, main sleeps and asks again.
ProgressOver ==
  /\ pc = "progress" /\ \A t \in Mine : slot[t].fin
  /\ pc' = "join"
  /\ UNCHANGED <<args, total_req, leftover, i, mapped, logf, armed, dumped, stats, th, slot, http_req, walk>>

\* Mutant: the threads are not waited for.
JoinNot ==
  /\ pc = "join" /\ logf' = [logf EXCEPT ![i] = "closed"]
  /\ i' = i + 1 /\ pc' = IF i + 1 < args.thrd THEN "join" ELSE "time"
  /\ UNCHANGED <<args, total_req, leftover, mapped, armed, dumped, stats, th, slot, http_req, walk>>

\* pthread_join and LOG_CLOSE(i).
Join ==
  /\ pc = "join" /\ th[i].pc = "ended" /\ logf[i] = "open"
  /\ logf' = [logf EXCEPT ![i] = "closed"]
  /\ i' = i + 1 /\ pc' = IF i + 1 < args.thrd THEN "join" ELSE "time"
  /\ UNCHANGED <<args, total_req, leftover, mapped, armed, dumped, stats, th, slot, http_req, walk>>

\* Joining a thread that was never created, closing a file that is not open.
JoinFaults ==
  /\ pc = "join"
  /\ th[i].pc = "failed" \/ (th[i].pc = "ended" /\ logf[i] # "open")
  /\ pc' \in Faults
  /\ UNCHANGED <<args, total_req, leftover, i, mapped, logf, armed, dumped, stats, th, slot, http_req, walk>>

EndTime ==
  /\ pc = "time" /\ pc' = "dump"
  /\ stats' = [stats EXCEPT !.time = Ended(@)]
  /\ UNCHANGED <<args, total_req, leftover, i, mapped, logf, armed, dumped, th, slot, http_req, walk>>

\* stats_dump adds to what is there.
Summed == [stats EXCEPT !.recv = @ + Sum([t \in Mine |-> slot[t].recv]),
                        !.workload = @ + Sum([t \in Mine |-> slot[t].workload])]

Dump ==
  /\ pc = "dump" /\ pc' = "print" /\ stats' = Summed /\ dumped' = "main"
  /\ UNCHANGED <<args, total_req, leftover, i, mapped, logf, armed, th, slot, http_req, walk>>

Return ==
  /\ pc = "print" /\ pc' = "over"
  /\ UNCHANGED <<args, total_req, leftover, i, mapped, logf, armed, dumped, stats, th, slot, http_req, walk>>

Main == \/ Distribute \/ OpenLog \/ CreateManager \/ NoManager \/ StartThread \/ Register
        \/ InstallHandler \/ ProgressOver \/ Join \/ JoinFaults \/ EndTime \/ Dump \/ Return


-----------------------------------------------------------------------------
(* The threads.  Thread t counts in the slot its manager's number names. *)

ThrdNumWide(t) == 0     \* Mutant: everybody counts in slot 0.

ThrdNum(t) == t % THRD_NUM_MOD
S(t)       == slot[ThrdNum(t)]

At(t, where) == th[t].pc = where /\ ~Over
Go(t, where) == th' = [th EXCEPT ![t].pc = where]
Step(t, m)   == th' = [th EXCEPT ![t] = m]
mainVars     == <<args, total_req, leftover, i, mapped, armed, dumped, stats, logf, walk>>

Begin(t) == /\ At(t, "begin") /\ Go(t, "load")
            /\ slot' = [slot EXCEPT ![ThrdNum(t)].time = "point"]
            /\ UNCHANGED <<mainVars, pc, http_req>>

\* http_req_obj_ins_header_by_idx: dirty_bit_align is read ...
InsLoad(t) == /\ At(t, "load")
              /\ Step(t, [th[t] EXCEPT !.pc = "store", !.dirty = http_req.dirty])
              /\ UNCHANGED <<mainVars, pc, slot, http_req>>

\* Mutant: Host comes last.
NextToInsertHostLast(t) == <<"User-Agent", "Connection", "Host">>[th[t].k]

NextToInsert(t) == Inserted[th[t].k]

\* ... and written back with one more header, whatever other threads have
\* written in between; then the value.  (That every thread writes the same
\* value but for Connection makes one step of the two: a reader of the value
\* has written its own before.)
InsStore(t) ==
  LET h == NextToInsert(t)
  IN  /\ At(t, "store")
      /\ http_req' = [http_req EXCEPT
           !.dirty = th[t].dirty \cup {h},
           !.conn = IF h # "Connection" THEN @
                    ELSE IF th[t].total > 1 THEN "keep-alive" ELSE "close"]
      /\ IF th[t].k < Len(Inserted)
           THEN Step(t, [th[t] EXCEPT !.pc = "load", !.k = @ + 1])
           ELSE Step(t, [th[t] EXCEPT !.pc = "copy", !.k = 1, !.dirty = {}])
      /\ UNCHANGED <<mainVars, pc, slot>>

\* http_req_finish: the table's headers that are set, one after the other.
Field(h) == IF h = "Connection" THEN <<h, http_req.conn>> ELSE <<h, "value">>
Copy(t) ==
  LET h == Headers[th[t].k]
  IN  /\ At(t, "copy")
      /\ Step(t, [th[t] EXCEPT
           !.req = @ \cup (IF h \in http_req.dirty THEN {Field(h)} ELSE {}),
           !.pc  = IF th[t].k < Len(Headers) THEN "copy" ELSE IF CUSTOM THEN "custom" ELSE "log",
           !.k   = IF th[t].k < Len(Headers) THEN @ + 1 ELSE 1])
      /\ UNCHANGED <<mainVars, pc, slot, http_req>>

\* The other header is split at its colon, in place: strchr ...
CustomFind(t) ==
  /\ At(t, "custom")
  /\ IF http_req.custom = "HDR:VAL"
       THEN Go(t, "cut")
       ELSE Step(t, [th[t] EXCEPT !.pc = "log", !.req = @ \cup {<<"HDR", "blank">>}])
  /\ UNCHANGED <<mainVars, pc, slot, http_req>>

\* ... and '\0' over the colon of the shared string.
CustomCut(t) ==
  /\ At(t, "cut")
  /\ http_req' = [http_req EXCEPT !.custom = "HDR"]
  /\ Step(t, [th[t] EXCEPT !.pc = "log", !.req = @ \cup {<<"HDR", "value">>}])
  /\ UNCHANGED <<mainVars, pc, slot>>

\* syslog writes to the file of the thread found in g_thrd_id_mapping; with
\* index -1, or to a file that is not open, nothing or a fault is the result.
\* The request is logged once; the loops log all the time, from their first
\* poll() on; the end of a non-blocking thread is logged, too.
LogGood(t) == t \in mapped /\ logf[t] = "open"
LogFaults(t) ==
  /\ \/ At(t, "log") /\ args.log \in {"KB", "ALL"}
     \/ At(t, "run") /\ args.log \in {"KB_CM", "ALL"}
     \/ At(t, "end") /\ args.log \in {"KB_CM", "ALL"} /\ args.use_non_block
  /\ ~LogGood(t)
  /\ \/ pc' = "exit" /\ UNCHANGED <<mainVars, th, slot, http_req>>
     \/ /\ th[t].pc # "log" /\ args.use_non_block
        /\ Go(t, "spin") /\ UNCHANGED <<mainVars, pc, slot, http_req>>

LogRequest(t) == /\ At(t, "log") /\ Step(t, [th[t] EXCEPT !.pc = "run", !.req = {}])
                 /\ UNCHANGED <<mainVars, pc, slot, http_req>>

\* An answer is counted in the statistics and credited to its connection: in
\* this order with blocking sockets, where a 4xx is counted without credit, in
\* the other one without.
Receive(t) ==
  /\ At(t, "run") /\ th[t].rcvd < th[t].total
  /\ \/ Step(t, [th[t] EXCEPT !.pc = "count", !.got = @ + 1, !.reg = S(t).recv,
                              !.rcvd = @ + (IF args.use_non_block THEN 1 ELSE 0)])
     \/ /\ ~args.use_non_block /\ Sum([u \in Mine |-> th[u].errs]) < MaxErrs
        /\ Step(t, [th[t] EXCEPT !.pc = "count", !.got = @ + 1, !.reg = S(t).recv, !.errs = @ + 1,
                                 !.k = 2])
  /\ UNCHANGED <<mainVars, pc, slot, http_req>>

Count(t) ==
  /\ At(t, "count")
  /\ slot' = [slot EXCEPT ![ThrdNum(t)].recv = th[t].reg + 1]
  /\ Step(t, [th[t] EXCEPT !.k = 1, !.reg = 0,
                           !.pc = IF args.use_non_block \/ th[t].k = 2 THEN "run" ELSE "credit"])
  /\ UNCHANGED <<mainVars, pc, http_req>>

Credit(t) == /\ At(t, "credit")
             /\ Step(t, [th[t] EXCEPT !.pc = "run", !.rcvd = @ + 1])
             /\ UNCHANGED <<mainVars, pc, slot, http_req>>

\* All is answered; a non-blocking thread may also give up waiting.
Leave(t) == /\ At(t, "run") /\ (th[t].rcvd = th[t].total \/ args.use_non_block)
            /\ Go(t, "end") /\ UNCHANGED <<mainVars, pc, slot, http_req>>

\* exit(1) of a thread: a 5xx, a redirection, a failing send().
Abort(t) == /\ At(t, "run") /\ "exit" \in Failures
            /\ pc' = "exit" /\ UNCHANGED <<mainVars, th, slot, http_req>>

\* Mutant: the time ends, but the thread does not say that it has finished.
EndSilently(t) == /\ At(t, "end") /\ Go(t, "conn")
                  /\ slot' = [slot EXCEPT ![ThrdNum(t)].time = Ended(@)]
                  /\ UNCHANGED <<mainVars, pc, http_req>>

\* STATS_THR_TIME_END.
End(t) == /\ At(t, "end") /\ Go(t, "conn")
          /\ slot' = [slot EXCEPT ![ThrdNum(t)].time = Ended(@), ![ThrdNum(t)].fin = TRUE]
          /\ UNCHANGED <<mainVars, pc, http_req>>

\* STATS_CONN: workload += rcvd_res, read and written.
ConnLoad(t) == /\ At(t, "conn")
               /\ Step(t, [th[t] EXCEPT !.pc = "conn2", !.reg = S(t).workload + th[t].rcvd])
               /\ UNCHANGED <<mainVars, pc, slot, http_req>>

ConnStore(t) == /\ At(t, "conn2") /\ Step(t, [th[t] EXCEPT !.pc = "free", !.reg = 0])
                /\ slot' = [slot EXCEPT ![ThrdNum(t)].workload = th[t].reg]
                /\ UNCHANGED <<mainVars, pc, http_req>>

\* The manager is freed and the thread ends.
Free(t) == At(t, "free") /\ Go(t, "ended") /\ UNCHANGED <<mainVars, pc, slot, http_req>>

Thread(t) == \/ Begin(t) \/ InsLoad(t) \/ InsStore(t) \/ Copy(t) \/ CustomFind(t) \/ CustomCut(t)
             \/ LogFaults(t) \/ LogRequest(t) \/ Receive(t) \/ Count(t) \/ Credit(t) \/ Leave(t) \/ Abort(t)
             \/ End(t) \/ ConnLoad(t) \/ ConnStore(t) \/ Free(t)

-----------------------------------------------------------------------------
(* SIGINT, on the main thread.  Its handler never returns to main, so pc and *)
(* i are its own from here on.                                               *)

Walking      == {"walk", "walk2", "interrupted"}
handlerConst == <<args, total_req, leftover, mapped, armed, th, http_req>>

Interrupt ==
  /\ INTERRUPT /\ ~Over /\ pc \notin Walking \cup {"spin"}
  /\ pc' = (IF armed THEN "walk" ELSE "exit") /\ i' = 0
  /\ UNCHANGED <<handlerConst, slot, stats, dumped, logf, walk>>

\* Mutant: all answers are added, not only those that were credited.
WalkLoadAll ==
  /\ pc = "walk" /\ pc' = "walk2" /\ UNCHANGED i
  /\ walk' = [num |-> ThrdNum(i), sum |-> slot[ThrdNum(i)].workload + th[i].got]
  /\ UNCHANGED <<handlerConst, slot, stats, dumped, logf>>

\* STATS_CONN of the next manager: workload is read ...  A manager that its
\* thread has freed may look as before, or hold anything, or not be there.
WalkLoad ==
  /\ pc = "walk" /\ UNCHANGED i
  /\ \/ \E n \in IF th[i].pc = "ended" THEN Thrds ELSE {ThrdNum(i)},
           r \in {th[i].rcvd} \cup (IF th[i].pc = "ended" THEN GARBAGE ELSE {}) :
          /\ pc' = "walk2" /\ walk' = [num |-> n, sum |-> slot[n].workload + r]
     \/ th[i].pc = "ended" /\ pc' \in Faults /\ UNCHANGED walk
  /\ UNCHANGED <<handlerConst, slot, stats, dumped, logf>>

\* ... and written; STATS_THR_TIME_END; LOG_CLOSE.
WalkStore ==
  /\ pc = "walk2" /\ i' = i + 1 /\ pc' = IF i + 1 < args.thrd THEN "walk" ELSE "interrupted"
  /\ slot' = [slot EXCEPT ![walk.num] =
                [slot[walk.num] EXCEPT !.workload = walk.sum, !.time = Ended(@), !.fin = TRUE]]
  /\ logf' = [logf EXCEPT ![walk.num] = "closed"] /\ walk' = [num |-> 0, sum |-> 0]
  /\ UNCHANGED <<handlerConst, stats, dumped>>

\* Closing what is not open may fault.
WalkFaults ==
  /\ pc = "walk2" /\ logf[walk.num] # "open" /\ pc' \in Faults
  /\ UNCHANGED <<handlerConst, i, slot, stats, dumped, logf, walk>>

\* STATS_TIME_END, STATS_DUMP, exit.
WalkEnd ==
  /\ pc = "interrupted" /\ pc' = "exit"
  /\ stats' = [Summed EXCEPT !.time = Ended(@)]
  /\ dumped' = IF dumped = "no" THEN "handler" ELSE "both"
  /\ UNCHANGED <<handlerConst, i, slot, logf, walk>>

OnMain == ~Over /\ (Main \/ WalkLoad \/ WalkStore \/ WalkFaults \/ WalkEnd)

Finished == (Over \/ pc = "spin" \/ \E t \in Mine : th[t].pc \in {"spin", "failed"}) /\ UNCHANGED vars

Next == OnMain \/ Interrupt \/ (\E t \in Mine : Thread(t)) \/ Finished
Spec == Init /\ [][Next]_vars

FairSpec == Spec /\ WF_vars(OnMain) /\ \A t \in Thrds : WF_vars(Thread(t))

-----------------------------------------------------------------------------
(* Properties *)

Running == {"begin", "load", "store", "copy", "custom", "cut", "log", "run", "count", "credit",
            "end", "conn", "conn2", "free"}
FieldValues == {"value", "blank", "none", "keep-alive", "close"}
Managers == [pc : {"none", "made", "failed", "spin", "ended"} \cup Running,
             total : Nat, rcvd : Nat, got : Nat, errs : Nat, reg : Nat,
             k : 1..4, dirty : SUBSET HeaderNames, req : SUBSET ((HeaderNames \cup {"HDR"}) \X FieldValues)]
Statistics == [recv : Nat, workload : Nat, time : {"duration", "point"}, fin : BOOLEAN]

TypeOK ==
  /\ args \in Arguments /\ total_req \in Nat /\ leftover \in 0..(args.thrd - 1)
  /\ pc \in {"init", "log", "create", "start", "register", "signal", "progress", "join", "time",
             "dump", "print", "over", "exit", "spin"} \cup Walking
  /\ i \in 0..args.thrd
  /\ th \in [Thrds -> Managers] /\ \A t \in Thrds : th[t].rcvd <= th[t].total
  /\ slot \in [Thrds -> Statistics]
  /\ http_req \in [dirty : SUBSET HeaderNames, conn : {"none", "keep-alive", "close"},
                   custom : {"HDR:VAL", "HDR"}]
  /\ logf \in [Thrds -> {"none", "open", "null", "closed"}]
  /\ mapped \subseteq Mine /\ walk \in [num : Thrds, sum : Nat] /\ armed \in BOOLEAN

\* The loop of main hands every request to exactly one thread: one share each
\* and what does not divide evenly to the last, by way of args->reqs, from which
\* each manager takes its share.  Every share has a request for each connection
\* (kb.c:48-57).
EachRequestOnce ==
  \A t \in Mine : th[t].pc # "none" =>
    /\ th[t].total >= args.conn
    /\ IF t < args.thrd - 1 THEN th[t].total = total_req \div args.thrd
       ELSE th[t].total = total_req - t * (total_req \div args.thrd)

\* Whatever insertions of other threads http_req_finish meets in the shared
\* object, the request a thread has built carries Host and the headers of the
\* user, and no field without a value.  (Connection may be missing, or be that
\* of another thread.)
RequestsWellFormed ==
  \A t \in Mine : th[t].pc \in {"custom", "cut", "log"} =>
    /\ \A h \in UserHeaders \cup {"Host"} : \E f \in th[t].req : f[1] = h
    /\ <<"Connection", "none">> \notin th[t].req

\* A thread that runs is in the table of ids, but for the moment between its
\* start and its registration, and has its file open to log to, unless fopen
\* failed or SIGINT is on its way to the end.
LogsToOwnFile ==
  \A t \in Mine : th[t].pc \in Running /\ ~Over =>
    /\ t \in mapped \/ (pc = "register" /\ i = t)
    /\ logf[t] \in {"open", "null"} \/ pc \in Walking \cup {"spin"}

Times     == {slot[t].time : t \in Mine} \cup {stats.time}

\* What kb prints when it is done is what its threads have received, and all
\* times are durations; with blocking sockets it is the requests asked for.
DumpExact ==
  dumped = "main" /\ pc \in {"print", "over"} =>
    /\ stats.recv = Sum([t \in Mine |-> th[t].got]) /\ stats.workload = Sum([t \in Mine |-> th[t].rcvd])
    /\ Times = {"duration"}
    /\ ~args.use_non_block => stats.workload = total_req

\* What SIGINT prints is no more than what was received: the responses the
\* threads have counted, and twice that if main has summed them up before (a
\* SIGINT that meets main in its own STATS_DUMP, or behind it).  The answers of
\* the connections, which the handler takes from the managers, are claimed only
\* when no thread has freed its manager, for a freed one may hold any number;
\* those of a thread that is about to end may be there twice.
InterruptHonest ==
  LET received == Sum([t \in Mine |-> th[t].got])
  IN  /\ dumped = "handler" => stats.recv <= received
      /\ dumped = "both" => stats.recv <= 2 * received
      /\ dumped = "handler" /\ (\A t \in Mine : th[t].pc # "ended") =>
           stats.workload <= Sum([t \in Mine |->
             IF th[t].pc \in {"conn2", "free"} THEN 2 * th[t].rcvd ELSE th[t].rcvd])

\* kb ends: main does not wait for a thread that will not end, and -v not for
\* one whose is_fin is never set, unless a thread was never created or somebody
\* returns to a bad access for ever.
MainEnds == <>(Over \/ pc = "spin" \/ \E t \in Mine : th[t].pc \in {"failed", "spin"})

\* The manual says of -H HDR:VAL that it adds a field name and a value.
CustomHeaderSent == \A t \in Mine : <<"HDR", "blank">> \notin th[t].req
=============================================================================
