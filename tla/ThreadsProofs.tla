--------------------------- MODULE ThreadsProofs ---------------------------
(***************************************************************************)
(* What Threads guarantees for every number of threads, connections and    *)
(* requests: the split of the requests, the requests built from the shared *)
(* object, and the log files.  IInv is inductive; a thread's step leaves   *)
(* all of main's bookkeeping alone (Moves), so that the split and the      *)
(* files need looking at in main's and the handler's steps only.  On top   *)
(* of it stand two accounts of what is printed: the ledger of every share  *)
(* the handler of SIGINT may add up (Ledger), and the exact sums of main   *)
(* when each thread counts in a slot of its own (Exact).                   *)
(***************************************************************************)
EXTENDS Threads, CountingProofs

\* The split: what main has to hand out when it comes to thread i.
Shares ==
  /\ pc = "init" => args.reqs >= args.thrd * args.conn /\ \A t \in Thrds : th[t].pc = "none"
  /\ pc \notin {"init", "exit"} =>
       total_req >= args.thrd * args.conn /\ leftover = total_req % args.thrd
  /\ pc = "log" => args.reqs = total_req \div args.thrd
  /\ pc \in {"create", "start", "register"} =>
       args.reqs = (total_req \div args.thrd) + (IF i = args.thrd - 1 THEN leftover ELSE 0)
  /\ EachRequestOnce

\* The loop that starts the threads: those behind i are not there yet, and
\* SIGINT still ends kb at once.
Started ==
  /\ pc = "init" => i = 0
  /\ pc \in {"log", "create"} => \A t \in Mine : t >= i => th[t].pc = "none"
  /\ pc \in {"start", "register"} => \A t \in Mine : t > i => th[t].pc = "none"
  /\ pc = "start" => th[i].pc = "made"
  /\ pc = "register" => th[i].pc \notin {"none", "made"}
  /\ pc \in {"init", "log", "create", "start", "register", "signal"} => ~armed
  /\ pc \in {"log", "create", "start", "register", "progress", "join", "walk", "walk2"} => i < args.thrd

\* A file is open from before its manager is made until its thread has ended.
Files ==
  /\ LogsToOwnFile
  /\ pc \in {"create", "start", "register"} => logf[i] \in {"open", "null"}
  /\ \A t \in Mine : th[t].pc \notin {"none", "ended"} /\ ~Over /\ pc \notin Walking \cup {"spin"}
       => logf[t] \in {"open", "null"}

\* Fields of the request: Carries(t, h), a field of that name.
Carries(t, h) == \E f \in th[t].req : f[1] = h

\* A header once inserted is never lost, whatever stale dirty bits are written
\* back: all that write have inserted Host, and read the user's headers.
Inserting(t) ==
  /\ th[t].pc \in {"made", "begin"} => th[t].k = 1
  /\ th[t].pc \in {"made", "begin", "load", "store"} => th[t].req = {}
  /\ th[t].pc \in {"load", "store"} => th[t].k \in 1..3
  /\ (th[t].pc \in {"load", "store"} /\ th[t].k > 1) \/ th[t].pc = "copy" => "Host" \in http_req.dirty
  /\ th[t].pc = "store" =>
       /\ UserHeaders \subseteq th[t].dirty
       /\ th[t].k > 1 => "Host" \in th[t].dirty
       /\ "Connection" \in th[t].dirty => http_req.conn # "none"

\* The request under construction.
Building(t) ==
  /\ th[t].pc \in {"copy", "custom", "cut", "log"} => <<"Connection", "none">> \notin th[t].req
  /\ th[t].pc = "copy" => /\ th[t].k > 1 /\ "Accept" \in UserHeaders => Carries(t, "Accept")
                          /\ th[t].k > 3 => Carries(t, "Host")
  /\ th[t].pc \in {"custom", "cut", "log"} => \A h \in UserHeaders \cup {"Host"} : Carries(t, h)

Shared == /\ UserHeaders \subseteq http_req.dirty
          /\ "Connection" \in http_req.dirty => http_req.conn # "none"

Built == Shared /\ \A t \in Thrds : Inserting(t) /\ Building(t)

\* An answer to credit is one that is missing.
Counted ==
  \A t \in Thrds :
    th[t].pc = "credit" \/ (th[t].pc = "count" /\ th[t].k # 2 /\ ~args.use_non_block)
      => th[t].rcvd < th[t].total

IInv == TypeOK /\ Shares /\ Started /\ Files /\ Built /\ Counted

-----------------------------------------------------------------------------
(* Arithmetic. *)

LEMMA Quotient ==
  ASSUME NEW n \in Nat, NEW d \in Nat \ {0}
  PROVE  /\ n \div d \in Nat /\ n % d \in 0..(d - 1)
         /\ n = d * (n \div d) + (n % d)
  BY SMT

\* As many requests as connections make shares of as many requests as a thread
\* has connections.
LEMMA ShareSuffices ==
  ASSUME NEW n \in Nat, NEW d \in Nat \ {0}, NEW c \in Nat, n >= d * c
  PROVE  n \div d >= c
<1> DEFINE q == n \div d
           r == n % d
<1>1. q \in Nat /\ r \in 0..(d - 1) /\ n = d * q + r
  BY Quotient
<1> HIDE DEF q, r
<1>2. SUFFICES ASSUME q + 1 <= c PROVE FALSE
  BY <1>1 DEF q
<1>3. d * (q + 1) <= d * c
  BY <1>1, <1>2, SMT
<1>4. d * (q + 1) = d * q + d
  BY <1>1, SMT
<1>. QED
  BY <1>1, <1>3, <1>4, SMT

\* The last of d shares is what the others leave.
LEMMA LastShare ==
  ASSUME NEW n \in Nat, NEW d \in Nat \ {0}
  PROVE  (n \div d) + (n % d) = n - (d - 1) * (n \div d)
<1> DEFINE q == n \div d
           r == n % d
<1>1. q \in Nat /\ r \in Nat /\ n = d * q + r
  BY Quotient
<1> HIDE DEF q, r
<1>2. (d - 1) * q = d * q - q
  BY <1>1, SMT
<1>. QED
  BY <1>1, <1>2, SMT DEF q, r

-----------------------------------------------------------------------------
(* Steps that leave main's bookkeeping, or the threads, as they are. *)

\* A step of thread t, which runs on or ends.
Moves(t, m) ==
  /\ th' = [th EXCEPT ![t] = m] /\ m \in Managers /\ m.total = th[t].total
  /\ th[t].pc \in Running /\ m.pc \in Running \cup {"ended", "spin"}
  /\ UNCHANGED <<mainVars, pc>>

LEMMA MineInThrds == ASSUME TypeOK PROVE /\ Mine \subseteq Thrds /\ args.thrd \in Nat \ {0}
                                         /\ args.thrd <= MAX_THREAD
<1>1. MAX_THREAD \in Nat \ {0} /\ args.thrd \in 1..MAX_THREAD
  BY ThreadsAssumption DEF TypeOK, Arguments
<1>. QED
  BY <1>1 DEF Mine, Thrds

LEMMA ThreadFrame ==
  ASSUME TypeOK, Shares, Started, Files, NEW t \in Mine, NEW m, Moves(t, m), ~Over
  PROVE  Shares' /\ Started' /\ Files'
<1> USE MineInThrds
<1>1. /\ Mine' = Mine /\ Over' = Over /\ UNCHANGED <<args, total_req, leftover, i, mapped, armed, logf, pc>>
      /\ t \in Thrds /\ th \in [Thrds -> Managers]
  BY DEF Moves, mainVars, Mine, Over, TypeOK
<1>2. /\ \A u \in Thrds : u # t => th'[u] = th[u]
      /\ th'[t] = m /\ m.total = th[t].total
      /\ th[t].pc \in Running /\ m.pc \in Running \cup {"ended", "spin"}
  BY <1>1 DEF Moves
<1>3. EachRequestOnce'
  BY <1>1, <1>2 DEF Shares, EachRequestOnce, Running
<1>4. Shares'
  BY <1>1, <1>2, <1>3 DEF Shares, Running
<1>5. i \in Int /\ (pc \in {"log", "create", "start", "register"} => i \in Mine)
  BY DEF TypeOK, Started, Mine
<1>6. Started'
  BY <1>1, <1>2, <1>5 DEF Started, Running, Mine
<1>7. LogsToOwnFile'
  BY <1>1, <1>2 DEF Files, LogsToOwnFile, Running
<1>8. Files'
  BY <1>1, <1>2, <1>7 DEF Files, Running
<1>. QED
  BY <1>4, <1>6, <1>8

\* kb is over: what the files and the loop are for is so, too.
LEMMA ExitFrame ==
  ASSUME TypeOK, Shares, pc' \in {"exit"}, UNCHANGED <<args, total_req, th>>
  PROVE  Shares' /\ Started' /\ Files'
  BY DEF Shares, EachRequestOnce, Started, Files, LogsToOwnFile, Over, Mine, Walking

LEMMA BuiltFrame ==
  ASSUME Built, Counted, UNCHANGED <<th, http_req>>, args'.use_non_block = args.use_non_block
  PROVE  Built' /\ Counted'
  BY DEF Built, Shared, Inserting, Building, Carries, Counted

Constructing == {"made", "begin", "load", "store", "copy", "custom", "cut", "log"}

\* A thread that is past the construction of its request.
LEMMA BuiltElsewhere ==
  ASSUME TypeOK, Built, NEW t \in Thrds, NEW m, th' = [th EXCEPT ![t] = m],
         m.pc \notin Constructing, UNCHANGED http_req
  PROVE  Built'
  BY DEF TypeOK, Built, Shared, Inserting, Building, Carries, Constructing

LEMMA CountedFrame ==
  ASSUME TypeOK, Counted, NEW t \in Thrds, NEW m, th' = [th EXCEPT ![t] = m], UNCHANGED args,
         m.pc \notin {"count", "credit"}
  PROVE  Counted'
  BY DEF TypeOK, Counted

-----------------------------------------------------------------------------
(* The steps of a thread. *)

LEMMA SlotInRange == ASSUME NEW t \in Thrds PROVE ThrdNum(t) \in Thrds
<1>1. t \in Nat /\ THRD_NUM_MOD \in Nat \ {0} /\ MAX_THREAD \in Nat
  BY ThreadsAssumption DEF Thrds
<1>2. /\ t \div THRD_NUM_MOD \in Nat /\ t % THRD_NUM_MOD \in Nat
      /\ t = THRD_NUM_MOD * (t \div THRD_NUM_MOD) + (t % THRD_NUM_MOD)
  BY <1>1, SMT
<1>3. t % THRD_NUM_MOD <= t
  BY <1>1, <1>2, SMT
<1>. QED
  BY <1>1, <1>2, <1>3 DEF ThrdNum, Thrds

LEMMA TypeFrame ==
  ASSUME TypeOK, NEW t \in Mine, NEW m, Moves(t, m), m.rcvd <= m.total,
         slot' \in [Thrds -> Statistics],
         http_req' \in [dirty : SUBSET HeaderNames, conn : {"none", "keep-alive", "close"},
                       custom : {"HDR:VAL", "HDR"}]
  PROVE  TypeOK'
<1>1. t \in Thrds
  BY MineInThrds
<1>2. UNCHANGED <<args, total_req, leftover, i, mapped, armed, logf, walk, pc>>
  BY DEF Moves, mainVars
<1>3. th' \in [Thrds -> Managers] /\ \A u \in Thrds : th'[u].rcvd <= th'[u].total
  BY <1>1 DEF Moves, TypeOK
<1>. QED
  BY <1>2, <1>3 DEF TypeOK, Mine, Walking

LEMMA BeginInv == ASSUME IInv, NEW t \in Mine, Begin(t) PROVE IInv'
<1> DEFINE m == [th[t] EXCEPT !.pc = "load"]
<1> USE DEF IInv
<1>1. t \in Thrds /\ th[t] \in Managers /\ th[t].rcvd <= th[t].total /\ ~Over
  BY MineInThrds DEF TypeOK, Begin, At
<1>2. ThrdNum(t) \in Thrds /\ slot[ThrdNum(t)] \in Statistics
  BY <1>1, SlotInRange DEF TypeOK
<1>w. slot[ThrdNum(t)].workload \in Nat /\ slot[ThrdNum(t)].recv \in Nat
  BY <1>2 DEF Statistics
<1>3. Moves(t, m) /\ m.rcvd <= m.total
  <2>1. m \in Managers
    BY <1>1 DEF Managers, Running
  <2>3. /\ m.total = th[t].total /\ m.rcvd <= m.total /\ m.pc \in Running \cup {"ended", "spin"}
    BY <1>1 DEF Managers, Running
  <2>2. th[t].pc \in Running /\ th' = [th EXCEPT ![t] = m] /\ UNCHANGED <<mainVars, pc>>
    BY DEF Begin, At, Go, Step, Running
  <2>. QED BY <2>1, <2>2, <2>3 DEF Moves
<1>4. slot' \in [Thrds -> Statistics]
  BY <1>1, <1>2 DEF TypeOK, Begin, Ended, Managers, Statistics
<1>5. UNCHANGED http_req
  BY DEF Begin
<1>6. TypeOK'
  <2> HIDE DEF m
  <2>. QED BY <1>1, <1>3, <1>4, <1>5, TypeFrame DEF TypeOK
<1>7. Shares' /\ Started' /\ Files'
  <2> HIDE DEF m
  <2>. QED BY <1>1, <1>3, ThreadFrame
<1>8. th' = [th EXCEPT ![t] = m] /\ UNCHANGED args
  BY <1>3 DEF Moves, mainVars
<1>9. Built'
  <2>1. th[t].pc = "begin" /\ th[t].k = 1 /\ th[t].req = {}
    BY <1>1 DEF Begin, At, Built, Inserting
  <2>2. m.pc = "load" /\ m.k = 1 /\ m.req = {}
    BY <1>1, <2>1 DEF Managers
  <2>3. th'[t] = m /\ \A u \in Thrds : u # t => th'[u] = th[u]
    BY <1>1, <1>8 DEF TypeOK
  <2> HIDE DEF m
  <2>. QED BY <1>1, <1>5, <2>2, <2>3 DEF Built, Shared, Inserting, Building, Carries
<1>b. m.pc \notin {"count", "credit"}
  BY <1>1 DEF Managers
<1>10. Counted'
  <2> HIDE DEF m
  <2>. QED BY <1>1, <1>8, <1>b, CountedFrame
<1>. QED
  BY <1>6, <1>7, <1>9, <1>10

LEMMA InsLoadInv == ASSUME IInv, NEW t \in Mine, InsLoad(t) PROVE IInv'
<1> DEFINE m == [th[t] EXCEPT !.pc = "store", !.dirty = http_req.dirty]
<1> USE DEF IInv
<1>1. t \in Thrds /\ th[t] \in Managers /\ th[t].rcvd <= th[t].total /\ ~Over
  BY MineInThrds DEF TypeOK, InsLoad, At
<1>3. Moves(t, m) /\ m.rcvd <= m.total
  <2>1. m \in Managers
    BY <1>1 DEF Managers, Running, TypeOK
  <2>3. /\ m.total = th[t].total /\ m.rcvd <= m.total /\ m.pc \in Running \cup {"ended", "spin"}
    BY <1>1 DEF Managers, Running
  <2>2. th[t].pc \in Running /\ th' = [th EXCEPT ![t] = m] /\ UNCHANGED <<mainVars, pc>>
    BY DEF InsLoad, At, Go, Step, Running
  <2>. QED BY <2>1, <2>2, <2>3 DEF Moves
<1>4. UNCHANGED slot
  BY DEF InsLoad
<1>5. UNCHANGED http_req
  BY DEF InsLoad
<1>6. TypeOK'
  <2> HIDE DEF m
  <2>. QED BY <1>1, <1>3, <1>4, <1>5, TypeFrame DEF TypeOK
<1>7. Shares' /\ Started' /\ Files'
  <2> HIDE DEF m
  <2>. QED BY <1>1, <1>3, ThreadFrame
<1>8. th' = [th EXCEPT ![t] = m] /\ UNCHANGED args
  BY <1>3 DEF Moves, mainVars
<1>9. Built'
  BY <1>1, <1>5, <1>8 DEF Built, Shared, Inserting, Building, Carries, TypeOK, Managers, InsLoad, At
<1>b. m.pc \notin {"count", "credit"}
  BY <1>1 DEF Managers
<1>10. Counted'
  <2> HIDE DEF m
  <2>. QED BY <1>1, <1>8, <1>b, CountedFrame
<1>. QED
  BY <1>6, <1>7, <1>9, <1>10

LEMMA LogRequestInv == ASSUME IInv, NEW t \in Mine, LogRequest(t) PROVE IInv'
<1> DEFINE m == [th[t] EXCEPT !.pc = "run", !.req = {}]
<1> USE DEF IInv
<1>1. t \in Thrds /\ th[t] \in Managers /\ th[t].rcvd <= th[t].total /\ ~Over
  BY MineInThrds DEF TypeOK, LogRequest, At
<1>3. Moves(t, m) /\ m.rcvd <= m.total
  <2>1. m \in Managers
    BY <1>1 DEF Managers, Running
  <2>3. /\ m.total = th[t].total /\ m.rcvd <= m.total /\ m.pc \in Running \cup {"ended", "spin"}
    BY <1>1 DEF Managers, Running
  <2>2. th[t].pc \in Running /\ th' = [th EXCEPT ![t] = m] /\ UNCHANGED <<mainVars, pc>>
    BY DEF LogRequest, At, Go, Step, Running
  <2>. QED BY <2>1, <2>2, <2>3 DEF Moves
<1>4. UNCHANGED slot
  BY DEF LogRequest
<1>5. UNCHANGED http_req
  BY DEF LogRequest
<1>6. TypeOK'
  <2> HIDE DEF m
  <2>. QED BY <1>1, <1>3, <1>4, <1>5, TypeFrame DEF TypeOK
<1>7. Shares' /\ Started' /\ Files'
  <2> HIDE DEF m
  <2>. QED BY <1>1, <1>3, ThreadFrame
<1>8. th' = [th EXCEPT ![t] = m] /\ UNCHANGED args
  BY <1>3 DEF Moves, mainVars
<1>a. m.pc \notin Constructing
  BY <1>1 DEF Managers, Constructing
<1>9. Built'
  <2> HIDE DEF m
  <2>. QED BY <1>1, <1>5, <1>8, <1>a, BuiltElsewhere
<1>b. m.pc \notin {"count", "credit"}
  BY <1>1 DEF Managers
<1>10. Counted'
  <2> HIDE DEF m
  <2>. QED BY <1>1, <1>8, <1>b, CountedFrame
<1>. QED
  BY <1>6, <1>7, <1>9, <1>10

LEMMA CountInv == ASSUME IInv, NEW t \in Mine, Count(t) PROVE IInv'
<1> DEFINE v == IF args.use_non_block \/ th[t].k = 2 THEN "run" ELSE "credit"
           m == [th[t] EXCEPT !.k = 1, !.reg = 0, !.pc = v]
<1> USE DEF IInv
<1>1. t \in Thrds /\ th[t] \in Managers /\ th[t].rcvd <= th[t].total /\ ~Over
  BY MineInThrds DEF TypeOK, Count, At
<1>2. ThrdNum(t) \in Thrds /\ slot[ThrdNum(t)] \in Statistics
  BY <1>1, SlotInRange DEF TypeOK
<1>w. slot[ThrdNum(t)].workload \in Nat /\ slot[ThrdNum(t)].recv \in Nat
  BY <1>2 DEF Statistics
<1>v. /\ v \in {"run", "credit"}
      /\ v = "credit" => ~args.use_non_block /\ th[t].k # 2
  OBVIOUS
<1> HIDE DEF v
<1>3. Moves(t, m) /\ m.rcvd <= m.total
  <2>1. m \in Managers
    <3>0. 1 \in 1..4 /\ 0 \in Nat
      OBVIOUS
    <3>1. [th[t] EXCEPT !.k = 1, !.reg = 0] \in Managers
      BY <1>1, <3>0 DEF Managers
    <3>2. [[th[t] EXCEPT !.k = 1, !.reg = 0] EXCEPT !.pc = v] \in Managers
      BY <3>1, <1>v DEF Managers, Running
    <3>. QED BY <3>2
  <2>3. /\ m.total = th[t].total /\ m.rcvd <= m.total /\ m.pc \in Running \cup {"ended", "spin"}
    BY <1>1, <1>v DEF Managers, Running
  <2>2. th[t].pc \in Running /\ th' = [th EXCEPT ![t] = m] /\ UNCHANGED <<mainVars, pc>>
    BY DEF Count, At, Go, Step, Running, v
  <2>. QED BY <2>1, <2>2, <2>3 DEF Moves
<1>4. slot' \in [Thrds -> Statistics]
  BY <1>1, <1>2 DEF TypeOK, Count, Ended, Managers, Statistics
<1>5. UNCHANGED http_req
  BY DEF Count
<1>6. TypeOK'
  <2> HIDE DEF m
  <2>. QED BY <1>1, <1>3, <1>4, <1>5, TypeFrame DEF TypeOK
<1>7. Shares' /\ Started' /\ Files'
  <2> HIDE DEF m
  <2>. QED BY <1>1, <1>3, ThreadFrame
<1>8. th' = [th EXCEPT ![t] = m] /\ UNCHANGED args
  BY <1>3 DEF Moves, mainVars
<1>a. m.pc \notin Constructing
  BY <1>1, <1>v DEF Managers, Constructing
<1>9. Built'
  <2> HIDE DEF m
  <2>. QED BY <1>1, <1>5, <1>8, <1>a, BuiltElsewhere
<1>10. Counted'
  BY <1>1, <1>8, <1>v DEF Counted, TypeOK, Managers, Count, At
<1>. QED
  BY <1>6, <1>7, <1>9, <1>10

LEMMA CreditInv == ASSUME IInv, NEW t \in Mine, Credit(t) PROVE IInv'
<1> DEFINE v == th[t].rcvd + 1
           m == [th[t] EXCEPT !.pc = "run", !.rcvd = v]
<1> USE DEF IInv
<1>1. t \in Thrds /\ th[t] \in Managers /\ th[t].rcvd <= th[t].total /\ ~Over
  BY MineInThrds DEF TypeOK, Credit, At
<1>v. v \in Nat /\ v <= th[t].total
  BY <1>1 DEF Counted, Credit, At, Managers
<1> HIDE DEF v
<1>3. Moves(t, m) /\ m.rcvd <= m.total
  <2>1. m \in Managers
    BY <1>1, <1>v DEF Managers, Running
  <2>3. /\ m.total = th[t].total /\ m.rcvd <= m.total /\ m.pc \in Running \cup {"ended", "spin"}
    BY <1>1, <1>v DEF Managers, Running
  <2>2. th[t].pc \in Running /\ th' = [th EXCEPT ![t] = m] /\ UNCHANGED <<mainVars, pc>>
    BY DEF Credit, At, Go, Step, Running, v
  <2>. QED BY <2>1, <2>2, <2>3 DEF Moves
<1>4. UNCHANGED slot
  BY DEF Credit
<1>5. UNCHANGED http_req
  BY DEF Credit
<1>6. TypeOK'
  <2> HIDE DEF m
  <2>. QED BY <1>1, <1>3, <1>4, <1>5, TypeFrame DEF TypeOK
<1>7. Shares' /\ Started' /\ Files'
  <2> HIDE DEF m
  <2>. QED BY <1>1, <1>3, ThreadFrame
<1>8. th' = [th EXCEPT ![t] = m] /\ UNCHANGED args
  BY <1>3 DEF Moves, mainVars
<1>a. m.pc \notin Constructing
  BY <1>1 DEF Managers, Constructing
<1>9. Built'
  <2> HIDE DEF m
  <2>. QED BY <1>1, <1>5, <1>8, <1>a, BuiltElsewhere
<1>b. m.pc \notin {"count", "credit"}
  BY <1>1 DEF Managers
<1>10. Counted'
  <2> HIDE DEF m
  <2>. QED BY <1>1, <1>8, <1>b, CountedFrame
<1>. QED
  BY <1>6, <1>7, <1>9, <1>10

LEMMA LeaveInv == ASSUME IInv, NEW t \in Mine, Leave(t) PROVE IInv'
<1> DEFINE m == [th[t] EXCEPT !.pc = "end"]
<1> USE DEF IInv
<1>1. t \in Thrds /\ th[t] \in Managers /\ th[t].rcvd <= th[t].total /\ ~Over
  BY MineInThrds DEF TypeOK, Leave, At
<1>3. Moves(t, m) /\ m.rcvd <= m.total
  <2>1. m \in Managers
    BY <1>1 DEF Managers, Running
  <2>3. /\ m.total = th[t].total /\ m.rcvd <= m.total /\ m.pc \in Running \cup {"ended", "spin"}
    BY <1>1 DEF Managers, Running
  <2>2. th[t].pc \in Running /\ th' = [th EXCEPT ![t] = m] /\ UNCHANGED <<mainVars, pc>>
    BY DEF Leave, At, Go, Step, Running
  <2>. QED BY <2>1, <2>2, <2>3 DEF Moves
<1>4. UNCHANGED slot
  BY DEF Leave
<1>5. UNCHANGED http_req
  BY DEF Leave
<1>6. TypeOK'
  <2> HIDE DEF m
  <2>. QED BY <1>1, <1>3, <1>4, <1>5, TypeFrame DEF TypeOK
<1>7. Shares' /\ Started' /\ Files'
  <2> HIDE DEF m
  <2>. QED BY <1>1, <1>3, ThreadFrame
<1>8. th' = [th EXCEPT ![t] = m] /\ UNCHANGED args
  BY <1>3 DEF Moves, mainVars
<1>a. m.pc \notin Constructing
  BY <1>1 DEF Managers, Constructing
<1>9. Built'
  <2> HIDE DEF m
  <2>. QED BY <1>1, <1>5, <1>8, <1>a, BuiltElsewhere
<1>b. m.pc \notin {"count", "credit"}
  BY <1>1 DEF Managers
<1>10. Counted'
  <2> HIDE DEF m
  <2>. QED BY <1>1, <1>8, <1>b, CountedFrame
<1>. QED
  BY <1>6, <1>7, <1>9, <1>10

LEMMA EndInv == ASSUME IInv, NEW t \in Mine, End(t) PROVE IInv'
<1> DEFINE m == [th[t] EXCEPT !.pc = "conn"]
<1> USE DEF IInv
<1>1. t \in Thrds /\ th[t] \in Managers /\ th[t].rcvd <= th[t].total /\ ~Over
  BY MineInThrds DEF TypeOK, End, At
<1>2. ThrdNum(t) \in Thrds /\ slot[ThrdNum(t)] \in Statistics
  BY <1>1, SlotInRange DEF TypeOK
<1>w. slot[ThrdNum(t)].workload \in Nat /\ slot[ThrdNum(t)].recv \in Nat
  BY <1>2 DEF Statistics
<1>3. Moves(t, m) /\ m.rcvd <= m.total
  <2>1. m \in Managers
    BY <1>1 DEF Managers, Running
  <2>3. /\ m.total = th[t].total /\ m.rcvd <= m.total /\ m.pc \in Running \cup {"ended", "spin"}
    BY <1>1 DEF Managers, Running
  <2>2. th[t].pc \in Running /\ th' = [th EXCEPT ![t] = m] /\ UNCHANGED <<mainVars, pc>>
    BY DEF End, At, Go, Step, Running
  <2>. QED BY <2>1, <2>2, <2>3 DEF Moves
<1>4. slot' \in [Thrds -> Statistics]
  BY <1>1, <1>2 DEF TypeOK, End, Ended, Managers, Statistics
<1>5. UNCHANGED http_req
  BY DEF End
<1>6. TypeOK'
  <2> HIDE DEF m
  <2>. QED BY <1>1, <1>3, <1>4, <1>5, TypeFrame DEF TypeOK
<1>7. Shares' /\ Started' /\ Files'
  <2> HIDE DEF m
  <2>. QED BY <1>1, <1>3, ThreadFrame
<1>8. th' = [th EXCEPT ![t] = m] /\ UNCHANGED args
  BY <1>3 DEF Moves, mainVars
<1>a. m.pc \notin Constructing
  BY <1>1 DEF Managers, Constructing
<1>9. Built'
  <2> HIDE DEF m
  <2>. QED BY <1>1, <1>5, <1>8, <1>a, BuiltElsewhere
<1>b. m.pc \notin {"count", "credit"}
  BY <1>1 DEF Managers
<1>10. Counted'
  <2> HIDE DEF m
  <2>. QED BY <1>1, <1>8, <1>b, CountedFrame
<1>. QED
  BY <1>6, <1>7, <1>9, <1>10

LEMMA ConnLoadInv == ASSUME IInv, NEW t \in Mine, ConnLoad(t) PROVE IInv'
<1> DEFINE v == S(t).workload + th[t].rcvd
           m == [th[t] EXCEPT !.pc = "conn2", !.reg = v]
<1> USE DEF IInv
<1>1. t \in Thrds /\ th[t] \in Managers /\ th[t].rcvd <= th[t].total /\ ~Over
  BY MineInThrds DEF TypeOK, ConnLoad, At
<1>2. ThrdNum(t) \in Thrds /\ slot[ThrdNum(t)] \in Statistics
  BY <1>1, SlotInRange DEF TypeOK
<1>w. slot[ThrdNum(t)].workload \in Nat /\ slot[ThrdNum(t)].recv \in Nat
  BY <1>2 DEF Statistics
<1>v. v \in Nat
  <2>1. S(t).workload \in Nat
    BY <1>w DEF S
  <2>2. th[t].rcvd \in Nat
    BY <1>1 DEF Managers
  <2>. QED BY <2>1, <2>2
<1> HIDE DEF v
<1>3. Moves(t, m) /\ m.rcvd <= m.total
  <2>1. m \in Managers
    BY <1>1, <1>v DEF Managers, Running
  <2>3. /\ m.total = th[t].total /\ m.rcvd <= m.total /\ m.pc \in Running \cup {"ended", "spin"}
    BY <1>1, <1>v DEF Managers, Running
  <2>2. th[t].pc \in Running /\ th' = [th EXCEPT ![t] = m] /\ UNCHANGED <<mainVars, pc>>
    BY DEF ConnLoad, At, Go, Step, Running, v
  <2>. QED BY <2>1, <2>2, <2>3 DEF Moves
<1>4. UNCHANGED slot
  BY DEF ConnLoad
<1>5. UNCHANGED http_req
  BY DEF ConnLoad
<1>6. TypeOK'
  <2> HIDE DEF m
  <2>. QED BY <1>1, <1>3, <1>4, <1>5, TypeFrame DEF TypeOK
<1>7. Shares' /\ Started' /\ Files'
  <2> HIDE DEF m
  <2>. QED BY <1>1, <1>3, ThreadFrame
<1>8. th' = [th EXCEPT ![t] = m] /\ UNCHANGED args
  BY <1>3 DEF Moves, mainVars
<1>a. m.pc \notin Constructing
  BY <1>1 DEF Managers, Constructing
<1>9. Built'
  <2> HIDE DEF m
  <2>. QED BY <1>1, <1>5, <1>8, <1>a, BuiltElsewhere
<1>b. m.pc \notin {"count", "credit"}
  BY <1>1 DEF Managers
<1>10. Counted'
  <2> HIDE DEF m
  <2>. QED BY <1>1, <1>8, <1>b, CountedFrame
<1>. QED
  BY <1>6, <1>7, <1>9, <1>10

LEMMA ConnStoreInv == ASSUME IInv, NEW t \in Mine, ConnStore(t) PROVE IInv'
<1> DEFINE m == [th[t] EXCEPT !.pc = "free", !.reg = 0]
<1> USE DEF IInv
<1>1. t \in Thrds /\ th[t] \in Managers /\ th[t].rcvd <= th[t].total /\ ~Over
  BY MineInThrds DEF TypeOK, ConnStore, At
<1>2. ThrdNum(t) \in Thrds /\ slot[ThrdNum(t)] \in Statistics
  BY <1>1, SlotInRange DEF TypeOK
<1>w. slot[ThrdNum(t)].workload \in Nat /\ slot[ThrdNum(t)].recv \in Nat
  BY <1>2 DEF Statistics
<1>3. Moves(t, m) /\ m.rcvd <= m.total
  <2>1. m \in Managers
    BY <1>1 DEF Managers, Running
  <2>3. /\ m.total = th[t].total /\ m.rcvd <= m.total /\ m.pc \in Running \cup {"ended", "spin"}
    BY <1>1 DEF Managers, Running
  <2>2. th[t].pc \in Running /\ th' = [th EXCEPT ![t] = m] /\ UNCHANGED <<mainVars, pc>>
    BY DEF ConnStore, At, Go, Step, Running
  <2>. QED BY <2>1, <2>2, <2>3 DEF Moves
<1>4. slot' \in [Thrds -> Statistics]
  BY <1>1, <1>2 DEF TypeOK, ConnStore, Ended, Managers, Statistics
<1>5. UNCHANGED http_req
  BY DEF ConnStore
<1>6. TypeOK'
  <2> HIDE DEF m
  <2>. QED BY <1>1, <1>3, <1>4, <1>5, TypeFrame DEF TypeOK
<1>7. Shares' /\ Started' /\ Files'
  <2> HIDE DEF m
  <2>. QED BY <1>1, <1>3, ThreadFrame
<1>8. th' = [th EXCEPT ![t] = m] /\ UNCHANGED args
  BY <1>3 DEF Moves, mainVars
<1>a. m.pc \notin Constructing
  BY <1>1 DEF Managers, Constructing
<1>9. Built'
  <2> HIDE DEF m
  <2>. QED BY <1>1, <1>5, <1>8, <1>a, BuiltElsewhere
<1>b. m.pc \notin {"count", "credit"}
  BY <1>1 DEF Managers
<1>10. Counted'
  <2> HIDE DEF m
  <2>. QED BY <1>1, <1>8, <1>b, CountedFrame
<1>. QED
  BY <1>6, <1>7, <1>9, <1>10

LEMMA FreeInv == ASSUME IInv, NEW t \in Mine, Free(t) PROVE IInv'
<1> DEFINE m == [th[t] EXCEPT !.pc = "ended"]
<1> USE DEF IInv
<1>1. t \in Thrds /\ th[t] \in Managers /\ th[t].rcvd <= th[t].total /\ ~Over
  BY MineInThrds DEF TypeOK, Free, At
<1>3. Moves(t, m) /\ m.rcvd <= m.total
  <2>1. m \in Managers
    BY <1>1 DEF Managers, Running
  <2>3. /\ m.total = th[t].total /\ m.rcvd <= m.total /\ m.pc \in Running \cup {"ended", "spin"}
    BY <1>1 DEF Managers, Running
  <2>2. th[t].pc \in Running /\ th' = [th EXCEPT ![t] = m] /\ UNCHANGED <<mainVars, pc>>
    BY DEF Free, At, Go, Step, Running
  <2>. QED BY <2>1, <2>2, <2>3 DEF Moves
<1>4. UNCHANGED slot
  BY DEF Free
<1>5. UNCHANGED http_req
  BY DEF Free
<1>6. TypeOK'
  <2> HIDE DEF m
  <2>. QED BY <1>1, <1>3, <1>4, <1>5, TypeFrame DEF TypeOK
<1>7. Shares' /\ Started' /\ Files'
  <2> HIDE DEF m
  <2>. QED BY <1>1, <1>3, ThreadFrame
<1>8. th' = [th EXCEPT ![t] = m] /\ UNCHANGED args
  BY <1>3 DEF Moves, mainVars
<1>a. m.pc \notin Constructing
  BY <1>1 DEF Managers, Constructing
<1>9. Built'
  <2> HIDE DEF m
  <2>. QED BY <1>1, <1>5, <1>8, <1>a, BuiltElsewhere
<1>b. m.pc \notin {"count", "credit"}
  BY <1>1 DEF Managers
<1>10. Counted'
  <2> HIDE DEF m
  <2>. QED BY <1>1, <1>8, <1>b, CountedFrame
<1>. QED
  BY <1>6, <1>7, <1>9, <1>10

LEMMA CustomCutInv == ASSUME IInv, NEW t \in Mine, CustomCut(t) PROVE IInv'
<1> DEFINE v == th[t].req \cup {<<"HDR", "value">>}
           m == [th[t] EXCEPT !.pc = "log", !.req = v]
<1> USE DEF IInv
<1>1. t \in Thrds /\ th[t] \in Managers /\ th[t].rcvd <= th[t].total /\ ~Over
  BY MineInThrds DEF TypeOK, CustomCut, At
<1>v. /\ v \in SUBSET ((HeaderNames \cup {"HDR"}) \X FieldValues)
      /\ th[t].req \subseteq v /\ (<<"Connection", "none">> \in v => <<"Connection", "none">> \in th[t].req)
  <2>1. th[t].req \in SUBSET ((HeaderNames \cup {"HDR"}) \X FieldValues)
    BY <1>1 DEF Managers
  <2>2. <<"HDR", "value">> \in (HeaderNames \cup {"HDR"}) \X FieldValues
    BY DEF FieldValues
  <2>3. <<"HDR", "value">> # <<"Connection", "none">>
    BY SMT
  <2>. QED BY <2>1, <2>2, <2>3
<1> HIDE DEF v
<1>3. Moves(t, m) /\ m.rcvd <= m.total
  <2>1. m \in Managers
    BY <1>1, <1>v DEF Managers, Running
  <2>3. /\ m.total = th[t].total /\ m.rcvd <= m.total /\ m.pc \in Running \cup {"ended", "spin"}
    BY <1>1, <1>v DEF Managers, Running
  <2>2. th[t].pc \in Running /\ th' = [th EXCEPT ![t] = m] /\ UNCHANGED <<mainVars, pc>>
    BY DEF CustomCut, At, Go, Step, Running, v
  <2>. QED BY <2>1, <2>2, <2>3 DEF Moves
<1>4. UNCHANGED slot
  BY DEF CustomCut
<1>5. http_req' \in [dirty : SUBSET HeaderNames, conn : {"none", "keep-alive", "close"},
                       custom : {"HDR:VAL", "HDR"}]
  BY <1>1 DEF TypeOK, CustomCut, Managers, HeaderNames, Inserted, NextToInsert
<1>6. TypeOK'
  <2> HIDE DEF m
  <2>. QED BY <1>1, <1>3, <1>4, <1>5, TypeFrame DEF TypeOK
<1>7. Shares' /\ Started' /\ Files'
  <2> HIDE DEF m
  <2>. QED BY <1>1, <1>3, ThreadFrame
<1>8. th' = [th EXCEPT ![t] = m] /\ UNCHANGED args
  BY <1>3 DEF Moves, mainVars
<1>c. \A h : Carries(t, h) => Carries(t, h)'
  BY <1>1, <1>8, <1>v DEF Carries, TypeOK, Managers
<1>9. Built'
  <2>1. /\ th'[t].pc \in {"log", "cut"} /\ th[t].pc \in {"custom", "cut"}
        /\ <<"Connection", "none">> \in th'[t].req => <<"Connection", "none">> \in th[t].req
    BY <1>1, <1>8, <1>v DEF CustomCut, At, TypeOK, Managers
  <2>2. /\ \A u \in Thrds : u # t => th'[u] = th[u]
        /\ \A u \in Thrds : u # t => \A h : Carries(u, h) => Carries(u, h)'
    BY <1>1, <1>8 DEF TypeOK, Carries
  <2>3. http_req'.dirty = http_req.dirty /\ http_req'.conn = http_req.conn
    BY DEF CustomCut, TypeOK
  <2>4. Shared'
    BY <2>3 DEF Built, Shared
  <2>5. \A u \in Thrds : Inserting(u)'
    BY <2>1, <2>2, <2>3, <1>1 DEF Built, Inserting
  <2>6. \A u \in Thrds : Building(u)'
    BY <2>1, <2>2, <1>c, <1>1 DEF Built, Building
  <2>. QED BY <2>4, <2>5, <2>6 DEF Built
<1>b. m.pc \notin {"count", "credit"}
  BY <1>1 DEF Managers
<1>10. Counted'
  <2> HIDE DEF m
  <2>. QED BY <1>1, <1>8, <1>b, CountedFrame
<1>. QED
  BY <1>6, <1>7, <1>9, <1>10

LEMMA InsStoreInv == ASSUME IInv, NEW t \in Mine, InsStore(t) PROVE IInv'
<1> DEFINE h == NextToInsert(t)
           m == IF th[t].k < 3 THEN [th[t] EXCEPT !.pc = "load", !.k = @ + 1]
                ELSE [th[t] EXCEPT !.pc = "copy", !.k = 1, !.dirty = {}]
<1> USE DEF IInv
<1>1. /\ t \in Thrds /\ th[t] \in Managers /\ th[t].rcvd <= th[t].total /\ ~Over
      /\ th[t].pc = "store" /\ th[t].k \in 1..3 /\ th[t].req = {}
  BY MineInThrds DEF TypeOK, InsStore, At, Built, Inserting
<1>2. /\ h \in HeaderNames
      /\ th[t].k = 1 => h = "Host"
  BY <1>1 DEF NextToInsert, Inserted, HeaderNames
<1>3. /\ http_req'.dirty = th[t].dirty \cup {h}
      /\ http_req' \in [dirty : SUBSET HeaderNames, conn : {"none", "keep-alive", "close"},
                        custom : {"HDR:VAL", "HDR"}]
      /\ http_req.conn # "none" => http_req'.conn # "none"
      /\ h = "Connection" => http_req'.conn # "none"
      /\ h # "Connection" => http_req'.conn = http_req.conn
  BY <1>1, <1>2 DEF InsStore, TypeOK, Managers
<1> HIDE DEF h
<1>4. /\ UserHeaders \subseteq http_req'.dirty /\ "Host" \in http_req'.dirty
      /\ "Connection" \in http_req'.dirty => http_req'.conn # "none"
  BY <1>1, <1>2, <1>3 DEF Built, Inserting
<1>5. /\ m \in Managers /\ m.total = th[t].total /\ m.rcvd = th[t].rcvd /\ m.req = {}
      /\ \/ m.pc = "load" /\ m.k \in 1..3
         \/ m.pc = "copy" /\ m.k = 1
  <2>0. 1 \in 1..4
    OBVIOUS
  <2>1. CASE th[t].k < 3
    <3>1. th[t].k + 1 \in 1..3 /\ th[t].k + 1 \in 1..4
      BY <1>1, <2>1
    <3>. QED BY <1>1, <2>1, <3>1 DEF Managers, Running
  <2>2. CASE ~(th[t].k < 3)
    BY <1>1, <2>0, <2>2 DEF Managers, Running
  <2>. QED BY <2>1, <2>2
<1>6. th' = [th EXCEPT ![t] = m] /\ UNCHANGED <<mainVars, pc, slot>>
  <2>1. Len(Inserted) = 3
    BY DEF Inserted
  <2>. QED BY <1>1, <2>1 DEF InsStore, At, Step
<1> HIDE DEF m
<1>7. Moves(t, m) /\ UNCHANGED args
  BY <1>1, <1>5, <1>6 DEF Moves, Running, mainVars
<1>8. TypeOK'
  BY <1>1, <1>3, <1>5, <1>6, <1>7, TypeFrame DEF TypeOK
<1>9. Shares' /\ Started' /\ Files'
  BY <1>1, <1>7, ThreadFrame
<1>10. Counted'
  BY <1>1, <1>5, <1>6, <1>7, CountedFrame
<1>11. /\ th'[t] = m /\ \A u \in Thrds : u # t => th'[u] = th[u]
  BY <1>1, <1>6 DEF TypeOK
<1>12. Shared'
  BY <1>4 DEF Shared
<1>13. \A u \in Thrds : Inserting(u)'
  BY <1>1, <1>3, <1>4, <1>5, <1>11 DEF Built, Inserting
<1>14. \A u \in Thrds : Building(u)'
  BY <1>1, <1>5, <1>11 DEF Built, Building, Carries
<1>. QED
  BY <1>8, <1>9, <1>10, <1>12, <1>13, <1>14 DEF Built

LEMMA CopyInv == ASSUME IInv, NEW t \in Mine, Copy(t) PROVE IInv'
<1> DEFINE h == Headers[th[t].k]
           r == th[t].req \cup (IF h \in http_req.dirty THEN {Field(h)} ELSE {})
           w == IF th[t].k < 4 THEN "copy" ELSE IF CUSTOM THEN "custom" ELSE "log"
           k == IF th[t].k < 4 THEN th[t].k + 1 ELSE 1
           m == [th[t] EXCEPT !.req = r, !.pc = w, !.k = k]
<1> USE DEF IInv
<1>1. /\ t \in Thrds /\ th[t] \in Managers /\ th[t].rcvd <= th[t].total /\ ~Over
      /\ th[t].pc = "copy" /\ th[t].k \in 1..4
      /\ "Host" \in http_req.dirty /\ UserHeaders \subseteq http_req.dirty
      /\ "Connection" \in http_req.dirty => http_req.conn # "none"
      /\ <<"Connection", "none">> \notin th[t].req
      /\ th[t].k > 1 /\ "Accept" \in UserHeaders => Carries(t, "Accept")
      /\ th[t].k > 3 => Carries(t, "Host")
  BY MineInThrds DEF TypeOK, Copy, At, Built, Shared, Inserting, Building, Managers
<1>2. /\ h \in HeaderNames /\ (th[t].k = 1 <=> h = "Accept") /\ (th[t].k = 3 <=> h = "Host")
  BY <1>1 DEF Headers, HeaderNames
<1>3. Field(h) \in HeaderNames \X FieldValues /\ Field(h)[1] = h
  BY <1>2 DEF Field, FieldValues, TypeOK
<1>4. h \in http_req.dirty => Field(h) # <<"Connection", "none">>
  BY <1>1 DEF Field
<1>5. th[t].req \in SUBSET ((HeaderNames \cup {"HDR"}) \X FieldValues)
  BY <1>1 DEF Managers
<1> HIDE DEF h
<1>6. /\ r \in SUBSET ((HeaderNames \cup {"HDR"}) \X FieldValues)
      /\ th[t].req \subseteq r /\ <<"Connection", "none">> \notin r
      /\ h \in http_req.dirty => \E f \in r : f[1] = h
  BY <1>1, <1>3, <1>4, <1>5
<1> HIDE DEF r
<1>7. /\ w \in {"copy", "custom", "log"} /\ k \in 1..4 /\ (w = "copy" => k = th[t].k + 1)
      /\ w # "copy" => th[t].k = 4
  BY <1>1
<1> HIDE DEF w, k
<1>8. /\ m \in Managers /\ m.total = th[t].total /\ m.rcvd = th[t].rcvd
      /\ m.req = r /\ m.pc = w /\ m.k = k
  BY <1>1, <1>6, <1>7 DEF Managers, Running
<1>9. th' = [th EXCEPT ![t] = m] /\ UNCHANGED <<mainVars, pc, slot, http_req>>
  <2>1. Len(Headers) = 4
    BY DEF Headers
  <2>. QED BY <1>1, <2>1 DEF Copy, Step, h, r, w, k
<1> HIDE DEF m
<1>10. Moves(t, m) /\ UNCHANGED args
  BY <1>1, <1>7, <1>8, <1>9 DEF Moves, Running, mainVars
<1>11. TypeOK'
  BY <1>1, <1>8, <1>9, <1>10, TypeFrame DEF TypeOK
<1>12. Shares' /\ Started' /\ Files'
  BY <1>1, <1>10, ThreadFrame
<1>13. Counted'
  BY <1>1, <1>7, <1>8, <1>9, <1>10, CountedFrame
<1>14. /\ th'[t] = m /\ \A u \in Thrds : u # t => th'[u] = th[u]
  BY <1>1, <1>9 DEF TypeOK
<1>15. Shared'
  BY <1>9 DEF Built, Shared
<1>16. \A u \in Thrds : Inserting(u)'
  BY <1>1, <1>7, <1>8, <1>9, <1>14 DEF Built, Inserting
<1>17. \A n : Carries(t, n) => Carries(t, n)'
  BY <1>6, <1>8, <1>14 DEF Carries
<1>18. \A n \in http_req.dirty : h = n => Carries(t, n)'
  BY <1>6, <1>8, <1>14 DEF Carries
<1>19. Building(t)'
  <2>1. w = "copy" => /\ "Accept" \in UserHeaders => Carries(t, "Accept")'
                      /\ k > 3 => Carries(t, "Host")'
    BY <1>1, <1>2, <1>7, <1>17, <1>18
  <2>2. w # "copy" => \A n \in UserHeaders \cup {"Host"} : Carries(t, n)'
    BY <1>1, <1>7, <1>17, ThreadsAssumption
  <2>. QED BY <1>6, <1>7, <1>8, <1>14, <2>1, <2>2 DEF Building
<1>20. \A u \in Thrds : u # t => Building(u)'
  BY <1>14 DEF Built, Building, Carries
<1>. QED
  BY <1>11, <1>12, <1>13, <1>15, <1>16, <1>19, <1>20 DEF Built

LEMMA CustomFindInv == ASSUME IInv, NEW t \in Mine, CustomFind(t) PROVE IInv'
<1> DEFINE r == IF http_req.custom = "HDR:VAL" THEN th[t].req ELSE th[t].req \cup {<<"HDR", "blank">>}
           w == IF http_req.custom = "HDR:VAL" THEN "cut" ELSE "log"
           m == [th[t] EXCEPT !.pc = w, !.req = r]
<1> USE DEF IInv
<1>1. t \in Thrds /\ th[t] \in Managers /\ th[t].rcvd <= th[t].total /\ ~Over /\ th[t].pc = "custom"
  BY MineInThrds DEF TypeOK, CustomFind, At
<1>2. /\ r \in SUBSET ((HeaderNames \cup {"HDR"}) \X FieldValues) /\ th[t].req \subseteq r
      /\ <<"Connection", "none">> \in r => <<"Connection", "none">> \in th[t].req
  <2>1. th[t].req \in SUBSET ((HeaderNames \cup {"HDR"}) \X FieldValues)
    BY <1>1 DEF Managers
  <2>2. <<"HDR", "blank">> \in (HeaderNames \cup {"HDR"}) \X FieldValues
    BY DEF FieldValues
  <2>3. <<"HDR", "blank">> # <<"Connection", "none">>
    BY SMT
  <2>. QED BY <2>1, <2>2, <2>3
<1>3. w \in {"cut", "log"}
  OBVIOUS
<1>4. th' = [th EXCEPT ![t] = m] /\ UNCHANGED <<mainVars, pc, slot, http_req>>
  <2>1. CASE http_req.custom = "HDR:VAL"
    <3>1. m = [th[t] EXCEPT !.pc = "cut"]
      BY <1>1, <2>1 DEF Managers
    <3>. QED BY <2>1, <3>1 DEF CustomFind, Go
  <2>2. CASE http_req.custom # "HDR:VAL"
    BY <2>2 DEF CustomFind, Step
  <2>. QED BY <2>1, <2>2
<1> HIDE DEF r, w
<1>5. m \in Managers /\ m.total = th[t].total /\ m.rcvd = th[t].rcvd /\ m.req = r /\ m.pc = w
  BY <1>1, <1>2, <1>3 DEF Managers, Running
<1> HIDE DEF m
<1>6. Moves(t, m) /\ UNCHANGED args
  BY <1>1, <1>3, <1>4, <1>5 DEF Moves, Running, mainVars
<1>7. TypeOK'
  BY <1>1, <1>4, <1>5, <1>6, TypeFrame DEF TypeOK
<1>8. Shares' /\ Started' /\ Files'
  BY <1>1, <1>6, ThreadFrame
<1>9. Counted'
  BY <1>1, <1>3, <1>4, <1>5, <1>6, CountedFrame
<1>10. /\ th'[t] = m /\ \A u \in Thrds : u # t => th'[u] = th[u]
  BY <1>1, <1>4 DEF TypeOK
<1>11. Shared' /\ \A u \in Thrds : Inserting(u)'
  BY <1>1, <1>3, <1>4, <1>5, <1>10 DEF Built, Shared, Inserting
<1>12. \A n : Carries(t, n) => Carries(t, n)'
  BY <1>2, <1>5, <1>10 DEF Carries
<1>13. Building(t)'
  BY <1>1, <1>2, <1>3, <1>5, <1>10, <1>12 DEF Built, Building
<1>14. \A u \in Thrds : u # t => Building(u)'
  BY <1>10 DEF Built, Building, Carries
<1>. QED
  BY <1>7, <1>8, <1>9, <1>11, <1>13, <1>14 DEF Built

LEMMA ReceiveInv == ASSUME IInv, NEW t \in Mine, Receive(t) PROVE IInv'
<1> USE DEF IInv
<1>1. /\ t \in Thrds /\ th[t] \in Managers /\ th[t].rcvd < th[t].total /\ ~Over /\ th[t].pc = "run"
      /\ th[t].rcvd \in Nat /\ th[t].total \in Nat /\ th[t].got \in Nat /\ th[t].errs \in Nat
  BY MineInThrds DEF TypeOK, Receive, At, Managers
<1>2. ThrdNum(t) \in Thrds /\ S(t).recv \in Nat
  BY <1>1, SlotInRange DEF TypeOK, S, Statistics
<1>3. UNCHANGED <<mainVars, pc, slot, http_req>>
  BY DEF Receive
<1>4. \E m \in Managers :
        /\ th' = [th EXCEPT ![t] = m] /\ m.pc = "count" /\ m.total = th[t].total /\ m.rcvd <= m.total
        /\ m.k # 2 /\ ~args.use_non_block => m.rcvd < m.total
  <2> DEFINE n == th[t].rcvd + (IF args.use_non_block THEN 1 ELSE 0)
             g == th[t].got + 1
             e == th[t].errs + 1
             v == S(t).recv
             a == [th[t] EXCEPT !.pc = "count", !.got = g, !.reg = v, !.rcvd = n]
             b == [th[t] EXCEPT !.pc = "count", !.got = g, !.reg = v, !.errs = e, !.k = 2]
  <2>1. /\ n \in Nat /\ g \in Nat /\ e \in Nat /\ v \in Nat /\ 2 \in 1..4
        /\ n <= th[t].total /\ (~args.use_non_block => n < th[t].total)
    BY <1>1, <1>2
  <2>2. th' = [th EXCEPT ![t] = a] \/ th' = [th EXCEPT ![t] = b]
    BY DEF Receive, Step
  <2> HIDE DEF n, g, e, v
  <2>3. /\ a \in Managers /\ a.pc = "count" /\ a.total = th[t].total /\ a.rcvd = n /\ a.k = th[t].k
        /\ b \in Managers /\ b.pc = "count" /\ b.total = th[t].total /\ b.rcvd = th[t].rcvd /\ b.k = 2
    BY <1>1, <2>1 DEF Managers, Running
  <2> HIDE DEF a, b
  <2>4. th[t].rcvd <= th[t].total
    BY <1>1
  <2>. QED BY <2>1, <2>2, <2>3, <2>4
<1>5. PICK m \in Managers :
        /\ th' = [th EXCEPT ![t] = m] /\ m.pc = "count" /\ m.total = th[t].total /\ m.rcvd <= m.total
        /\ m.k # 2 /\ ~args.use_non_block => m.rcvd < m.total
  BY <1>4
<1>6. Moves(t, m) /\ UNCHANGED args
  BY <1>1, <1>3, <1>5 DEF Moves, Running, mainVars
<1>7. TypeOK'
  BY <1>1, <1>3, <1>5, <1>6, TypeFrame DEF TypeOK
<1>8. Shares' /\ Started' /\ Files'
  BY <1>1, <1>6, ThreadFrame
<1>9. Built'
  BY <1>1, <1>3, <1>5, BuiltElsewhere DEF Constructing
<1>10. Counted'
  BY <1>1, <1>5, <1>6 DEF Counted, TypeOK
<1>. QED
  BY <1>7, <1>8, <1>9, <1>10

LEMMA ExitInv ==
  ASSUME IInv, pc' = "exit", UNCHANGED <<mainVars, th, slot, http_req>>
  PROVE  IInv'
<1> USE DEF IInv
<1>1. UNCHANGED <<args, total_req, leftover, i, mapped, armed, logf, walk>>
  BY DEF mainVars
<1>2. TypeOK'
  BY <1>1 DEF TypeOK, Mine, Walking
<1>3. Shares' /\ Started' /\ Files'
  BY <1>1, ExitFrame
<1>4. Built' /\ Counted'
  BY <1>1, BuiltFrame
<1>. QED
  BY <1>2, <1>3, <1>4

LEMMA LogFaultsInv == ASSUME IInv, NEW t \in Mine, LogFaults(t) PROVE IInv'
<1> USE DEF IInv
<1>1. CASE pc' = "exit" /\ UNCHANGED <<mainVars, th, slot, http_req>>
  BY <1>1, ExitInv
<1>2. CASE Go(t, "spin") /\ UNCHANGED <<mainVars, pc, slot, http_req>>
  <2> DEFINE m == [th[t] EXCEPT !.pc = "spin"]
  <2>1. /\ t \in Thrds /\ th[t] \in Managers /\ th[t].rcvd <= th[t].total /\ ~Over
        /\ th[t].pc \in {"log", "run", "end"}
    BY MineInThrds DEF TypeOK, LogFaults, At
  <2>2. m \in Managers /\ m.pc = "spin" /\ m.total = th[t].total /\ m.rcvd = th[t].rcvd
    BY <2>1 DEF Managers
  <2>3. th' = [th EXCEPT ![t] = m]
    BY <1>2 DEF Go
  <2> HIDE DEF m
  <2>4. Moves(t, m) /\ UNCHANGED args
    BY <1>2, <2>1, <2>2, <2>3 DEF Moves, Running, mainVars
  <2>5. TypeOK'
    BY <1>2, <2>1, <2>2, <2>4, TypeFrame DEF TypeOK
  <2>6. Shares' /\ Started' /\ Files'
    BY <2>1, <2>4, ThreadFrame
  <2>7. Built' /\ Counted'
    BY <1>2, <2>1, <2>2, <2>3, <2>4, BuiltElsewhere, CountedFrame DEF Constructing
  <2>. QED
    BY <2>5, <2>6, <2>7
<1>. QED
  BY <1>1, <1>2 DEF LogFaults

LEMMA ThreadInv == ASSUME IInv, NEW t \in Mine, Thread(t) PROVE IInv'
<1>1. CASE Abort(t)
  BY <1>1, ExitInv DEF Abort
<1>. QED
  BY <1>1, BeginInv, InsLoadInv, InsStoreInv, CopyInv, CustomFindInv, CustomCutInv, LogFaultsInv,
     LogRequestInv, ReceiveInv, CountInv, CreditInv, LeaveInv, EndInv, ConnLoadInv, ConnStoreInv,
     FreeInv
  DEF Thread

-----------------------------------------------------------------------------
(* The steps of main and of the handler. *)

LEMMA Ranges ==
  ASSUME TypeOK, Started
  PROVE  /\ Mine \subseteq Thrds /\ args.thrd \in Nat \ {0} /\ i \in Nat
         /\ pc \in {"log", "create", "start", "register", "progress", "join", "walk", "walk2"} => i \in Mine /\ i < args.thrd
         /\ pc \in {"init", "log", "create", "start", "register", "signal"} => ~armed
  BY MineInThrds DEF TypeOK, Started, Mine

Starting == {"log", "create", "start", "register"}

\* Once the threads are there, nothing is handed out any more.
LEMMA SharesStay ==
  ASSUME Shares, UNCHANGED <<args, total_req, leftover, th>>,
         pc \notin {"init", "exit"}, pc' \notin {"init"} \cup Starting
  PROVE  Shares'
<1>1. EachRequestOnce'
  BY DEF Shares, EachRequestOnce, Mine
<1>. QED
  BY <1>1 DEF Shares, Starting

LEMMA InstallHandlerInv == ASSUME IInv, InstallHandler PROVE IInv'
<1> USE DEF IInv
<1>1. UNCHANGED <<args, total_req, th, slot, http_req, leftover, logf, mapped, walk>> /\ Mine' = Mine
  BY DEF InstallHandler, Mine
<1>2. /\ Mine \subseteq Thrds /\ args.thrd \in Nat \ {0} /\ i \in Nat
      /\ pc \in {"log", "create", "start", "register", "progress", "join", "walk", "walk2"} => i \in Mine /\ i < args.thrd
      /\ pc \in {"init", "log", "create", "start", "register", "signal"} => ~armed
  BY Ranges
<1>3. TypeOK'
  BY <1>1, <1>2 DEF TypeOK, Walking, Mine, InstallHandler
<1>4. Shares'
  BY <1>1, SharesStay DEF Starting, InstallHandler
<1>5. Started'
  BY <1>1, <1>2 DEF Started, Mine, InstallHandler
<1>6. Files'
  BY <1>1, <1>2 DEF TypeOK, Files, LogsToOwnFile, Over, Walking, Running, InstallHandler
<1>7. Built' /\ Counted'
  BY <1>1, BuiltFrame
<1>. QED
  BY <1>3, <1>4, <1>5, <1>6, <1>7

LEMMA ProgressOverInv == ASSUME IInv, ProgressOver PROVE IInv'
<1> USE DEF IInv
<1>1. UNCHANGED <<args, total_req, th, slot, http_req, leftover, logf, mapped, walk, i, armed>> /\ Mine' = Mine
  BY DEF ProgressOver, Mine
<1>2. /\ Mine \subseteq Thrds /\ args.thrd \in Nat \ {0} /\ i \in Nat
      /\ pc \in {"log", "create", "start", "register", "progress", "join", "walk", "walk2"} => i \in Mine /\ i < args.thrd
      /\ pc \in {"init", "log", "create", "start", "register", "signal"} => ~armed
  BY Ranges
<1>3. TypeOK'
  BY <1>1, <1>2 DEF TypeOK, Walking, Mine, ProgressOver
<1>4. Shares'
  BY <1>1, SharesStay DEF Starting, ProgressOver
<1>5. Started'
  BY <1>1, <1>2 DEF Started, Mine, ProgressOver
<1>6. Files'
  BY <1>1, <1>2 DEF TypeOK, Files, LogsToOwnFile, Over, Walking, Running, ProgressOver
<1>7. Built' /\ Counted'
  BY <1>1, BuiltFrame
<1>. QED
  BY <1>3, <1>4, <1>5, <1>6, <1>7

LEMMA JoinInv == ASSUME IInv, Join PROVE IInv'
<1> USE DEF IInv
<1>1. UNCHANGED <<args, total_req, th, slot, http_req, leftover, mapped, walk, armed>> /\ Mine' = Mine
  BY DEF Join, Mine
<1>2. /\ Mine \subseteq Thrds /\ args.thrd \in Nat \ {0} /\ i \in Nat
      /\ pc \in {"log", "create", "start", "register", "progress", "join", "walk", "walk2"} => i \in Mine /\ i < args.thrd
      /\ pc \in {"init", "log", "create", "start", "register", "signal"} => ~armed
  BY Ranges
<1>3. TypeOK'
  BY <1>1, <1>2 DEF TypeOK, Walking, Mine, Join
<1>4. Shares'
  BY <1>1, SharesStay DEF Starting, Join
<1>5. Started'
  BY <1>1, <1>2 DEF Started, Mine, Join
<1>6. Files'
  BY <1>1, <1>2 DEF TypeOK, Files, LogsToOwnFile, Over, Walking, Running, Join
<1>7. Built' /\ Counted'
  BY <1>1, BuiltFrame
<1>. QED
  BY <1>3, <1>4, <1>5, <1>6, <1>7

LEMMA JoinFaultsInv == ASSUME IInv, JoinFaults PROVE IInv'
<1> USE DEF IInv
<1>1. UNCHANGED <<args, total_req, th, slot, http_req, leftover, logf, mapped, walk, i, armed>> /\ Mine' = Mine
  BY DEF JoinFaults, Mine
<1>2. /\ Mine \subseteq Thrds /\ args.thrd \in Nat \ {0} /\ i \in Nat
      /\ pc \in {"log", "create", "start", "register", "progress", "join", "walk", "walk2"} => i \in Mine /\ i < args.thrd
      /\ pc \in {"init", "log", "create", "start", "register", "signal"} => ~armed
  BY Ranges
<1>3. TypeOK'
  BY <1>1, <1>2 DEF TypeOK, Walking, Mine, JoinFaults, Faults
<1>4. Shares'
  BY <1>1, SharesStay DEF Starting, JoinFaults, Faults
<1>5. Started'
  BY <1>1, <1>2 DEF Started, Mine, JoinFaults, Faults
<1>6. Files'
  BY <1>1, <1>2 DEF TypeOK, Files, LogsToOwnFile, Over, Walking, Running, JoinFaults, Faults
<1>7. Built' /\ Counted'
  BY <1>1, BuiltFrame
<1>. QED
  BY <1>3, <1>4, <1>5, <1>6, <1>7

LEMMA EndTimeInv == ASSUME IInv, EndTime PROVE IInv'
<1> USE DEF IInv
<1>1. UNCHANGED <<args, total_req, th, slot, http_req, leftover, logf, mapped, walk, i, armed>> /\ Mine' = Mine
  BY DEF EndTime, Mine
<1>2. /\ Mine \subseteq Thrds /\ args.thrd \in Nat \ {0} /\ i \in Nat
      /\ pc \in {"log", "create", "start", "register", "progress", "join", "walk", "walk2"} => i \in Mine /\ i < args.thrd
      /\ pc \in {"init", "log", "create", "start", "register", "signal"} => ~armed
  BY Ranges
<1>3. TypeOK'
  BY <1>1, <1>2 DEF TypeOK, Walking, Mine, EndTime
<1>4. Shares'
  BY <1>1, SharesStay DEF Starting, EndTime
<1>5. Started'
  BY <1>1, <1>2 DEF Started, Mine, EndTime
<1>6. Files'
  BY <1>1, <1>2 DEF TypeOK, Files, LogsToOwnFile, Over, Walking, Running, EndTime
<1>7. Built' /\ Counted'
  BY <1>1, BuiltFrame
<1>. QED
  BY <1>3, <1>4, <1>5, <1>6, <1>7

LEMMA DumpInv == ASSUME IInv, Dump PROVE IInv'
<1> USE DEF IInv
<1>1. UNCHANGED <<args, total_req, th, slot, http_req, leftover, logf, mapped, walk, i, armed>> /\ Mine' = Mine
  BY DEF Dump, Mine
<1>2. /\ Mine \subseteq Thrds /\ args.thrd \in Nat \ {0} /\ i \in Nat
      /\ pc \in {"log", "create", "start", "register", "progress", "join", "walk", "walk2"} => i \in Mine /\ i < args.thrd
      /\ pc \in {"init", "log", "create", "start", "register", "signal"} => ~armed
  BY Ranges
<1>3. TypeOK'
  BY <1>1, <1>2 DEF TypeOK, Walking, Mine, Dump
<1>4. Shares'
  BY <1>1, SharesStay DEF Starting, Dump
<1>5. Started'
  BY <1>1, <1>2 DEF Started, Mine, Dump
<1>6. Files'
  BY <1>1, <1>2 DEF TypeOK, Files, LogsToOwnFile, Over, Walking, Running, Dump
<1>7. Built' /\ Counted'
  BY <1>1, BuiltFrame
<1>. QED
  BY <1>3, <1>4, <1>5, <1>6, <1>7

LEMMA ReturnInv == ASSUME IInv, Return PROVE IInv'
<1> USE DEF IInv
<1>1. UNCHANGED <<args, total_req, th, slot, http_req, leftover, logf, mapped, walk, i, armed>> /\ Mine' = Mine
  BY DEF Return, Mine
<1>2. /\ Mine \subseteq Thrds /\ args.thrd \in Nat \ {0} /\ i \in Nat
      /\ pc \in {"log", "create", "start", "register", "progress", "join", "walk", "walk2"} => i \in Mine /\ i < args.thrd
      /\ pc \in {"init", "log", "create", "start", "register", "signal"} => ~armed
  BY Ranges
<1>3. TypeOK'
  BY <1>1, <1>2 DEF TypeOK, Walking, Mine, Return
<1>4. Shares'
  BY <1>1, SharesStay DEF Starting, Return
<1>5. Started'
  BY <1>1, <1>2 DEF Started, Mine, Return
<1>6. Files'
  BY <1>1, <1>2 DEF TypeOK, Files, LogsToOwnFile, Over, Walking, Running, Return
<1>7. Built' /\ Counted'
  BY <1>1, BuiltFrame
<1>. QED
  BY <1>3, <1>4, <1>5, <1>6, <1>7

LEMMA RegisterInv == ASSUME IInv, Register PROVE IInv'
<1> USE DEF IInv
<1>1. UNCHANGED <<args, total_req, th, slot, http_req, leftover, logf, walk, armed>> /\ Mine' = Mine
  BY DEF Register, Mine
<1>2. /\ Mine \subseteq Thrds /\ args.thrd \in Nat \ {0} /\ i \in Nat
      /\ pc \in {"log", "create", "start", "register", "progress", "join", "walk", "walk2"} => i \in Mine /\ i < args.thrd
      /\ pc \in {"init", "log", "create", "start", "register", "signal"} => ~armed
  BY Ranges
<1>3. TypeOK'
  BY <1>1, <1>2 DEF TypeOK, Walking, Mine, Register
<1>4. Shares'
  <2>1. CASE pc' = "signal"
    BY <1>1, <2>1, SharesStay DEF Register, Starting
  <2>2. CASE pc' = "log"
    <3> DEFINE share == total_req \div args.thrd
               demand == args.thrd * args.conn
               rest == total_req % args.thrd
    <3>1. /\ pc = "register" /\ i # args.thrd - 1
          /\ share' = share /\ demand' = demand /\ rest' = rest
      BY <1>1, <1>2, <2>2 DEF Register
    <3>2. EachRequestOnce'
      BY <1>1 DEF Shares, EachRequestOnce
    <3>3. total_req >= demand /\ leftover = rest /\ args.reqs = share + 0
      BY <3>1 DEF Shares
    <3>4. share \in Nat
      BY <1>2, Quotient DEF TypeOK
    <3> HIDE DEF share, demand, rest
    <3>5. total_req' >= demand' /\ leftover' = rest' /\ args'.reqs = share'
      BY <1>1, <3>1, <3>3, <3>4
    <3>. QED BY <2>2, <3>2, <3>5 DEF Shares, share, demand, rest
  <2>. QED BY <2>1, <2>2 DEF Register
<1>5. Started'
  BY <1>1, <1>2 DEF Started, Mine, Register
<1>6. Files'
  BY <1>1, <1>2 DEF TypeOK, Files, LogsToOwnFile, Over, Walking, Running, Register
<1>7. Built' /\ Counted'
  BY <1>1, BuiltFrame
<1>. QED
  BY <1>3, <1>4, <1>5, <1>6, <1>7

LEMMA NoManagerInv == ASSUME IInv, NoManager PROVE IInv'
<1> USE DEF IInv
<1>1. UNCHANGED <<args, total_req, th, slot, http_req, leftover, logf, mapped, walk, i, armed>> /\ Mine' = Mine
  BY DEF NoManager, Mine
<1>2. /\ Mine \subseteq Thrds /\ args.thrd \in Nat \ {0} /\ i \in Nat
      /\ pc \in {"log", "create", "start", "register", "progress", "join", "walk", "walk2"} => i \in Mine /\ i < args.thrd
      /\ pc \in {"init", "log", "create", "start", "register", "signal"} => ~armed
  BY Ranges
<1>3. TypeOK'
  BY <1>1, <1>2 DEF TypeOK, Walking, Mine, NoManager
<1>4. Shares'
  BY <1>1, SharesStay DEF Starting, NoManager
<1>5. Started'
  BY <1>1, <1>2 DEF Started, Mine, NoManager
<1>6. Files'
  BY <1>1, <1>2 DEF TypeOK, Files, LogsToOwnFile, Over, Walking, Running, NoManager
<1>7. Built' /\ Counted'
  BY <1>1, BuiltFrame
<1>. QED
  BY <1>3, <1>4, <1>5, <1>6, <1>7

LEMMA InterruptInv == ASSUME IInv, Interrupt PROVE IInv'
<1> USE DEF IInv
<1>1. UNCHANGED <<args, total_req, th, slot, http_req, leftover, logf, mapped, walk, armed>> /\ Mine' = Mine
  BY DEF Interrupt, Mine, handlerConst
<1>2. /\ Mine \subseteq Thrds /\ args.thrd \in Nat \ {0} /\ i \in Nat
      /\ pc \in {"log", "create", "start", "register", "progress", "join", "walk", "walk2"} => i \in Mine /\ i < args.thrd
      /\ pc \in {"init", "log", "create", "start", "register", "signal"} => ~armed
  BY Ranges
<1>3. TypeOK'
  BY <1>1, <1>2 DEF TypeOK, Walking, Mine, Interrupt
<1>4. Shares'
  <2>1. CASE ~armed
    BY <1>1, <2>1, ExitFrame DEF Interrupt
  <2>2. CASE armed
    BY <1>1, <1>2, <2>2, SharesStay DEF Interrupt, Starting, Over
  <2>. QED BY <2>1, <2>2
<1>5. Started'
  BY <1>1, <1>2 DEF Started, Mine, Interrupt
<1>6. Files'
  BY <1>1, <1>2 DEF TypeOK, Files, LogsToOwnFile, Over, Walking, Running, Interrupt
<1>7. Built' /\ Counted'
  BY <1>1, BuiltFrame
<1>. QED
  BY <1>3, <1>4, <1>5, <1>6, <1>7

LEMMA WalkEndInv == ASSUME IInv, WalkEnd PROVE IInv'
<1> USE DEF IInv
<1>1. UNCHANGED <<args, total_req, th, slot, http_req, leftover, logf, mapped, walk, i, armed>> /\ Mine' = Mine
  BY DEF WalkEnd, Mine, handlerConst
<1>2. /\ Mine \subseteq Thrds /\ args.thrd \in Nat \ {0} /\ i \in Nat
      /\ pc \in {"log", "create", "start", "register", "progress", "join", "walk", "walk2"} => i \in Mine /\ i < args.thrd
      /\ pc \in {"init", "log", "create", "start", "register", "signal"} => ~armed
  BY Ranges
<1>3. TypeOK'
  BY <1>1, <1>2 DEF TypeOK, Walking, Mine, WalkEnd
<1>4. Shares'
  BY <1>1, SharesStay DEF Starting, WalkEnd
<1>5. Started'
  BY <1>1, <1>2 DEF Started, Mine, WalkEnd
<1>6. Files'
  BY <1>1, <1>2 DEF TypeOK, Files, LogsToOwnFile, Over, Walking, Running, WalkEnd
<1>7. Built' /\ Counted'
  BY <1>1, BuiltFrame
<1>. QED
  BY <1>3, <1>4, <1>5, <1>6, <1>7

LEMMA WalkFaultsInv == ASSUME IInv, WalkFaults PROVE IInv'
<1> USE DEF IInv
<1>1. UNCHANGED <<args, total_req, th, slot, http_req, leftover, logf, mapped, walk, i, armed>> /\ Mine' = Mine
  BY DEF WalkFaults, Mine, handlerConst
<1>2. /\ Mine \subseteq Thrds /\ args.thrd \in Nat \ {0} /\ i \in Nat
      /\ pc \in {"log", "create", "start", "register", "progress", "join", "walk", "walk2"} => i \in Mine /\ i < args.thrd
      /\ pc \in {"init", "log", "create", "start", "register", "signal"} => ~armed
  BY Ranges
<1>3. TypeOK'
  BY <1>1, <1>2 DEF TypeOK, Walking, Mine, WalkFaults, Faults
<1>4. Shares'
  BY <1>1, SharesStay DEF Starting, WalkFaults, Faults
<1>5. Started'
  BY <1>1, <1>2 DEF Started, Mine, WalkFaults, Faults
<1>6. Files'
  BY <1>1, <1>2 DEF TypeOK, Files, LogsToOwnFile, Over, Walking, Running, WalkFaults, Faults
<1>7. Built' /\ Counted'
  BY <1>1, BuiltFrame
<1>. QED
  BY <1>3, <1>4, <1>5, <1>6, <1>7

LEMMA WalkStoreInv == ASSUME IInv, WalkStore PROVE IInv'
<1> USE DEF IInv
<1>1. UNCHANGED <<args, total_req, th, http_req, leftover, mapped, armed>> /\ Mine' = Mine
  BY DEF WalkStore, Mine, handlerConst
<1>2. /\ Mine \subseteq Thrds /\ args.thrd \in Nat \ {0} /\ i \in Nat
      /\ pc \in {"log", "create", "start", "register", "progress", "join", "walk", "walk2"} => i \in Mine /\ i < args.thrd
      /\ pc \in {"init", "log", "create", "start", "register", "signal"} => ~armed
  BY Ranges
<1>3. TypeOK'
  <2>1. walk.num \in Thrds /\ walk.sum \in Nat /\ 0 \in Thrds
    <3>1. walk \in [num : Thrds, sum : Nat]
      BY DEF TypeOK
    <3>2. MAX_THREAD \in Nat \ {0}
      BY ThreadsAssumption
    <3>3. 0 \in Thrds
      BY <3>2 DEF Thrds
    <3>. QED BY <3>1, <3>3
  <2>2. slot' \in [Thrds -> Statistics]
    <3> DEFINE s == slot[walk.num]
    <3>1. slot \in [Thrds -> Statistics] /\ s \in Statistics
      BY <2>1 DEF TypeOK
    <3>2. [s EXCEPT !.workload = walk.sum, !.time = Ended(@), !.fin = TRUE] \in Statistics
      BY <2>1, <3>1 DEF Statistics, Ended
    <3>3. slot' = [slot EXCEPT ![walk.num] = [s EXCEPT !.workload = walk.sum, !.time = Ended(@), !.fin = TRUE]]
      BY DEF WalkStore
    <3> HIDE DEF s
    <3>. QED BY <2>1, <3>1, <3>2, <3>3
  <2>3. logf' \in [Thrds -> {"none", "open", "null", "closed"}] /\ walk' \in [num : Thrds, sum : Nat]
    BY <2>1 DEF TypeOK, WalkStore
  <2>. QED BY <1>1, <1>2, <2>2, <2>3 DEF TypeOK, Walking, Mine, WalkStore
<1>4. Shares'
  BY <1>1, SharesStay DEF Starting, WalkStore
<1>5. Started'
  BY <1>1, <1>2 DEF Started, Mine, WalkStore
<1>6. Files'
  BY <1>1, <1>2 DEF TypeOK, Files, LogsToOwnFile, Over, Walking, Running, WalkStore
<1>7. Built' /\ Counted'
  BY <1>1, BuiltFrame
<1>. QED
  BY <1>3, <1>4, <1>5, <1>6, <1>7

LEMMA WalkLoadInv == ASSUME IInv, WalkLoad PROVE IInv'
<1> USE DEF IInv
<1>1. UNCHANGED <<args, total_req, th, slot, http_req, leftover, logf, mapped, i, armed>> /\ Mine' = Mine
  BY DEF WalkLoad, Mine, handlerConst
<1>2. /\ Mine \subseteq Thrds /\ args.thrd \in Nat \ {0} /\ i \in Nat
      /\ pc \in {"log", "create", "start", "register", "progress", "join", "walk", "walk2"} => i \in Mine /\ i < args.thrd
      /\ pc \in {"init", "log", "create", "start", "register", "signal"} => ~armed
  BY Ranges
<1>3. TypeOK'
  <2>1. i \in Thrds /\ th[i].rcvd \in Nat
    BY <1>2 DEF TypeOK, WalkLoad, Managers
  <2>2. ThrdNum(i) \in Thrds
    BY <2>1, SlotInRange
  <2>3. \A n \in Thrds, r \in {th[i].rcvd} \cup GARBAGE : slot[n].workload + r \in Nat
    <3>1. GARBAGE \subseteq Nat
      BY ThreadsAssumption
    <3>2. \A n \in Thrds : slot[n].workload \in Nat
      BY DEF TypeOK, Statistics
    <3>3. \A r \in {th[i].rcvd} \cup GARBAGE : r \in Nat
      BY <2>1, <3>1
    <3>4. ASSUME NEW n \in Thrds, NEW r \in Nat PROVE slot[n].workload + r \in Nat
      BY <3>2
    <3>. QED BY <3>3, <3>4
  <2>4. walk' \in [num : Thrds, sum : Nat]
    BY <2>1, <2>2, <2>3 DEF TypeOK, WalkLoad
  <2>. QED BY <1>1, <1>2, <2>4 DEF TypeOK, Walking, Mine, WalkLoad, Faults
<1>4. Shares'
  BY <1>1, SharesStay DEF Starting, WalkLoad, Faults
<1>5. Started'
  BY <1>1, <1>2 DEF Started, Mine, WalkLoad, Faults
<1>6. Files'
  BY <1>1, <1>2 DEF TypeOK, Files, LogsToOwnFile, Over, Walking, Running, WalkLoad, Faults
<1>7. Built' /\ Counted'
  BY <1>1, BuiltFrame
<1>. QED
  BY <1>3, <1>4, <1>5, <1>6, <1>7

LEMMA DistributeInv == ASSUME IInv, Distribute PROVE IInv'
<1> USE DEF IInv
<1> DEFINE n == args.reqs
           d == args.thrd
<1>1. /\ pc = "init" /\ pc' = "log" /\ total_req' = n /\ leftover' = n % d
      /\ args' = [args EXCEPT !.reqs = n \div d]
      /\ UNCHANGED <<i, mapped, logf, armed, th, slot, http_req, walk>>
  BY DEF Distribute
<1>2. args \in Arguments /\ n \in Nat /\ d \in Nat \ {0} /\ i = 0
  BY <1>1, MineInThrds DEF TypeOK, Arguments, Started
<1>3. n \div d \in Nat /\ n % d \in 0..(d - 1)
  BY <1>2, Quotient
<1>4. /\ args' \in Arguments /\ args'.thrd = d /\ args'.conn = args.conn /\ args'.reqs = n \div d
      /\ args'.use_non_block = args.use_non_block /\ Mine' = Mine
  BY <1>1, <1>2, <1>3 DEF Arguments, Mine
<1>5. TypeOK'
  BY <1>1, <1>2, <1>3, <1>4 DEF TypeOK
<1>6. \A t \in Mine : th'[t].pc = "none"
  BY <1>1, MineInThrds DEF Shares
<1>7. EachRequestOnce'
  BY <1>4, <1>6 DEF EachRequestOnce
<1>8. n >= d * args.conn
  BY <1>1 DEF Shares
<1>9. Shares'
  <2>1. total_req' >= args'.thrd * args'.conn
    BY <1>1, <1>4, <1>8
  <2>2. leftover' = total_req' % args'.thrd /\ args'.reqs = total_req' \div args'.thrd
    BY <1>1, <1>4
  <2> HIDE DEF n, d
  <2>. QED BY <1>1, <1>7, <2>1, <2>2 DEF Shares
<1>10. Started'
  BY <1>1, <1>2, <1>4, <1>6 DEF Started
<1>11. Files'
  BY <1>1, <1>4, <1>6 DEF Files, LogsToOwnFile, Running
<1>12. Built' /\ Counted'
  BY <1>1, <1>4, BuiltFrame
<1>. QED
  BY <1>5, <1>9, <1>10, <1>11, <1>12

LEMMA OpenLogInv == ASSUME IInv, OpenLog PROVE IInv'
<1> USE DEF IInv
<1> DEFINE rest == IF i = args.thrd - 1 THEN leftover ELSE 0
<1>1. /\ pc = "log" /\ pc' = "create" /\ args' = [args EXCEPT !.reqs = @ + rest]
      /\ UNCHANGED <<total_req, leftover, i, mapped, armed, th, slot, http_req, walk>>
  BY DEF OpenLog
<1>2. /\ args \in Arguments /\ args.reqs \in Nat /\ leftover \in Nat
      /\ i \in Mine /\ i < args.thrd /\ Mine \subseteq Thrds /\ args.thrd \in Nat \ {0} /\ ~armed
  BY <1>1, Ranges DEF TypeOK, Arguments
<1>3. /\ args' \in Arguments /\ args'.thrd = args.thrd /\ args'.conn = args.conn
      /\ args'.reqs = args.reqs + rest
      /\ args'.use_non_block = args.use_non_block /\ Mine' = Mine
  BY <1>1, <1>2 DEF Arguments, Mine
<1>4. PICK f \in {"open", "null"} : logf' = [logf EXCEPT ![i] = f]
  BY DEF OpenLog
<1>5. TypeOK'
  BY <1>1, <1>2, <1>3, <1>4 DEF TypeOK
<1>6. EachRequestOnce'
  BY <1>1, <1>3 DEF Shares, EachRequestOnce
<1>7. Shares'
  <2>1. total_req' >= args'.thrd * args'.conn /\ leftover' = total_req' % args'.thrd
    BY <1>1, <1>3 DEF Shares
  <2>2. args'.reqs = (total_req' \div args'.thrd) + (IF i' = args'.thrd - 1 THEN leftover' ELSE 0)
    BY <1>1, <1>3 DEF Shares
  <2> HIDE DEF rest
  <2>. QED BY <1>1, <1>6, <2>1, <2>2 DEF Shares
<1>8. Started'
  BY <1>1, <1>2, <1>3 DEF Started, Mine
<1>9. /\ logf'[i] \in {"open", "null"}
      /\ \A t \in Mine : logf[t] \in {"open", "null"} => logf'[t] \in {"open", "null"}
  BY <1>2, <1>4 DEF TypeOK
<1>10. Files'
  BY <1>1, <1>2, <1>3, <1>9 DEF Files, LogsToOwnFile, Running, Over, Walking
<1>11. Built' /\ Counted'
  BY <1>1, <1>3, BuiltFrame
<1>. QED
  BY <1>5, <1>7, <1>8, <1>10, <1>11

\* The share of the thread that main has come to.
LEMMA NextShare ==
  ASSUME TypeOK, Shares, Started, pc = "create"
  PROVE  /\ args.reqs \in Nat /\ args.reqs >= args.conn
         /\ IF i < args.thrd - 1 THEN args.reqs = total_req \div args.thrd
            ELSE args.reqs = total_req - i * (total_req \div args.thrd)
<1> DEFINE d == args.thrd
           share == total_req \div d
           rest == total_req % d
<1>1. /\ d \in Nat \ {0} /\ args.conn \in Nat /\ args.reqs \in Nat /\ total_req \in Nat
      /\ i \in Nat /\ i < d
  BY Ranges DEF TypeOK, Arguments
<1>2. /\ total_req >= d * args.conn
      /\ args.reqs = share + (IF i = d - 1 THEN rest ELSE 0)
  BY DEF Shares
<1>3. share >= args.conn
  BY <1>1, <1>2, ShareSuffices
<1>4. share \in Nat /\ rest \in Nat
  <2>1. share \in Nat /\ rest \in 0..(d - 1)
    BY <1>1, Quotient
  <2>. QED BY <1>1, <2>1
<1>5. share + rest = total_req - (d - 1) * share
  BY <1>1, LastShare
<1>6. CASE i = d - 1
  <2>1. args.reqs = share + rest
    BY <1>2, <1>6
  <2>2. args.reqs = total_req - i * share
    BY <1>5, <1>6, <2>1
  <2>. QED BY <1>1, <1>3, <1>4, <1>6, <2>1, <2>2
<1>7. CASE i < d - 1
  <2>1. args.reqs = share + 0
    BY <1>1, <1>2, <1>7
  <2> HIDE DEF share
  <2>2. args.reqs = share
    BY <1>4, <2>1
  <2>. QED BY <1>1, <1>3, <1>7, <2>2 DEF share
<1>8. i = d - 1 \/ i < d - 1
  BY <1>1
<1>. QED
  BY <1>6, <1>7, <1>8

LEMMA CreateManagerInv == ASSUME IInv, CreateManager PROVE IInv'
<1> USE DEF IInv
<1> DEFINE m == [Idle EXCEPT !.pc = "made", !.total = args.reqs]
<1>1. /\ pc = "create" /\ pc' = "start" /\ th' = [th EXCEPT ![i] = m]
      /\ UNCHANGED <<args, total_req, leftover, i, mapped, logf, armed, slot, http_req, walk>>
      /\ Mine' = Mine
  BY DEF CreateManager, Mine
<1>2. i \in Mine /\ i < args.thrd /\ Mine \subseteq Thrds /\ args.thrd \in Nat \ {0} /\ ~armed
  BY <1>1, Ranges
<1>3. args.reqs \in Nat
  BY DEF TypeOK, Arguments
<1>4. /\ m \in Managers /\ m.pc = "made" /\ m.total = args.reqs /\ m.rcvd = 0 /\ m.k = 1 /\ m.req = {}
  <2>1. 1 \in 1..4 /\ 0 \in Nat
    OBVIOUS
  <2>. QED BY <1>3, <2>1 DEF Managers, Idle
<1> HIDE DEF m
<1>5. th'[i] = m /\ th \in [Thrds -> Managers] /\ \A u \in Thrds : u # i => th'[u] = th[u]
  BY <1>1, <1>2 DEF TypeOK
<1>6. TypeOK'
  <2>1. th' \in [Thrds -> Managers]
    BY <1>1, <1>2, <1>4 DEF TypeOK
  <2>2. m.rcvd <= m.total /\ \A t \in Thrds : th[t].rcvd <= th[t].total
    BY <1>3, <1>4 DEF TypeOK
  <2>3. \A t \in Thrds : th'[t].rcvd <= th'[t].total
    BY <1>5, <2>2
  <2>. QED BY <1>1, <2>1, <2>3 DEF TypeOK
<1>7. EachRequestOnce'
  <2> SUFFICES ASSUME NEW t \in Mine, th'[t].pc # "none"
               PROVE  /\ th'[t].total >= args.conn
                      /\ IF t < args.thrd - 1 THEN th'[t].total = total_req \div args.thrd
                         ELSE th'[t].total = total_req - t * (total_req \div args.thrd)
    BY <1>1 DEF EachRequestOnce
  <2>1. CASE t = i
    BY <1>1, <1>4, <1>5, <2>1, NextShare
  <2>2. CASE t # i
    BY <1>2, <1>5, <2>2 DEF Shares, EachRequestOnce
  <2>. QED BY <2>1, <2>2
<1>8. Shares'
  BY <1>1, <1>7 DEF Shares
<1>9. Started'
  BY <1>1, <1>2, <1>4, <1>5 DEF Started, Mine
<1>10. Files'
  BY <1>1, <1>2, <1>4, <1>5 DEF Files, LogsToOwnFile, Running, Over, Walking
<1>11. Built'
  BY <1>1, <1>2, <1>4, <1>5 DEF Built, Shared, Inserting, Building, Carries
<1>12. Counted'
  BY <1>1, <1>2, <1>4, CountedFrame
<1>. QED
  BY <1>6, <1>8, <1>9, <1>10, <1>11, <1>12

LEMMA StartThreadInv == ASSUME IInv, StartThread PROVE IInv'
<1> USE DEF IInv
<1>1. /\ pc = "start" /\ pc' = "register"
      /\ UNCHANGED <<args, total_req, leftover, i, mapped, logf, armed, slot, http_req, walk>>
      /\ Mine' = Mine
  BY DEF StartThread, Mine
<1>2. i \in Mine /\ i < args.thrd /\ Mine \subseteq Thrds /\ args.thrd \in Nat \ {0} /\ ~armed
  BY <1>1, Ranges
<1>3. PICK how \in {"begin", "failed"} : th' = [th EXCEPT ![i].pc = how]
  BY DEF StartThread
<1> DEFINE m == [th[i] EXCEPT !.pc = how]
<1>4. th[i] \in Managers /\ th[i].pc = "made" /\ th[i].k = 1 /\ th[i].req = {} /\ th[i].rcvd <= th[i].total
  BY <1>1, <1>2 DEF TypeOK, Started, Built, Inserting
<1>5. /\ m \in Managers /\ m.pc = how /\ m.total = th[i].total /\ m.rcvd = th[i].rcvd
      /\ m.k = 1 /\ m.req = {}
  BY <1>4 DEF Managers, Running
<1>6. th' = [th EXCEPT ![i] = m]
  BY <1>3
<1> HIDE DEF m
<1>7. th'[i] = m /\ th \in [Thrds -> Managers] /\ \A u \in Thrds : u # i => th'[u] = th[u]
  BY <1>2, <1>6 DEF TypeOK
<1>8. TypeOK'
  <2>1. th' \in [Thrds -> Managers] /\ \A t \in Thrds : th'[t].rcvd <= th'[t].total
    BY <1>2, <1>4, <1>5, <1>6, <1>7 DEF TypeOK
  <2>. QED BY <1>1, <2>1 DEF TypeOK
<1>9. EachRequestOnce'
  BY <1>1, <1>2, <1>4, <1>5, <1>7 DEF Shares, EachRequestOnce
<1>10. Shares'
  BY <1>1, <1>9 DEF Shares
<1>11. Started'
  BY <1>1, <1>2, <1>5, <1>7 DEF Started, Mine
<1>12. Files'
  BY <1>1, <1>2, <1>5, <1>7 DEF Files, LogsToOwnFile, Running, Over, Walking
<1>13. Built'
  BY <1>1, <1>2, <1>5, <1>7 DEF Built, Shared, Inserting, Building, Carries
<1>14. Counted'
  BY <1>1, <1>2, <1>5, <1>6, CountedFrame
<1>. QED
  BY <1>8, <1>10, <1>11, <1>12, <1>13, <1>14

-----------------------------------------------------------------------------
(* The whole of kb. *)

LEMMA InitInv == ASSUME Init PROVE IInv
<1>1. /\ args \in Arguments /\ args.reqs >= args.thrd * args.conn /\ args.thrd \in Nat \ {0}
      /\ args.thrd <= MAX_THREAD /\ MAX_THREAD \in Nat \ {0}
  BY ThreadsAssumption DEF Init, Arguments
<1>2. Mine \subseteq Thrds /\ 0 \in Mine
  BY <1>1 DEF Mine, Thrds
<1>3. Idle \in Managers /\ Idle.pc = "none" /\ Idle.rcvd <= Idle.total
  <2>1. 1 \in 1..4 /\ 0 \in Nat
    OBVIOUS
  <2>. QED BY <2>1 DEF Managers, Idle
<1>4. \A t \in Thrds : th[t] = Idle
  BY DEF Init
<1>5. TypeOK
  <2>1. th \in [Thrds -> Managers] /\ \A t \in Thrds : th[t].rcvd <= th[t].total
    BY <1>3 DEF Init
  <2>2. slot \in [Thrds -> Statistics] /\ logf \in [Thrds -> {"none", "open", "null", "closed"}]
    BY DEF Init, Statistics, NoStats
  <2>3. http_req \in [dirty : SUBSET HeaderNames, conn : {"none", "keep-alive", "close"},
                      custom : {"HDR:VAL", "HDR"}]
    BY ThreadsAssumption DEF Init, HeaderNames
  <2>4. walk \in [num : Thrds, sum : Nat] /\ leftover \in 0..(args.thrd - 1) /\ i \in 0..args.thrd
    BY <1>1, <1>2 DEF Init
  <2>. QED BY <1>1, <2>1, <2>2, <2>3, <2>4 DEF Init, TypeOK
<1>6. Shares
  BY <1>1, <1>2, <1>3, <1>4 DEF Init, Shares, EachRequestOnce
<1>7. Started
  BY <1>1, <1>2, <1>3, <1>4 DEF Init, Started
<1>8. Files
  BY <1>2, <1>3, <1>4 DEF Init, Files, LogsToOwnFile, Running
<1>9. Built
  BY <1>3, <1>4, ThreadsAssumption DEF Init, Built, Shared, Inserting, Building
<1>10. Counted
  BY <1>3, <1>4 DEF Counted
<1>. QED
  BY <1>5, <1>6, <1>7, <1>8, <1>9, <1>10 DEF IInv

LEMMA NextInv == ASSUME IInv, [Next]_vars PROVE IInv'
<1>1. CASE OnMain
  <2>1. CASE Main
    BY <2>1, DistributeInv, OpenLogInv, CreateManagerInv, NoManagerInv, StartThreadInv, RegisterInv,
       InstallHandlerInv, ProgressOverInv, JoinInv, JoinFaultsInv, EndTimeInv, DumpInv, ReturnInv
    DEF Main
  <2>. QED
    BY <1>1, <2>1, WalkLoadInv, WalkStoreInv, WalkFaultsInv, WalkEndInv DEF OnMain
<1>2. CASE Interrupt
  BY <1>2, InterruptInv
<1>3. CASE \E t \in Mine : Thread(t)
  BY <1>3, ThreadInv
<1>4. CASE UNCHANGED vars
  <2>1. /\ UNCHANGED <<args, total_req, leftover, pc, i, th, slot, http_req, mapped, logf, armed, walk>>
        /\ Mine' = Mine /\ Over' = Over
    BY <1>4 DEF vars, Mine, Over
  <2>2. TypeOK'
    BY <2>1 DEF IInv, TypeOK
  <2>3. EachRequestOnce'
    BY <2>1 DEF IInv, Shares, EachRequestOnce
  <2>4. Shares' /\ Started'
    BY <2>1, <2>3 DEF IInv, Shares, Started
  <2>5. Files'
    BY <2>1 DEF IInv, Files, LogsToOwnFile
  <2>6. Built' /\ Counted'
    BY <2>1, BuiltFrame DEF IInv
  <2>. QED
    BY <2>2, <2>4, <2>5, <2>6 DEF IInv
<1>. QED
  BY <1>1, <1>2, <1>3, <1>4 DEF Next, Finished

\* The strengthened invariant holds in every reachable state.
THEOREM Invariant == Spec => []IInv
<1>1. Init => IInv
  BY InitInv
<1>2. IInv /\ [Next]_vars => IInv'
  BY NextInv
<1>. QED
  BY <1>1, <1>2, PTL DEF Spec

\* Every variable of main, the threads and the handler stays within its range:
\* main and the handler never go past the last thread, no thread is credited
\* more answers than its share has requests, and no number of a thread names a
\* slot that is not there.
THEOREM TypeCorrect == Spec => []TypeOK
<1>1. IInv => TypeOK
  BY DEF IInv
<1>. QED
  BY <1>1, Invariant, PTL

\* The loop of main (kb.c) hands every request of -n to exactly one thread,
\* however many threads there are and however they run meanwhile.
THEOREM RequestsSplitOnce == Spec => []EachRequestOnce
<1>1. IInv => EachRequestOnce
  BY DEF IInv, Shares
<1>. QED
  BY <1>1, Invariant, PTL

\* Whatever the threads write into the shared request object while others read
\* it, each builds a request with Host and the user's headers and without an
\* unset field (http_request_process.c).
THEOREM RequestsCarryHost == Spec => []RequestsWellFormed
<1>1. ASSUME IInv PROVE RequestsWellFormed
  BY <1>1, MineInThrds DEF IInv, RequestsWellFormed, Built, Building, Carries
<1>2. IInv => RequestsWellFormed
  BY <1>1
<1>. QED
  BY <1>2, Invariant, PTL

\* No thread outlives its log file but through a failing fopen() or SIGINT, and
\* a thread is unknown to the log for a moment at most (kb.c, logger.c).
THEOREM ThreadsLogToTheirFile == Spec => []LogsToOwnFile
<1>1. IInv => LogsToOwnFile
  BY DEF IInv, Files
<1>. QED
  BY <1>1, Invariant, PTL

-----------------------------------------------------------------------------
(* What the threads count, slot by slot. *)

\* The answers thread t has written into its slot, and those it has reported
\* at its end, or is about to.
Stored   == [t \in Mine |-> th[t].got - (IF th[t].pc = "count" THEN 1 ELSE 0)]
Reported == [t \in Mine |-> IF th[t].pc \in {"conn2", "free", "ended"} THEN th[t].rcvd ELSE 0]

\* What the handler has added: the answers of the managers it has been at.
Visited  == [t \in Mine |-> IF pc \in Walking /\ t < i THEN th[t].rcvd ELSE 0]

\* The sum over the threads that share slot n.
AtSlot(n, f) == [t \in Mine |-> IF ThrdNum(t) = n THEN f[t] ELSE 0]
InSlot(n, f) == Tally(Mine, AtSlot(n, f))

LEMMA MineFinite == ASSUME TypeOK PROVE IsFiniteSet(Mine) /\ Cardinality(Mine) = args.thrd
<1>1. args.thrd \in Nat \ {0}
  BY MineInThrds
<1>2. 0 \in Int /\ args.thrd - 1 \in Int /\ (IF 0 > args.thrd - 1 THEN 0 ELSE args.thrd - 1 - 0 + 1) = args.thrd
  BY <1>1
<1> QED BY <1>2, FS_Interval DEF Mine

LEMMA InSlotType ==
  ASSUME TypeOK, NEW f \in [Mine -> Nat], NEW n
  PROVE  AtSlot(n, f) \in [Mine -> Nat] /\ InSlot(n, f) \in Nat
<1>1. AtSlot(n, f) \in [Mine -> Nat]
  BY DEF AtSlot
<1> QED BY <1>1, MineFinite, TallyType DEF InSlot

LEMMA InSlotUp ==
  ASSUME TypeOK, NEW f \in [Mine -> Nat], NEW g \in [Mine -> Nat], NEW n,
         \A t \in Mine : f[t] <= g[t]
  PROVE  InSlot(n, f) <= InSlot(n, g)
<1>1. \A t \in Mine : AtSlot(n, f)[t] <= AtSlot(n, g)[t]
  BY DEF AtSlot
<1>2. AtSlot(n, f) \in [Mine -> Nat] /\ AtSlot(n, g) \in [Mine -> Nat]
  BY InSlotType
<1> QED BY <1>1, <1>2, MineFinite, TallyOrder DEF InSlot

LEMMA InSlotAdd ==
  ASSUME TypeOK, NEW f \in [Mine -> Nat], NEW g \in [Mine -> Nat], NEW t \in Mine, NEW k \in Nat,
         g[t] = f[t] + k, \A u \in Mine \ {t} : g[u] = f[u]
  PROVE  InSlot(ThrdNum(t), g) = InSlot(ThrdNum(t), f) + k
<1> DEFINE n == ThrdNum(t)
           F == AtSlot(n, f)
           G == AtSlot(n, g)
<1>1. F \in [Mine -> Nat] /\ G \in [Mine -> Nat]
  BY InSlotType
<1>2. F[t] = f[t] /\ G[t] = f[t] + k /\ f[t] \in Nat
  BY DEF AtSlot
<1>3. \A u \in Mine \ {t} : G[u] = F[u]
  BY DEF AtSlot
<1> HIDE DEF F, G
<1>4. Tally(Mine, F) \in Nat /\ Tally(Mine, G) = Tally(Mine, F) + G[t] - F[t]
  BY <1>1, <1>3, MineFinite, TallyChange
<1>5. Tally(Mine, G) = Tally(Mine, F) + k
  BY <1>2, <1>4
<1> QED BY <1>5 DEF InSlot, F, G

LEMMA ManagerFacts ==
  ASSUME TypeOK, NEW t \in Thrds
  PROVE  /\ th[t] \in Managers /\ th[t].got \in Nat /\ th[t].rcvd \in Nat /\ th[t].reg \in Nat
         /\ th[t].total \in Nat /\ slot[t] \in Statistics
         /\ slot[t].recv \in Nat /\ slot[t].workload \in Nat
<1>1. th[t] \in Managers /\ slot[t] \in Statistics
  BY DEF TypeOK
<1> QED BY <1>1 DEF Managers, Statistics

-----------------------------------------------------------------------------
(* The forms the steps of a thread have, as far as the counts go. *)

SlotsKept == \A n \in Thrds : slot'[n].recv = slot[n].recv /\ slot'[n].workload = slot[n].workload

\* Thread t does something else.
Elsewhere(t) ==
  /\ SlotsKept
  /\ th[t].pc \notin {"count", "conn2"} /\ th'[t].pc \notin {"none", "count", "conn2"}
  /\ th'[t].got = th[t].got /\ th'[t].rcvd >= th[t].rcvd
  /\ th[t].pc \in {"free", "ended"} <=> th'[t].pc \in {"free", "ended"}
  /\ th[t].pc \in {"free", "ended"} => th'[t].rcvd = th[t].rcvd

Receives(t) ==
  /\ SlotsKept
  /\ th[t].pc = "run" /\ th'[t].pc = "count"
  /\ th'[t].got = th[t].got + 1 /\ th'[t].rcvd >= th[t].rcvd /\ th'[t].reg = S(t).recv

Counts(t) ==
  /\ th[t].pc = "count" /\ th'[t].pc \in {"run", "credit"}
  /\ th'[t].got = th[t].got /\ th'[t].rcvd = th[t].rcvd
  /\ \A n \in Thrds : /\ slot'[n].workload = slot[n].workload
                      /\ slot'[n].recv = IF n = ThrdNum(t) THEN th[t].reg + 1 ELSE slot[n].recv

Loads(t) ==
  /\ SlotsKept
  /\ th[t].pc = "conn" /\ th'[t].pc = "conn2"
  /\ th'[t].got = th[t].got /\ th'[t].rcvd = th[t].rcvd
  /\ th'[t].reg = S(t).workload + th[t].rcvd

Stores(t) ==
  /\ th[t].pc = "conn2" /\ th'[t].pc = "free"
  /\ th'[t].got = th[t].got /\ th'[t].rcvd = th[t].rcvd
  /\ \A n \in Thrds : /\ slot'[n].recv = slot[n].recv
                      /\ slot'[n].workload = IF n = ThrdNum(t) THEN th[t].reg ELSE slot[n].workload

Forms(t) == Elsewhere(t) \/ Receives(t) \/ Counts(t) \/ Loads(t) \/ Stores(t)

Alone(t) == \A u \in Thrds \ {t} : th'[u] = th[u]

LEMMA ThreadForms ==
  ASSUME IInv, NEW t \in Mine, Thread(t)
  PROVE  /\ ~Over /\ UNCHANGED mainVars /\ Alone(t)
         /\ \/ pc' = "exit" /\ UNCHANGED <<th, slot>>
            \/ pc' = pc /\ Forms(t)
<1>0. TypeOK
  BY DEF IInv
<1>1. t \in Thrds /\ ThrdNum(t) \in Thrds /\ th \in [Thrds -> Managers] /\ slot \in [Thrds -> Statistics]
  BY <1>0, MineInThrds, SlotInRange DEF TypeOK
<1>2. PICK m \in Managers : m = th[t]
  BY <1>1
<1>3. m.rcvd \in Nat /\ m.got \in Nat /\ m.reg \in Nat
  BY DEF Managers
<1>4. PICK s \in Statistics : s = slot[ThrdNum(t)]
  BY <1>1
<1> USE DEF At, Go, Step
<1>5. ASSUME th' = th, pc' = "exit", UNCHANGED <<mainVars, slot>>, ~Over
      PROVE  /\ ~Over /\ UNCHANGED mainVars /\ Alone(t)
             /\ pc' = "exit" /\ UNCHANGED <<th, slot>>
  BY <1>5 DEF Alone
<1>6. ASSUME NEW k, th' = [th EXCEPT ![t] = k], pc' = pc, UNCHANGED mainVars, ~Over
      PROVE  /\ ~Over /\ UNCHANGED mainVars /\ Alone(t) /\ th'[t] = k /\ pc' = pc
  BY <1>1, <1>6 DEF Alone
<1>7. ASSUME NEW k, th' = [th EXCEPT ![t] = k], SlotsKept,
             m.pc \notin {"count", "conn2"}, k.pc \notin {"none", "count", "conn2"},
             k.got = m.got, k.rcvd >= m.rcvd,
             m.pc \in {"free", "ended"} <=> k.pc \in {"free", "ended"},
             m.pc \in {"free", "ended"} => k.rcvd = m.rcvd
      PROVE  Elsewhere(t)
  BY <1>1, <1>2, <1>7 DEF Elsewhere
<1>8. ASSUME slot' = slot PROVE SlotsKept
  BY <1>8 DEF SlotsKept
<1>9. ASSUME NEW w, slot' = [slot EXCEPT ![ThrdNum(t)] = w], w.recv = s.recv, w.workload = s.workload
      PROVE  SlotsKept
  BY <1>1, <1>4, <1>9 DEF SlotsKept
<1>10. CASE Begin(t)
  <2> DEFINE k == [m EXCEPT !.pc = "load"]
             w == [s EXCEPT !.time = "point"]
  <2>1. th' = [th EXCEPT ![t] = k] /\ slot' = [slot EXCEPT ![ThrdNum(t)] = w]
    BY <1>2, <1>4, <1>10 DEF Begin
  <2>2. m.pc = "begin" /\ pc' = pc /\ ~Over /\ UNCHANGED mainVars
    BY <1>2, <1>10 DEF Begin
  <2>3. k.pc = "load" /\ k.got = m.got /\ k.rcvd = m.rcvd /\ w.recv = s.recv /\ w.workload = s.workload
    BY <1>3 DEF Managers, Statistics
  <2> HIDE DEF k, w
  <2>4. SlotsKept
    BY <1>9, <2>1, <2>3
  <2>5. Elsewhere(t)
    <3>1. /\ m.pc \notin {"count", "conn2", "free", "ended"} /\ k.rcvd >= m.rcvd
          /\ k.pc \notin {"none", "count", "conn2", "free", "ended"}
      BY <1>3, <2>2, <2>3
    <3> QED BY <1>7, <2>1, <2>2, <2>3, <2>4, <3>1
  <2> QED BY <1>6, <2>1, <2>2, <2>5 DEF Forms
<1>11. CASE End(t)
  <2> DEFINE k == [m EXCEPT !.pc = "conn"]
             w == [s EXCEPT !.time = Ended(@), !.fin = TRUE]
  <2>1. th' = [th EXCEPT ![t] = k] /\ slot' = [slot EXCEPT ![ThrdNum(t)] = w]
    <3>1. th' = [th EXCEPT ![t] = k]
      BY <1>2, <1>11 DEF End
    <3>2. slot' = [slot EXCEPT ![ThrdNum(t)].time = Ended(@), ![ThrdNum(t)].fin = TRUE]
      BY <1>11 DEF End
    <3>3. slot' = [slot EXCEPT ![ThrdNum(t)] = w]
      BY <1>1, <1>4, <3>2 DEF Statistics
    <3> QED BY <3>1, <3>3
  <2>2. m.pc = "end" /\ pc' = pc /\ ~Over /\ UNCHANGED mainVars
    BY <1>2, <1>11 DEF End
  <2>3. k.pc = "conn" /\ k.got = m.got /\ k.rcvd = m.rcvd /\ w.recv = s.recv /\ w.workload = s.workload
    BY <1>3 DEF Managers, Statistics
  <2> HIDE DEF k, w
  <2>4. SlotsKept
    BY <1>9, <2>1, <2>3
  <2>5. Elsewhere(t)
    <3>1. /\ m.pc \notin {"count", "conn2", "free", "ended"} /\ k.rcvd >= m.rcvd
          /\ k.pc \notin {"none", "count", "conn2", "free", "ended"}
      BY <1>3, <2>2, <2>3
    <3> QED BY <1>7, <2>1, <2>2, <2>3, <2>4, <3>1
  <2> QED BY <1>6, <2>1, <2>2, <2>5 DEF Forms
<1>12. CASE InsLoad(t)
  <2> DEFINE k == [m EXCEPT !.pc = "store", !.dirty = http_req.dirty]
  <2>1. th' = [th EXCEPT ![t] = k]
    BY <1>2, <1>12 DEF InsLoad
  <2>2. m.pc = "load" /\ pc' = pc /\ ~Over /\ UNCHANGED mainVars /\ slot' = slot
    BY <1>2, <1>12 DEF InsLoad
  <2>3. k.pc = "store" /\ k.got = m.got /\ k.rcvd >= m.rcvd
    BY <1>3 DEF Managers
  <2> HIDE DEF k
  <2>5. Elsewhere(t)
    BY <1>7, <1>8, <2>1, <2>2, <2>3
  <2> QED BY <1>6, <2>1, <2>2, <2>5 DEF Forms
<1>13. CASE CustomCut(t)
  <2> DEFINE k == [m EXCEPT !.pc = "log", !.req = @ \cup {<<"HDR", "value">>}]
  <2>1. th' = [th EXCEPT ![t] = k]
    BY <1>2, <1>13 DEF CustomCut
  <2>2. m.pc = "cut" /\ pc' = pc /\ ~Over /\ UNCHANGED mainVars /\ slot' = slot
    BY <1>2, <1>13 DEF CustomCut
  <2>3. k.pc = "log" /\ k.got = m.got /\ k.rcvd >= m.rcvd
    BY <1>3 DEF Managers
  <2> HIDE DEF k
  <2>5. Elsewhere(t)
    BY <1>7, <1>8, <2>1, <2>2, <2>3
  <2> QED BY <1>6, <2>1, <2>2, <2>5 DEF Forms
<1>14. CASE LogRequest(t)
  <2> DEFINE k == [m EXCEPT !.pc = "run", !.req = {}]
  <2>1. th' = [th EXCEPT ![t] = k]
    BY <1>2, <1>14 DEF LogRequest
  <2>2. m.pc = "log" /\ pc' = pc /\ ~Over /\ UNCHANGED mainVars /\ slot' = slot
    BY <1>2, <1>14 DEF LogRequest
  <2>3. k.pc = "run" /\ k.got = m.got /\ k.rcvd >= m.rcvd
    BY <1>3 DEF Managers
  <2> HIDE DEF k
  <2>5. Elsewhere(t)
    BY <1>7, <1>8, <2>1, <2>2, <2>3
  <2> QED BY <1>6, <2>1, <2>2, <2>5 DEF Forms
<1>15. CASE Credit(t)
  <2> DEFINE k == [m EXCEPT !.pc = "run", !.rcvd = @ + 1]
  <2>1. th' = [th EXCEPT ![t] = k]
    BY <1>2, <1>15 DEF Credit
  <2>2. m.pc = "credit" /\ pc' = pc /\ ~Over /\ UNCHANGED mainVars /\ slot' = slot
    BY <1>2, <1>15 DEF Credit
  <2>3. k.pc = "run" /\ k.got = m.got /\ k.rcvd >= m.rcvd
    BY <1>3 DEF Managers
  <2> HIDE DEF k
  <2>5. Elsewhere(t)
    BY <1>7, <1>8, <2>1, <2>2, <2>3
  <2> QED BY <1>6, <2>1, <2>2, <2>5 DEF Forms
<1>16. CASE Leave(t)
  <2> DEFINE k == [m EXCEPT !.pc = "end"]
  <2>1. th' = [th EXCEPT ![t] = k]
    BY <1>2, <1>16 DEF Leave
  <2>2. m.pc = "run" /\ pc' = pc /\ ~Over /\ UNCHANGED mainVars /\ slot' = slot
    BY <1>2, <1>16 DEF Leave
  <2>3. k.pc = "end" /\ k.got = m.got /\ k.rcvd >= m.rcvd
    BY <1>3 DEF Managers
  <2> HIDE DEF k
  <2>5. Elsewhere(t)
    BY <1>7, <1>8, <2>1, <2>2, <2>3
  <2> QED BY <1>6, <2>1, <2>2, <2>5 DEF Forms
<1>17. CASE Free(t)
  <2> DEFINE k == [m EXCEPT !.pc = "ended"]
  <2>1. th' = [th EXCEPT ![t] = k]
    BY <1>2, <1>17 DEF Free
  <2>2. m.pc = "free" /\ pc' = pc /\ ~Over /\ UNCHANGED mainVars /\ slot' = slot
    BY <1>2, <1>17 DEF Free
  <2>3. k.pc = "ended" /\ k.got = m.got /\ k.rcvd >= m.rcvd /\ k.rcvd = m.rcvd
    BY <1>3 DEF Managers
  <2> HIDE DEF k
  <2>5. Elsewhere(t)
    BY <1>7, <1>8, <2>1, <2>2, <2>3
  <2> QED BY <1>6, <2>1, <2>2, <2>5 DEF Forms
<1>18. CASE InsStore(t)
  <2>1. PICK k : /\ th' = [th EXCEPT ![t] = k] /\ k.pc \in {"load", "copy"}
                 /\ k.got = m.got /\ k.rcvd = m.rcvd
    <3>1. CASE m.k < Len(Inserted)
      <4> DEFINE k == [m EXCEPT !.pc = "load", !.k = @ + 1]
      <4>1. th' = [th EXCEPT ![t] = k]
        BY <1>2, <1>18, <3>1 DEF InsStore
      <4>2. k.pc = "load" /\ k.got = m.got /\ k.rcvd = m.rcvd
        BY DEF Managers
      <4> QED BY <4>1, <4>2
    <3>2. CASE ~(m.k < Len(Inserted))
      <4> DEFINE k == [m EXCEPT !.pc = "copy", !.k = 1, !.dirty = {}]
      <4>1. th' = [th EXCEPT ![t] = k]
        BY <1>2, <1>18, <3>2 DEF InsStore
      <4>2. k.pc = "copy" /\ k.got = m.got /\ k.rcvd = m.rcvd
        BY DEF Managers
      <4> QED BY <4>1, <4>2
    <3> QED BY <3>1, <3>2
  <2>2. m.pc = "store" /\ pc' = pc /\ ~Over /\ UNCHANGED mainVars /\ slot' = slot
    BY <1>2, <1>18 DEF InsStore
  <2>5. Elsewhere(t)
    <3>1. /\ m.pc \notin {"count", "conn2", "free", "ended"} /\ k.rcvd >= m.rcvd
          /\ k.pc \notin {"none", "count", "conn2", "free", "ended"}
      BY <1>3, <2>1, <2>2
    <3> QED BY <1>7, <1>8, <2>1, <2>2, <3>1
  <2> QED BY <1>6, <2>1, <2>2, <2>5 DEF Forms
<1>19. CASE Copy(t)
  <2> DEFINE h == Headers[th[t].k]
             r == m.req \cup (IF h \in http_req.dirty THEN {Field(h)} ELSE {})
             p == IF m.k < Len(Headers) THEN "copy" ELSE IF CUSTOM THEN "custom" ELSE "log"
             j == IF m.k < Len(Headers) THEN m.k + 1 ELSE 1
             k == [m EXCEPT !.req = r, !.pc = p, !.k = j]
  <2>1. th' = [th EXCEPT ![t] = k]
    BY <1>2, <1>19 DEF Copy
  <2>2. m.pc = "copy" /\ pc' = pc /\ ~Over /\ UNCHANGED mainVars /\ slot' = slot
    BY <1>2, <1>19 DEF Copy
  <2>3. k.pc = p /\ k.got = m.got /\ k.rcvd = m.rcvd
    <3> HIDE DEF r, p, j
    <3> QED BY DEF Managers
  <2>4. p \notin {"none", "count", "conn2", "free", "ended"}
    OBVIOUS
  <2> HIDE DEF k, p
  <2>5. Elsewhere(t)
    <3>1. /\ m.pc \notin {"count", "conn2", "free", "ended"} /\ k.rcvd >= m.rcvd
          /\ k.pc \notin {"none", "count", "conn2", "free", "ended"}
      BY <1>3, <2>2, <2>3, <2>4
    <3> QED BY <1>7, <1>8, <2>1, <2>2, <2>3, <3>1
  <2> QED BY <1>6, <2>1, <2>2, <2>5 DEF Forms
<1>20. CASE CustomFind(t)
  <2>1. PICK k : /\ th' = [th EXCEPT ![t] = k] /\ k.pc \in {"cut", "log"}
                 /\ k.got = m.got /\ k.rcvd = m.rcvd
    <3>1. CASE http_req.custom = "HDR:VAL"
      <4> DEFINE k == [m EXCEPT !.pc = "cut"]
      <4>1. th' = [th EXCEPT ![t] = k]
        BY <1>2, <1>20, <3>1 DEF CustomFind
      <4>2. k.pc = "cut" /\ k.got = m.got /\ k.rcvd = m.rcvd
        BY DEF Managers
      <4> QED BY <4>1, <4>2
    <3>2. CASE http_req.custom # "HDR:VAL"
      <4> DEFINE k == [m EXCEPT !.pc = "log", !.req = @ \cup {<<"HDR", "blank">>}]
      <4>1. th' = [th EXCEPT ![t] = k]
        BY <1>2, <1>20, <3>2 DEF CustomFind
      <4>2. k.pc = "log" /\ k.got = m.got /\ k.rcvd = m.rcvd
        BY DEF Managers
      <4> QED BY <4>1, <4>2
    <3> QED BY <3>1, <3>2
  <2>2. m.pc = "custom" /\ pc' = pc /\ ~Over /\ UNCHANGED mainVars /\ slot' = slot
    BY <1>2, <1>20 DEF CustomFind
  <2>5. Elsewhere(t)
    <3>1. /\ m.pc \notin {"count", "conn2", "free", "ended"} /\ k.rcvd >= m.rcvd
          /\ k.pc \notin {"none", "count", "conn2", "free", "ended"}
      BY <1>3, <2>1, <2>2
    <3> QED BY <1>7, <1>8, <2>1, <2>2, <3>1
  <2> QED BY <1>6, <2>1, <2>2, <2>5 DEF Forms
<1>21. CASE LogFaults(t)
  <2>1. ~Over /\ m.pc \in {"log", "run", "end"} /\ UNCHANGED <<mainVars, slot>>
    BY <1>2, <1>21 DEF LogFaults
  <2>2. CASE pc' = "exit" /\ th' = th
    BY <1>5, <2>1, <2>2
  <2>3. CASE pc' = pc /\ th' = [th EXCEPT ![t].pc = "spin"]
    <3> DEFINE k == [m EXCEPT !.pc = "spin"]
    <3>1. th' = [th EXCEPT ![t] = k]
      BY <1>2, <2>3
    <3>2. k.pc = "spin" /\ k.got = m.got /\ k.rcvd = m.rcvd
      BY DEF Managers
    <3> HIDE DEF k
    <3>3. Elsewhere(t)
      <4>1. /\ m.pc \notin {"count", "conn2", "free", "ended"} /\ k.rcvd >= m.rcvd
            /\ k.pc \notin {"none", "count", "conn2", "free", "ended"}
        BY <1>3, <2>1, <3>2
      <4>2. SlotsKept
        BY <1>8, <2>1
      <4> QED BY <1>7, <3>1, <3>2, <4>1, <4>2
    <3> QED BY <1>6, <2>1, <2>3, <3>1, <3>3 DEF Forms
  <2> QED BY <1>21, <2>2, <2>3 DEF LogFaults
<1>22. CASE Abort(t)
  BY <1>5, <1>22 DEF Abort
<1>23. CASE Receive(t)
  <2>1. m.pc = "run" /\ pc' = pc /\ ~Over /\ UNCHANGED mainVars /\ slot' = slot
    BY <1>2, <1>23 DEF Receive
  <2>2. PICK k : /\ th' = [th EXCEPT ![t] = k] /\ k.pc = "count" /\ k.got = m.got + 1
                 /\ k.rcvd >= m.rcvd /\ k.reg = S(t).recv
    <3> DEFINE d == IF args.use_non_block THEN 1 ELSE 0
               v == S(t).recv
               a == [m EXCEPT !.pc = "count", !.got = @ + 1, !.reg = v, !.rcvd = @ + d]
               b == [m EXCEPT !.pc = "count", !.got = @ + 1, !.reg = v, !.errs = @ + 1, !.k = 2]
    <3>1. th' = [th EXCEPT ![t] = a] \/ th' = [th EXCEPT ![t] = b]
      BY <1>2, <1>23 DEF Receive
    <3>2. d \in Nat
      OBVIOUS
    <3> HIDE DEF d, v
    <3>3. /\ a.pc = "count" /\ a.got = m.got + 1 /\ a.reg = v /\ a.rcvd = m.rcvd + d
          /\ b.pc = "count" /\ b.got = m.got + 1 /\ b.reg = v /\ b.rcvd = m.rcvd
      BY DEF Managers
    <3> HIDE DEF a, b
    <3>4. a.rcvd >= m.rcvd /\ b.rcvd >= m.rcvd
      BY <1>3, <3>2, <3>3
    <3> QED BY <3>1, <3>3, <3>4 DEF v
  <2>3. Receives(t)
    BY <1>1, <1>2, <1>8, <2>1, <2>2 DEF Receives
  <2> QED BY <1>6, <2>1, <2>2, <2>3 DEF Forms
<1>24. CASE Count(t)
  <2> DEFINE p == IF args.use_non_block \/ m.k = 2 THEN "run" ELSE "credit"
             k == [m EXCEPT !.k = 1, !.reg = 0, !.pc = p]
             w == [s EXCEPT !.recv = m.reg + 1]
  <2>1. th' = [th EXCEPT ![t] = k] /\ slot' = [slot EXCEPT ![ThrdNum(t)] = w]
    BY <1>2, <1>4, <1>24 DEF Count
  <2>2. m.pc = "count" /\ pc' = pc /\ ~Over /\ UNCHANGED mainVars
    BY <1>2, <1>24 DEF Count
  <2>3. p \in {"run", "credit"}
    OBVIOUS
  <2> HIDE DEF p
  <2>4. k.pc = p /\ k.got = m.got /\ k.rcvd = m.rcvd /\ w.recv = m.reg + 1 /\ w.workload = s.workload
    BY DEF Managers, Statistics
  <2> HIDE DEF k, w
  <2>5. Counts(t)
    BY <1>1, <1>2, <1>4, <2>1, <2>2, <2>3, <2>4 DEF Counts
  <2> QED BY <1>6, <2>1, <2>2, <2>5 DEF Forms
<1>25. CASE ConnLoad(t)
  <2> DEFINE v == S(t).workload + m.rcvd
             k == [m EXCEPT !.pc = "conn2", !.reg = v]
  <2>1. th' = [th EXCEPT ![t] = k]
    BY <1>2, <1>25 DEF ConnLoad
  <2>2. m.pc = "conn" /\ pc' = pc /\ ~Over /\ UNCHANGED mainVars /\ slot' = slot
    BY <1>2, <1>25 DEF ConnLoad
  <2> HIDE DEF v
  <2>3. k.pc = "conn2" /\ k.got = m.got /\ k.rcvd = m.rcvd /\ k.reg = v
    BY DEF Managers
  <2> HIDE DEF k
  <2>4. Loads(t)
    BY <1>1, <1>2, <1>8, <2>1, <2>2, <2>3 DEF Loads, v
  <2> QED BY <1>6, <2>1, <2>2, <2>4 DEF Forms
<1>26. CASE ConnStore(t)
  <2> DEFINE k == [m EXCEPT !.pc = "free", !.reg = 0]
             w == [s EXCEPT !.workload = m.reg]
  <2>1. th' = [th EXCEPT ![t] = k] /\ slot' = [slot EXCEPT ![ThrdNum(t)] = w]
    BY <1>2, <1>4, <1>26 DEF ConnStore
  <2>2. m.pc = "conn2" /\ pc' = pc /\ ~Over /\ UNCHANGED mainVars
    BY <1>2, <1>26 DEF ConnStore
  <2>3. k.pc = "free" /\ k.got = m.got /\ k.rcvd = m.rcvd /\ w.workload = m.reg /\ w.recv = s.recv
    BY DEF Managers, Statistics
  <2> HIDE DEF k, w
  <2>4. Stores(t)
    BY <1>1, <1>2, <1>4, <2>1, <2>2, <2>3 DEF Stores
  <2> QED BY <1>6, <2>1, <2>2, <2>4 DEF Forms
<1> HIDE DEF At, Go, Step
<1> QED BY <1>10, <1>11, <1>12, <1>13, <1>14, <1>15, <1>16, <1>17, <1>18, <1>19, <1>20, <1>21, <1>22,
           <1>23, <1>24, <1>25, <1>26 DEF Thread

-----------------------------------------------------------------------------
(* No slot holds more than its threads have received. *)

\* Neither a slot nor a register that is about to be written to it holds more
\* answers than the threads of that slot have stored: updates get lost when
\* threads share a slot, but nothing is made up.
RecvLedger ==
  /\ \A t \in Thrds : th[t].pc = "none" => th[t] = Idle
  /\ \A t \in Mine : th[t].pc = "count" =>
       th[t].got >= 1 /\ th[t].reg <= InSlot(ThrdNum(t), Stored)
  /\ \A n \in Thrds : slot[n].recv <= InSlot(n, Stored)

LEMMA StoredType == ASSUME TypeOK, RecvLedger PROVE Stored \in [Mine -> Nat]
<1> SUFFICES ASSUME NEW t \in Mine
             PROVE  th[t].got - (IF th[t].pc = "count" THEN 1 ELSE 0) \in Nat
  BY DEF Stored
<1>1. th[t].got \in Nat
  BY MineInThrds, ManagerFacts
<1> QED BY <1>1 DEF RecvLedger

RecvKept == \A n \in Thrds : slot'[n].recv = slot[n].recv

LEMMA RecvStep ==
  ASSUME TypeOK, TypeOK', Mine' = Mine, RecvLedger,
         (th' = th /\ RecvKept) \/ (\E t \in Mine : Alone(t) /\ Forms(t))
  PROVE  RecvLedger'
<1> DEFINE new == [t \in Mine |-> th'[t].got - (IF th'[t].pc = "count" THEN 1 ELSE 0)]
<1>0. Stored' = new /\ (\A n : InSlot(n, Stored)' = InSlot(n, new)) /\ Mine \subseteq Thrds
  BY MineInThrds DEF Stored, InSlot, AtSlot, ThrdNum
<1>1. Stored \in [Mine -> Nat]
  BY StoredType
<1>2. SUFFICES
        /\ \A t \in Thrds : th'[t].pc = "none" => th'[t] = Idle
        /\ \A t \in Mine : th'[t].pc = "count" =>
             th'[t].got >= 1 /\ th'[t].reg <= InSlot(ThrdNum(t), new)
        /\ \A n \in Thrds : slot'[n].recv <= InSlot(n, new)
  BY <1>0 DEF RecvLedger, ThrdNum
<1>3. CASE th' = th /\ RecvKept
  <2>1. new = Stored
    BY <1>3 DEF Stored
  <2> HIDE DEF new
  <2> QED BY <1>3, <2>1 DEF RecvLedger, RecvKept
<1>4. CASE \E t \in Mine : Alone(t) /\ Forms(t)
  <2> PICK t \in Mine : Alone(t) /\ Forms(t)
    BY <1>4
  <2>1. t \in Thrds /\ th[t].got \in Nat /\ th[t].reg \in Nat /\ ThrdNum(t) \in Thrds
    BY <1>0, ManagerFacts, SlotInRange
  <2>2. \A u \in Thrds \ {t} : th'[u] = th[u]
    BY DEF Alone
  <2>3. th'[t].pc # "none"
    BY DEF Forms, Elsewhere, Receives, Counts, Loads, Stores
  <2>4. \A u \in Thrds : th'[u].pc = "none" => th'[u] = Idle
    BY <2>2, <2>3 DEF RecvLedger
  <2>5. CASE ~Counts(t)
    <3>1. /\ RecvKept
          /\ th[t].pc # "count"
          /\ th'[t].pc # "count" => th'[t].got = th[t].got
          /\ th'[t].pc = "count" => th'[t].got = th[t].got + 1 /\ th'[t].reg = S(t).recv
      BY <2>5 DEF Forms, Elsewhere, Receives, Loads, Stores, SlotsKept, RecvKept
    <3>2. new = Stored
      <4> SUFFICES ASSUME NEW u \in Mine
                   PROVE  th'[u].got - (IF th'[u].pc = "count" THEN 1 ELSE 0)
                          = th[u].got - (IF th[u].pc = "count" THEN 1 ELSE 0)
        BY DEF Stored
      <4>1. CASE u = t
        BY <2>1, <3>1, <4>1
      <4>2. CASE u # t
        BY <1>0, <2>2, <4>2
      <4> QED BY <4>1, <4>2
    <3> HIDE DEF new
    <3>3. ASSUME NEW u \in Mine, th'[u].pc = "count"
          PROVE  th'[u].got >= 1 /\ th'[u].reg <= InSlot(ThrdNum(u), Stored)
      <4>1. CASE u = t
        BY <2>1, <3>1, <3>3, <4>1 DEF RecvLedger, S
      <4>2. CASE u # t
        BY <1>0, <2>2, <3>3, <4>2 DEF RecvLedger
      <4> QED BY <4>1, <4>2
    <3> QED BY <2>4, <3>1, <3>2, <3>3 DEF RecvLedger, RecvKept
  <2>6. CASE Counts(t)
    <3>1. /\ th[t].pc = "count" /\ th'[t].pc # "count" /\ th'[t].got = th[t].got
          /\ \A n \in Thrds : slot'[n].recv = IF n = ThrdNum(t) THEN th[t].reg + 1 ELSE slot[n].recv
      BY <2>6 DEF Counts
    <3>2. th[t].got >= 1 /\ th[t].reg <= InSlot(ThrdNum(t), Stored)
      BY <3>1 DEF RecvLedger
    <3>3. Stored[t] = th[t].got - 1 /\ new[t] = th[t].got
      BY <2>1, <3>1 DEF Stored
    <3>4. new[t] = Stored[t] + 1
      BY <2>1, <3>3
    <3>5. \A u \in Mine \ {t} : new[u] = Stored[u]
      BY <1>0, <2>2 DEF Stored
    <3>6. new \in [Mine -> Nat] /\ \A u \in Mine : Stored[u] <= new[u]
      <4>1. ASSUME NEW u \in Mine PROVE new[u] \in Nat /\ Stored[u] <= new[u]
        <5> HIDE DEF new
        <5> QED BY <1>1, <3>4, <3>5
      <4>2. new = [u \in Mine |-> new[u]]
        OBVIOUS
      <4> HIDE DEF new
      <4> QED BY <4>1, <4>2
    <3> HIDE DEF new
    <3>7. InSlot(ThrdNum(t), new) = InSlot(ThrdNum(t), Stored) + 1
      BY <1>1, <3>4, <3>5, <3>6, InSlotAdd
    <3>8. \A n : InSlot(n, Stored) <= InSlot(n, new) /\ InSlot(n, Stored) \in Nat /\ InSlot(n, new) \in Nat
      BY <1>1, <3>6, InSlotUp, InSlotType
    <3>9. ASSUME NEW u \in Mine, th'[u].pc = "count"
          PROVE  th'[u].got >= 1 /\ th'[u].reg <= InSlot(ThrdNum(u), new)
      <4>1. u # t /\ u \in Thrds
        BY <1>0, <3>1, <3>9
      <4>2. th[u].got >= 1 /\ th[u].reg <= InSlot(ThrdNum(u), Stored) /\ th[u].reg \in Nat
        BY <2>2, <3>9, <4>1, ManagerFacts DEF RecvLedger
      <4> QED BY <2>2, <3>8, <4>1, <4>2
    <3>10. ASSUME NEW n \in Thrds PROVE slot'[n].recv <= InSlot(n, new)
      <4>1. slot[n].recv <= InSlot(n, Stored) /\ slot[n].recv \in Nat
        BY ManagerFacts DEF RecvLedger
      <4>2. CASE n = ThrdNum(t)
        BY <2>1, <3>1, <3>2, <3>7, <3>8, <4>2
      <4>3. CASE n # ThrdNum(t)
        BY <3>1, <3>8, <4>1, <4>3
      <4> QED BY <4>2, <4>3
    <3> QED BY <2>4, <3>9, <3>10
  <2> QED BY <2>5, <2>6
<1> QED BY <1>3, <1>4

-----------------------------------------------------------------------------
(* The credited answers the slots hold, with what SIGINT adds to them. *)

\* H says how much the handler has added to each slot; all in all it is no
\* more than the answers of the managers it has been at.  No slot, and no
\* register that is about to be written to it, holds more than what its threads
\* have reported and the handler has added.
Bounds(H) ==
  /\ Tally(Mine, [n \in Mine |-> H[n]]) <= Tally(Mine, Visited)
  /\ \A n \in Thrds : slot[n].workload <= InSlot(n, Reported) + H[n]
  /\ \A t \in Mine : th[t].pc = "conn2" =>
       th[t].reg <= InSlot(ThrdNum(t), Reported) + H[ThrdNum(t)]
  /\ pc = "walk2" => walk.sum <= InSlot(walk.num, Reported) + H[walk.num] + th[i].rcvd

\* No manager is freed yet: the handler reads counters, not garbage.
Unfreed == \A t \in Mine : th[t].pc # "ended"

WorkLedger == pc \notin {"exit", "over", "spin"} /\ Unfreed => \E H \in [Thrds -> Nat] : Bounds(H)

LEMMA ReportedType ==
  ASSUME TypeOK PROVE Reported \in [Mine -> Nat] /\ Visited \in [Mine -> Nat]
<1>1. ASSUME NEW t \in Mine PROVE th[t].rcvd \in Nat
  BY MineInThrds, ManagerFacts
<1> QED BY <1>1 DEF Reported, Visited

\* A step that does not add to the slots on the handler's behalf.
LEMMA WorkStep ==
  ASSUME TypeOK, TypeOK', Mine' = Mine, NEW H \in [Thrds -> Nat], Bounds(H),
         (th' = th /\ SlotsKept) \/ (\E t \in Mine : Alone(t) /\ Forms(t)),
         \A t \in Mine : Visited[t] <= Visited'[t],
         pc = "walk2" => i \in Mine,
         pc' = "walk2" => \/ pc = "walk2" /\ walk' = walk /\ i' = i
                          \/ th' = th /\ i' \in Mine /\ walk'.num \in Thrds
                             /\ walk'.sum <= slot[walk'.num].workload + th[i'].rcvd
  PROVE  Bounds(H)'
<1> DEFINE old == Reported
           new == [t \in Mine |-> IF th'[t].pc \in {"conn2", "free", "ended"} THEN th'[t].rcvd ELSE 0]
<1>0. Reported' = new /\ (\A n : InSlot(n, Reported)' = InSlot(n, new)) /\ Mine \subseteq Thrds
  BY MineInThrds DEF Reported, InSlot, AtSlot, ThrdNum
<1>1. Reported \in [Mine -> Nat] /\ Visited \in [Mine -> Nat]
  BY ReportedType
<1>r. \A u \in Thrds : th'[u].rcvd \in Nat
  BY DEF TypeOK, Managers
<1>2. Reported' \in [Mine -> Nat] /\ Visited' \in [Mine -> Nat]
  BY <1>0, <1>r DEF Reported, Visited
<1>3. new \in [Mine -> Nat]
  BY <1>0, <1>2
\* What a thread that moves does.
<1>4. \A u \in Mine : Reported[u] <= new[u] /\ th[u].rcvd <= th'[u].rcvd
  <2> TAKE u \in Mine
  <2>1. u \in Thrds /\ th[u].rcvd \in Nat
    BY <1>0, ManagerFacts
  <2>2. CASE th'[u] = th[u]
    BY <2>1, <2>2 DEF Reported
  <2>3. CASE Forms(u)
    <3>1. /\ th[u].rcvd <= th'[u].rcvd
          /\ th[u].pc \in {"conn2", "free", "ended"} =>
               th'[u].pc \in {"conn2", "free", "ended"} /\ th'[u].rcvd = th[u].rcvd
      BY <2>1, <2>3 DEF Forms, Elsewhere, Receives, Counts, Loads, Stores
    <3>2. th'[u].rcvd \in Nat
      BY <1>r, <2>1
    <3> QED BY <2>1, <3>1, <3>2 DEF Reported
  <2> QED BY <1>0, <2>2, <2>3 DEF Alone
<1>5. ASSUME NEW n PROVE /\ InSlot(n, Reported) \in Nat /\ InSlot(n, new) \in Nat
                         /\ InSlot(n, Reported) <= InSlot(n, new)
  <2> HIDE DEF new
  <2> QED BY <1>1, <1>3, <1>4, InSlotUp, InSlotType
<1>6. Tally(Mine, [n \in Mine |-> H[n]]) <= Tally(Mine, Visited')
  <2>1. Tally(Mine, Visited) <= Tally(Mine, Visited')
    BY <1>1, <1>2, MineFinite, TallyOrder
  <2>2. Tally(Mine, Visited) \in Nat /\ Tally(Mine, Visited') \in Nat
    BY <1>1, <1>2, MineFinite, TallyType
  <2>3. [n \in Mine |-> H[n]] \in [Mine -> Nat]
    BY <1>0
  <2>4. Tally(Mine, [n \in Mine |-> H[n]]) \in Nat
    BY <2>3, MineFinite, TallyType
  <2>5. Tally(Mine, [n \in Mine |-> H[n]]) <= Tally(Mine, Visited)
    BY DEF Bounds
  <2> QED BY <2>1, <2>2, <2>4, <2>5
<1>7. ASSUME NEW n \in Thrds PROVE slot'[n].workload <= InSlot(n, new) + H[n]
  <2>1. slot[n].workload <= InSlot(n, Reported) + H[n] /\ slot[n].workload \in Nat /\ H[n] \in Nat
    BY ManagerFacts DEF Bounds
  <2>2. CASE slot'[n].workload = slot[n].workload
    BY <1>5, <2>1, <2>2
  <2>3. ASSUME NEW t \in Mine, Stores(t), n = ThrdNum(t)
        PROVE  slot'[n].workload <= InSlot(n, new) + H[n]
    <3>1. slot'[n].workload = th[t].reg /\ th[t].reg <= InSlot(n, Reported) + H[n]
      BY <2>3 DEF Stores, Bounds
    <3>2. th[t].reg \in Nat
      BY <1>0, ManagerFacts
    <3> HIDE DEF new
    <3> QED BY <1>5, <2>1, <3>1, <3>2
  <2> QED BY <2>2, <2>3 DEF Forms, Elsewhere, Receives, Counts, Loads, Stores, SlotsKept
<1>8. ASSUME NEW t \in Mine, th'[t].pc = "conn2"
      PROVE  th'[t].reg <= InSlot(ThrdNum(t), new) + H[ThrdNum(t)]
  <2>1. t \in Thrds /\ ThrdNum(t) \in Thrds
    BY <1>0, SlotInRange
  <2>2. H[ThrdNum(t)] \in Nat /\ th[t].reg \in Nat /\ th[t].rcvd \in Nat /\ slot[ThrdNum(t)].workload \in Nat
    BY <2>1, ManagerFacts
  <2>3. CASE th'[t] = th[t]
    <3>1. th[t].reg <= InSlot(ThrdNum(t), Reported) + H[ThrdNum(t)]
      BY <1>8, <2>3 DEF Bounds
    <3> HIDE DEF new
    <3> QED BY <1>5, <2>2, <2>3, <3>1
  <2>4. CASE Alone(t) /\ Forms(t)
    <3>1. /\ th[t].pc = "conn" /\ th'[t].rcvd = th[t].rcvd
          /\ th'[t].reg = slot[ThrdNum(t)].workload + th[t].rcvd
      BY <1>8, <2>4 DEF Forms, Elsewhere, Receives, Counts, Loads, Stores, S
    <3>2. Reported[t] = 0 /\ new[t] = 0 + th[t].rcvd
      BY <1>8, <2>2, <3>1 DEF Reported
    <3>3. \A u \in Mine \ {t} : new[u] = Reported[u]
      BY <1>0, <2>4 DEF Alone, Reported
    <3> HIDE DEF new
    <3>4. new[t] = Reported[t] + th[t].rcvd
      BY <3>2
    <3>5. InSlot(ThrdNum(t), new) = InSlot(ThrdNum(t), Reported) + th[t].rcvd
      BY <1>1, <1>3, <2>2, <3>3, <3>4, InSlotAdd
    <3>6. slot[ThrdNum(t)].workload <= InSlot(ThrdNum(t), Reported) + H[ThrdNum(t)]
      BY <2>1 DEF Bounds
    <3>7. InSlot(ThrdNum(t), Reported) \in Nat
      BY <1>5
    <3> QED BY <2>2, <3>1, <3>5, <3>6, <3>7
  <2>5. th'[t] = th[t] \/ (Alone(t) /\ Forms(t))
    BY <2>1 DEF Alone
  <2> QED BY <2>3, <2>4, <2>5
<1>9. ASSUME pc' = "walk2"
      PROVE  walk'.sum <= InSlot(walk'.num, new) + H[walk'.num] + th'[i'].rcvd
  <2>1. walk'.num \in Thrds /\ walk'.sum \in Nat /\ i' \in Mine
    <3>1. walk' \in [num : Thrds, sum : Nat]
      BY DEF TypeOK
    <3> QED BY <1>9, <3>1
  <2>2. H[walk'.num] \in Nat /\ th[i'].rcvd \in Nat /\ th'[i'].rcvd \in Nat /\ slot[walk'.num].workload \in Nat
    BY <1>0, <1>r, <2>1, ManagerFacts
  <2>3. th[i'].rcvd <= th'[i'].rcvd
    BY <1>4, <2>1
  <2> DEFINE a == InSlot(walk'.num, Reported)
             b == InSlot(walk'.num, new)
  <2>4. a \in Nat /\ b \in Nat /\ a <= b
    BY <1>5
  <2>5. CASE pc = "walk2" /\ walk' = walk /\ i' = i
    <3>1. walk'.sum <= a + H[walk'.num] + th[i'].rcvd
      BY <2>5 DEF Bounds
    <3> HIDE DEF a, b
    <3> QED BY <2>1, <2>2, <2>3, <2>4, <3>1 DEF b
  <2>6. CASE walk'.sum <= slot[walk'.num].workload + th[i'].rcvd
    <3>1. slot[walk'.num].workload <= a + H[walk'.num]
      BY <2>1 DEF Bounds
    <3> HIDE DEF a, b
    <3> QED BY <2>1, <2>2, <2>3, <2>4, <2>6, <3>1 DEF b
  <2> QED BY <1>9, <2>5, <2>6
<1> HIDE DEF new
<1>10. /\ Tally(Mine', [n \in Mine' |-> H[n]]) <= Tally(Mine', Visited')
       /\ \A n \in Thrds : slot'[n].workload <= InSlot(n, Reported)' + H[n]
       /\ \A t \in Mine' : th'[t].pc = "conn2" =>
            th'[t].reg <= InSlot(ThrdNum(t), Reported)' + H[ThrdNum(t)]
       /\ pc' = "walk2" => walk'.sum <= InSlot(walk'.num, new) + H[walk'.num] + th'[i'].rcvd
  BY <1>0, <1>6, <1>7, <1>8, <1>9
<1>11. InSlot(walk.num, Reported)' = InSlot(walk'.num, new)
  BY <1>0 DEF InSlot, AtSlot
<1> QED BY <1>10, <1>11 DEF Bounds, ThrdNum

\* The handler adds the answers of one more manager to a slot.
LEMMA WalkStoreStep ==
  ASSUME TypeOK, TypeOK', Mine' = Mine, NEW H \in [Thrds -> Nat], Bounds(H), th' = th,
         pc = "walk2", i \in Mine, i' = i + 1, pc' \in {"walk", "interrupted"},
         \A n \in Thrds : slot'[n].workload = IF n = walk.num THEN walk.sum ELSE slot[n].workload
  PROVE  \E G \in [Thrds -> Nat] : Bounds(G)'
<1> DEFINE d == th[i].rcvd
           w == walk.num
           G == [H EXCEPT ![w] = @ + d]
           h == [n \in Mine |-> H[n]]
           g == [n \in Mine |-> G[n]]
           v == [t \in Mine |-> IF t < i + 1 THEN th[t].rcvd ELSE 0]
<1>1. Mine \subseteq Thrds /\ i \in Nat /\ Mine \subseteq Nat /\ d \in Nat /\ w \in Thrds
  <2>1. walk \in [num : Thrds, sum : Nat]
    BY DEF TypeOK
  <2>2. Mine \subseteq Thrds /\ Mine \subseteq Nat
    BY MineInThrds DEF Mine
  <2> QED BY <2>1, <2>2, ManagerFacts
<1>2. Reported \in [Mine -> Nat] /\ Visited \in [Mine -> Nat]
  BY ReportedType
<1>3. /\ \A n : InSlot(n, Reported)' = InSlot(n, Reported) /\ InSlot(n, Reported) \in Nat
      /\ Reported' = Reported
  <2>1. Reported' = Reported
    BY DEF Reported
  <2> QED BY <1>2, <2>1, InSlotType DEF InSlot, AtSlot, ThrdNum
<1>4. G \in [Thrds -> Nat] /\ h \in [Mine -> Nat] /\ g \in [Mine -> Nat]
  <2>1. H[w] + d \in Nat
    <3>1. H[w] \in Nat /\ d \in Nat
      BY <1>1
    <3> HIDE DEF w, d
    <3> QED BY <3>1
  <2>2. G \in [Thrds -> Nat]
    BY <1>1, <2>1
  <2> HIDE DEF G
  <2> QED BY <1>1, <2>2
<1>5. G[w] = H[w] + d /\ \A n \in Thrds : n # w => G[n] = H[n]
  BY <1>1
<1>6. Visited' = v /\ v \in [Mine -> Nat]
  <2>1. Visited' = v
    BY DEF Visited, Walking
  <2>2. \A t \in Mine : th[t].rcvd \in Nat
    BY <1>1, ManagerFacts
  <2> QED BY <2>1, <2>2
<1>7. Tally(Mine, v) = Tally(Mine, Visited) + d /\ Tally(Mine, Visited) \in Nat
  <2>1. Visited[i] = 0 /\ v[i] = d
    BY <1>1 DEF Visited
  <2>2. \A t \in Mine \ {i} : v[t] = Visited[t]
    <3> TAKE t \in Mine \ {i}
    <3>1. t < i + 1 <=> t < i
      BY <1>1
    <3> QED BY <3>1 DEF Visited, Walking
  <2> HIDE DEF v, d
  <2>3. Tally(Mine, v) = Tally(Mine, Visited) + v[i] - Visited[i] /\ Tally(Mine, Visited) \in Nat
    BY <1>2, <1>6, <2>2, MineFinite, TallyChange
  <2> QED BY <1>1, <2>1, <2>3
<1>8. Tally(Mine, h) \in Nat /\ Tally(Mine, g) <= Tally(Mine, h) + d
  <2>1. Tally(Mine, h) \in Nat
    BY <1>4, MineFinite, TallyType
  <2>2. CASE w \in Mine
    <3>1. g[w] = h[w] + d /\ \A n \in Mine \ {w} : g[n] = h[n]
      <4> HIDE DEF G
      <4> QED BY <1>1, <1>5, <2>2
    <3>2. h[w] \in Nat
      BY <1>4, <2>2
    <3> HIDE DEF g, h, d
    <3>3. Tally(Mine, g) = Tally(Mine, h) + g[w] - h[w]
      BY <1>4, <2>2, <3>1, MineFinite, TallyChange
    <3> QED BY <1>1, <2>1, <3>1, <3>2, <3>3
  <2>3. CASE w \notin Mine
    <3>1. g = h
      <4> HIDE DEF G
      <4> QED BY <1>1, <1>5, <2>3
    <3> HIDE DEF g, h, d
    <3> QED BY <1>1, <2>1, <3>1
  <2> QED BY <2>2, <2>3
<1>9. Tally(Mine, g) <= Tally(Mine, v)
  <2>1. Tally(Mine, h) <= Tally(Mine, Visited)
    BY DEF Bounds
  <2>2. Tally(Mine, g) \in Nat
    BY <1>4, MineFinite, TallyType
  <2> HIDE DEF g, h, v, d
  <2> QED BY <1>1, <1>7, <1>8, <2>1, <2>2
<1>10. ASSUME NEW n \in Thrds PROVE slot'[n].workload <= InSlot(n, Reported) + G[n]
  <2>1. G[n] \in Nat /\ H[n] \in Nat /\ H[n] <= G[n]
    <3>1. H[n] \in Nat
      OBVIOUS
    <3> HIDE DEF G
    <3> QED BY <1>1, <1>5, <3>1
  <2>2. slot[n].workload <= InSlot(n, Reported) + H[n] /\ slot[n].workload \in Nat
    BY ManagerFacts DEF Bounds
  <2>3. CASE n = w
    <3>1. walk.sum <= InSlot(w, Reported) + H[w] + d /\ slot'[n].workload = walk.sum
      BY <2>3 DEF Bounds
    <3>2. G[w] = H[w] + d /\ H[w] \in Nat /\ InSlot(w, Reported) \in Nat
      BY <1>1, <1>3, <1>5
    <3>3. walk.sum \in Nat
      BY DEF TypeOK
    <3> HIDE DEF G, d, w
    <3> QED BY <1>1, <2>3, <3>1, <3>2, <3>3
  <2>4. CASE n # w
    <3> HIDE DEF G
    <3> QED BY <1>3, <2>1, <2>2, <2>4
  <2> QED BY <2>3, <2>4
<1>11. ASSUME NEW t \in Mine, th'[t].pc = "conn2"
       PROVE  th'[t].reg <= InSlot(ThrdNum(t), Reported) + G[ThrdNum(t)]
  <2>1. t \in Thrds /\ ThrdNum(t) \in Thrds
    BY <1>1, SlotInRange
  <2>2. th[t].reg <= InSlot(ThrdNum(t), Reported) + H[ThrdNum(t)] /\ th[t].reg \in Nat
    BY <1>11, <2>1, ManagerFacts DEF Bounds
  <2>3. G[ThrdNum(t)] \in Nat /\ H[ThrdNum(t)] \in Nat /\ H[ThrdNum(t)] <= G[ThrdNum(t)]
    <3>1. H[ThrdNum(t)] \in Nat
      BY <2>1
    <3> HIDE DEF G
    <3> QED BY <1>1, <1>5, <2>1, <3>1
  <2> HIDE DEF G
  <2> QED BY <1>3, <2>2, <2>3
<1>12. PICK K \in [Thrds -> Nat] : K = G
  BY <1>4
<1>13. /\ Tally(Mine', [n \in Mine' |-> K[n]]) <= Tally(Mine', Visited')
       /\ \A n \in Thrds : slot'[n].workload <= InSlot(n, Reported)' + K[n]
       /\ \A t \in Mine' : th'[t].pc = "conn2" =>
            th'[t].reg <= InSlot(ThrdNum(t), Reported)' + K[ThrdNum(t)]
       /\ pc' # "walk2"
  <2> HIDE DEF G, v
  <2> QED BY <1>3, <1>6, <1>9, <1>10, <1>11, <1>12
<1>14. Bounds(K)'
  BY <1>13 DEF Bounds, ThrdNum
<1> QED BY <1>14

-----------------------------------------------------------------------------
(* Summing up. *)

LEMMA SlotsSum ==
  ASSUME TypeOK, NEW f \in [Mine -> Nat], NEW s \in [Mine -> Nat], NEW e \in [Mine -> Nat],
         \A n \in Mine : s[n] <= InSlot(n, f) + e[n]
  PROVE  /\ Tally(Mine, s) \in Nat /\ Tally(Mine, f) \in Nat /\ Tally(Mine, e) \in Nat
         /\ Tally(Mine, s) <= Tally(Mine, f) + Tally(Mine, e)
<1> DEFINE g == [n \in Mine |-> InSlot(n, f)]
           h == [n \in Mine |-> g[n] + e[n]]
           num == [t \in Mine |-> ThrdNum(t)]
           P == [n \in Mine |-> AtSlot(n, f)]
<1>1. g \in [Mine -> Nat]
  BY InSlotType
<1>2. num \in [Mine -> Thrds]
  BY MineInThrds, SlotInRange
<1>3. /\ P \in [Mine -> [Mine -> Nat]]
      /\ \A n \in Mine : \A t \in Mine : P[n][t] = IF num[t] = n THEN f[t] ELSE 0
      /\ \A n \in Mine : g[n] = Tally(Mine, P[n])
  <2>1. \A n \in Mine : AtSlot(n, f) \in [Mine -> Nat]
    BY DEF AtSlot
  <2>2. \A n \in Mine : g[n] = Tally(Mine, P[n])
    BY DEF InSlot
  <2>3. \A n \in Mine : \A t \in Mine : P[n][t] = IF num[t] = n THEN f[t] ELSE 0
    BY DEF AtSlot
  <2> QED BY <2>1, <2>2, <2>3
<1>4. \A n \in Mine : s[n] <= h[n]
  OBVIOUS
<1> HIDE DEF g, num, P
<1>5. Tally(Mine, g) <= Tally(Mine, f)
  <2>1. IsFiniteSet(Mine)
    BY MineFinite
  <2> HIDE DEF Mine
  <2>2. ByClass(Mine, num, f, P, g)
    BY <1>1, <1>3, <2>1 DEF ByClass
  <2> QED BY <2>2, TallyClasses
<1>6. h \in [Mine -> Nat] /\ Tally(Mine, h) = Tally(Mine, g) + Tally(Mine, e)
  BY <1>1, MineFinite, TallyPlus
<1> HIDE DEF h
<1>7. Tally(Mine, s) <= Tally(Mine, h)
  BY <1>4, <1>6, MineFinite, TallyOrder
<1>8. /\ Tally(Mine, s) \in Nat /\ Tally(Mine, f) \in Nat /\ Tally(Mine, e) \in Nat
      /\ Tally(Mine, g) \in Nat /\ Tally(Mine, h) \in Nat
  BY <1>1, <1>6, MineFinite, TallyType
<1> QED BY <1>5, <1>6, <1>7, <1>8

Totals == [recv : Nat, workload : Nat, time : {"duration", "point"}]

Summing ==
  /\ stats \in Totals
  /\ dumped \in {"no", "main", "handler", "both"}
  /\ dumped = "no" => stats.recv = 0 /\ stats.workload = 0
  /\ dumped = "main" => stats.recv <= Sum([t \in Mine |-> th[t].got])
  /\ dumped # "no" => pc \in Walking \cup {"print", "over", "exit", "spin"}
  /\ dumped \in {"handler", "both"} => pc = "exit"
  /\ pc = "interrupted" => i = args.thrd
  /\ InterruptHonest

Ledger == RecvLedger /\ WorkLedger /\ Summing

Got == [t \in Mine |-> th[t].got]

\* Who sums up finds no more responses in the slots than were received.
LEMMA RecvSum ==
  ASSUME TypeOK, RecvLedger, NEW f, f = [t \in Mine |-> slot[t].recv]
  PROVE  Tally(Mine, f) \in Nat /\ Tally(Mine, Got) \in Nat /\ Tally(Mine, f) <= Tally(Mine, Got)
<1> DEFINE none == [t \in Mine |-> 0]
<1>1. \A t \in Mine : th[t].got \in Nat /\ slot[t].recv \in Nat /\ t \in Thrds
  BY MineInThrds, ManagerFacts
<1>2. /\ Got \in [Mine -> Nat] /\ f \in [Mine -> Nat] /\ none \in [Mine -> Nat]
      /\ Stored \in [Mine -> Nat]
  BY <1>1, StoredType DEF Got
<1>3. ASSUME NEW n \in Mine PROVE f[n] <= InSlot(n, Stored) + none[n]
  <2>1. slot[n].recv <= InSlot(n, Stored)
    BY <1>1 DEF RecvLedger
  <2>2. InSlot(n, Stored) \in Nat
    BY <1>2, InSlotType
  <2> QED BY <1>1, <2>1, <2>2
<1>4. \A t \in Mine : Stored[t] <= Got[t]
  BY <1>1 DEF Stored, Got
<1>5. \A t \in Mine : none[t] = 0
  OBVIOUS
<1> HIDE DEF none
<1>6. /\ Tally(Mine, f) \in Nat /\ Tally(Mine, Stored) \in Nat /\ Tally(Mine, none) \in Nat
      /\ Tally(Mine, f) <= Tally(Mine, Stored) + Tally(Mine, none)
  BY <1>2, <1>3, SlotsSum
<1>7. Tally(Mine, none) = 0
  BY <1>2, <1>5, MineFinite, TallyZero
<1>8. Tally(Mine, Stored) <= Tally(Mine, Got)
  BY <1>2, <1>4, MineFinite, TallyOrder
<1>9. Tally(Mine, Got) \in Nat
  BY <1>2, MineFinite, TallyType
<1> QED BY <1>6, <1>7, <1>8, <1>9

\* Nor, at the end of the handler's walk, more answers than it has read and the
\* threads have reported.
LEMMA WorkSum ==
  ASSUME TypeOK, WorkLedger, Unfreed, pc = "interrupted", i = args.thrd,
         NEW f, f = [t \in Mine |-> slot[t].workload],
         NEW g, g = [t \in Mine |-> IF th[t].pc \in {"conn2", "free"} THEN 2 * th[t].rcvd
                                    ELSE th[t].rcvd]
  PROVE  Tally(Mine, f) <= Tally(Mine, g)
<1> DEFINE rcvd == [t \in Mine |-> th[t].rcvd]
           both == [t \in Mine |-> Reported[t] + rcvd[t]]
<1>1. PICK H \in [Thrds -> Nat] : Bounds(H)
  BY DEF WorkLedger
<1> DEFINE h == [n \in Mine |-> H[n]]
<1>2. \A t \in Mine : th[t].rcvd \in Nat /\ slot[t].workload \in Nat /\ t \in Thrds
  BY MineInThrds, ManagerFacts
<1>3. /\ rcvd \in [Mine -> Nat] /\ f \in [Mine -> Nat] /\ h \in [Mine -> Nat] /\ g \in [Mine -> Nat]
      /\ Reported \in [Mine -> Nat]
  BY <1>2, ReportedType
<1>4. ASSUME NEW n \in Mine PROVE f[n] <= InSlot(n, Reported) + h[n]
  BY <1>1, <1>2 DEF Bounds
<1>5. Visited = rcvd
  <2>1. \A t \in Mine : t < i
    BY MineInThrds DEF Mine
  <2> QED BY <2>1 DEF Visited, Walking
<1>6. Tally(Mine, h) <= Tally(Mine, rcvd)
  BY <1>1, <1>5 DEF Bounds
<1>7. \A t \in Mine : both[t] <= g[t]
  BY <1>2 DEF Reported, Unfreed
<1> HIDE DEF h, rcvd
<1>8. both \in [Mine -> Nat] /\ Tally(Mine, both) = Tally(Mine, Reported) + Tally(Mine, rcvd)
  BY <1>3, MineFinite, TallyPlus
<1> HIDE DEF both
<1>9. /\ Tally(Mine, f) \in Nat /\ Tally(Mine, Reported) \in Nat /\ Tally(Mine, h) \in Nat
      /\ Tally(Mine, f) <= Tally(Mine, Reported) + Tally(Mine, h)
  BY <1>3, <1>4, SlotsSum
<1>10. Tally(Mine, both) <= Tally(Mine, g)
  BY <1>3, <1>7, <1>8, MineFinite, TallyOrder
<1>11. Tally(Mine, rcvd) \in Nat /\ Tally(Mine, g) \in Nat
  BY <1>3, MineFinite, TallyType
<1> QED BY <1>6, <1>8, <1>9, <1>10, <1>11

LEMMA SummedFields ==
  ASSUME TypeOK, stats \in Totals
  PROVE  /\ Summed \in Totals
         /\ Summed.recv = stats.recv + Tally(Mine, [t \in Mine |-> slot[t].recv])
         /\ Summed.workload = stats.workload + Tally(Mine, [t \in Mine |-> slot[t].workload])
<1> DEFINE recv == [t \in Mine |-> slot[t].recv]
           work == [t \in Mine |-> slot[t].workload]
<1>1. recv \in [Mine -> Nat] /\ work \in [Mine -> Nat]
  BY MineInThrds, ManagerFacts
<1>2. Summed = [stats EXCEPT !.recv = @ + Tally(Mine, recv), !.workload = @ + Tally(Mine, work)]
  BY DEF Summed, Sum
<1> HIDE DEF recv, work
<1>3. Tally(Mine, recv) \in Nat /\ Tally(Mine, work) \in Nat
  BY <1>1, MineFinite, TallyType
<1>4. stats.recv + Tally(Mine, recv) \in Nat /\ stats.workload + Tally(Mine, work) \in Nat
  BY <1>3 DEF Totals
<1> QED BY <1>2, <1>4 DEF Totals, recv, work

\* The handler has been at all managers and sums up.
LEMMA WalkEndHonest ==
  ASSUME TypeOK, Ledger, ~Over, WalkEnd
  PROVE  InterruptHonest'
<1> DEFINE recv == [t \in Mine |-> slot[t].recv]
           work == [t \in Mine |-> slot[t].workload]
           once == [t \in Mine |-> IF th[t].pc \in {"conn2", "free"} THEN 2 * th[t].rcvd
                                   ELSE th[t].rcvd]
<1>1. pc = "interrupted" /\ i = args.thrd /\ th' = th /\ Mine' = Mine
  BY DEF Ledger, Summing, WalkEnd, handlerConst, Mine
<1>2. stats \in Totals /\ dumped \in {"no", "main"}
  BY DEF Ledger, Summing, Over
<1>3. /\ stats'.recv = stats.recv + Tally(Mine, recv)
      /\ stats'.workload = stats.workload + Tally(Mine, work)
  <2>1. /\ Summed \in Totals
        /\ Summed.recv = stats.recv + Tally(Mine, recv)
        /\ Summed.workload = stats.workload + Tally(Mine, work)
    BY <1>2, SummedFields
  <2>2. stats' = [Summed EXCEPT !.time = Ended(@)]
    BY DEF WalkEnd
  <2> HIDE DEF recv, work
  <2>3. stats'.recv = Summed.recv /\ stats'.workload = Summed.workload
    BY <2>1, <2>2 DEF Totals
  <2> QED BY <2>1, <2>3
<1>4. Tally(Mine, recv) \in Nat /\ Tally(Mine, Got) \in Nat /\ Tally(Mine, recv) <= Tally(Mine, Got)
  BY RecvSum DEF Ledger
<1>5. Unfreed => Tally(Mine, work) <= Tally(Mine, once)
  BY <1>1, WorkSum DEF Ledger
<1>6. work \in [Mine -> Nat] /\ Tally(Mine, work) \in Nat
  <2>1. work \in [Mine -> Nat]
    BY MineInThrds, ManagerFacts
  <2> HIDE DEF work
  <2> QED BY <2>1, MineFinite, TallyType
<1>7. Tally(Mine', [t \in Mine' |-> th'[t].got]) = Tally(Mine, Got)
  BY <1>1 DEF Got
<1>8. Tally(Mine', [t \in Mine' |-> IF th'[t].pc \in {"conn2", "free"} THEN 2 * th'[t].rcvd
                                    ELSE th'[t].rcvd]) = Tally(Mine, once)
  BY <1>1
<1>9. Unfreed' <=> Unfreed
  BY <1>1 DEF Unfreed
<1> HIDE DEF recv, work, once
<1>10. CASE dumped = "no"
  <2>1. stats.recv = 0 /\ stats.workload = 0 /\ dumped' = "handler"
    BY <1>10 DEF Ledger, Summing, WalkEnd
  <2>2. stats'.recv = Tally(Mine, recv) /\ stats'.workload = Tally(Mine, work)
    BY <1>3, <1>4, <1>6, <2>1
  <2> QED BY <1>4, <1>5, <1>7, <1>8, <1>9, <2>1, <2>2 DEF InterruptHonest, Sum, Unfreed
<1>11. CASE dumped = "main"
  <2>1. dumped' = "both" /\ stats.recv <= Tally(Mine, Got)
    BY <1>11 DEF Ledger, Summing, WalkEnd, Sum, Got
  <2>2. stats.recv \in Nat
    BY <1>2 DEF Totals
  <2>3. stats'.recv <= 2 * Tally(Mine, Got)
    BY <1>3, <1>4, <2>1, <2>2
  <2> QED BY <1>7, <2>1, <2>3 DEF InterruptHonest, Sum
<1> QED BY <1>2, <1>10, <1>11

\* Nothing happens.
LEMMA LedgerStays == ASSUME Ledger, UNCHANGED vars PROVE Ledger'
<1>1. /\ UNCHANGED <<pc, i, th, slot, stats, dumped, walk>> /\ Mine' = Mine
      /\ Stored' = Stored /\ Reported' = Reported /\ Visited' = Visited
  BY DEF vars, Mine, Stored, Reported, Visited
<1>2. \A n : InSlot(n, Stored)' = InSlot(n, Stored) /\ InSlot(n, Reported)' = InSlot(n, Reported)
  BY <1>1 DEF InSlot, AtSlot, ThrdNum
<1>3. RecvLedger'
  BY <1>1, <1>2 DEF Ledger, RecvLedger, ThrdNum
<1>4. WorkLedger'
  <2>1. SUFFICES ASSUME pc \notin {"exit", "over", "spin"}, Unfreed
                 PROVE  \E H \in [Thrds -> Nat] : Bounds(H)'
    BY <1>1 DEF WorkLedger, Unfreed
  <2>2. PICK H \in [Thrds -> Nat] : Bounds(H)
    BY <2>1 DEF Ledger, WorkLedger
  <2>3. InSlot(walk.num, Reported)' = InSlot(walk.num, Reported)
    BY <1>1 DEF InSlot, AtSlot, ThrdNum
  <2>4. Bounds(H)'
    BY <1>1, <1>2, <2>2, <2>3 DEF Bounds, ThrdNum
  <2> QED BY <2>4
<1>5. Summing'
  BY <1>1 DEF Ledger, Summing, InterruptHonest, Sum, vars
<1> QED BY <1>3, <1>4, <1>5 DEF Ledger

\* Answers do not disappear.
LEMMA RcvdGrows ==
  ASSUME TypeOK, th' = th \/ (\E t \in Mine : Alone(t) /\ Forms(t)), NEW u \in Mine
  PROVE  th[u].rcvd <= th'[u].rcvd
<1>1. u \in Thrds /\ th[u].rcvd \in Nat
  BY MineInThrds, ManagerFacts
<1>2. CASE th'[u] = th[u]
  BY <1>1, <1>2
<1>3. CASE Forms(u)
  BY <1>1, <1>3 DEF Forms, Elsewhere, Receives, Counts, Loads, Stores
<1> QED BY <1>1, <1>2, <1>3 DEF Alone

LEMMA GotGrows ==
  ASSUME TypeOK, TypeOK', Mine' = Mine, th' = th \/ (\E t \in Mine : Alone(t) /\ Forms(t))
  PROVE  Tally(Mine, Got) \in Nat /\ Tally(Mine, Got') \in Nat /\ Tally(Mine, Got) <= Tally(Mine, Got')
<1>1. ASSUME NEW u \in Mine
      PROVE  th[u].got \in Nat /\ th'[u].got \in Nat /\ th[u].got <= th'[u].got
  <2>1. u \in Thrds /\ th[u].got \in Nat /\ th'[u].got \in Nat
    BY MineInThrds DEF TypeOK, Managers
  <2>2. CASE th'[u] = th[u]
    BY <2>1, <2>2
  <2>3. CASE Forms(u)
    BY <2>1, <2>3 DEF Forms, Elsewhere, Receives, Counts, Loads, Stores
  <2> QED BY <2>1, <2>2, <2>3 DEF Alone
<1>2. Got \in [Mine -> Nat] /\ Got' \in [Mine -> Nat] /\ \A u \in Mine : Got[u] <= Got'[u]
  BY <1>1 DEF Got
<1> QED BY <1>2, MineFinite, TallyOrder, TallyType

\* A step of main or of a thread that is not one of the handler's.
LEMMA PlainStep ==
  ASSUME TypeOK, TypeOK', Ledger, ~Over, Mine' = Mine,
         (th' = th /\ SlotsKept) \/ (\E t \in Mine : Alone(t) /\ Forms(t)),
         stats' \in Totals,
         dumped' = "main" \/ (dumped' = dumped /\ stats'.recv = stats.recv
                                               /\ stats'.workload = stats.workload),
         \/ pc' = pc /\ i' = i /\ walk' = walk
         \/ pc \notin Walking \cup {"spin"} /\ pc' \notin {"walk2", "interrupted"}
         \/ pc' \in Faults,
         pc = "walk2" => i \in Mine,
         args'.thrd = args.thrd,
         Unfreed' => Unfreed,
         dumped' = "main" => stats'.recv <= Tally(Mine, Got) /\ pc' \in Walking \cup {"print", "over", "exit", "spin"}
  PROVE  Ledger'
<1>1. RecvLedger'
  BY RecvStep DEF Ledger, SlotsKept, RecvKept
<1>2. WorkLedger'
  <2>1. SUFFICES ASSUME pc' \notin {"exit", "over", "spin"}, Unfreed'
                 PROVE  \E H \in [Thrds -> Nat] : Bounds(H)'
    BY DEF WorkLedger
  <2>2. pc \notin {"exit", "over", "spin"} /\ pc' \notin Faults
    BY <2>1 DEF Over, Faults
  <2>3. PICK H \in [Thrds -> Nat] : Bounds(H)
    BY <2>1, <2>2 DEF Ledger, WorkLedger
  <2>4. pc' = "walk2" => pc = "walk2" /\ walk' = walk /\ i' = i
    BY <2>2
  <2>5. ASSUME NEW u \in Mine PROVE Visited[u] <= Visited'[u]
    <3>1. th[u].rcvd <= th'[u].rcvd
      BY RcvdGrows
    <3>2. u \in Thrds /\ th[u].rcvd \in Nat /\ th'[u].rcvd \in Nat
      BY MineInThrds DEF TypeOK, Managers
    <3>3. Visited'[u] = IF pc' \in Walking /\ u < i' THEN th'[u].rcvd ELSE 0
      BY DEF Visited
    <3>4. CASE pc \notin Walking
      BY <3>2, <3>3, <3>4 DEF Visited
    <3>5. CASE pc' = pc /\ i' = i
      BY <3>1, <3>2, <3>3, <3>5 DEF Visited
    <3> QED BY <2>2, <3>4, <3>5
  <2>6. Bounds(H)'
    BY <2>3, <2>4, <2>5, WorkStep
  <2> QED BY <2>6
<1>3. Summing'
  <2>1. dumped \in {"no", "main"} /\ dumped' \in {"no", "main"}
    BY DEF Ledger, Summing, Over
  <2>2. pc' = "interrupted" => i' = args'.thrd
    BY DEF Ledger, Summing, Faults
  <2>3. InterruptHonest'
    BY <2>1 DEF InterruptHonest
  <2>4. dumped' = "no" => stats'.recv = 0 /\ stats'.workload = 0
    BY DEF Ledger, Summing
  <2>5. dumped' = "main" => stats'.recv <= Tally(Mine', [t \in Mine' |-> th'[t].got])
    <3> HAVE dumped' = "main"
    <3>1. Tally(Mine, Got) \in Nat /\ Tally(Mine, Got') \in Nat /\ Tally(Mine, Got) <= Tally(Mine, Got')
      BY GotGrows
    <3>2. stats'.recv <= Tally(Mine, Got) /\ stats'.recv \in Nat
      BY DEF Totals
    <3>3. Got' = [t \in Mine' |-> th'[t].got]
      BY DEF Got
    <3> QED BY <3>1, <3>2, <3>3
  <2> QED BY <2>1, <2>2, <2>3, <2>4, <2>5 DEF Summing, Sum
<1> QED BY <1>1, <1>2, <1>3 DEF Ledger

\* Main, but for what it does to the statistics and the managers.
LEMMA MainStep ==
  ASSUME IInv, IInv', Ledger, ~Over, Main
  PROVE  Ledger'
<1>1. /\ TypeOK /\ TypeOK' /\ stats \in Totals /\ args \in Arguments
      /\ pc = "walk2" => i \in Mine
  <2>1. pc = "walk2" => i < args.thrd /\ i \in 0..args.thrd
    BY DEF IInv, Started, TypeOK
  <2> QED BY <2>1, MineInThrds DEF IInv, TypeOK, Ledger, Summing, Mine
<1>2. pc \notin Walking \cup {"spin"} /\ UNCHANGED <<slot, walk>>
  BY DEF Main, Distribute, OpenLog, CreateManager, NoManager, StartThread, Register, InstallHandler,
         ProgressOver, Join, JoinFaults, EndTime, Dump, Return, Walking
<1>3. pc' \notin {"walk2", "interrupted"}
  BY DEF Main, Distribute, OpenLog, CreateManager, NoManager, StartThread, Register, InstallHandler,
         ProgressOver, Join, JoinFaults, EndTime, Dump, Return, Faults
<1>4. args'.thrd = args.thrd /\ Mine' = Mine
  <2>1. args'.thrd = args.thrd
    BY <1>1 DEF Main, Distribute, OpenLog, CreateManager, NoManager, StartThread, Register, InstallHandler,
         ProgressOver, Join, JoinFaults, EndTime, Dump, Return, Arguments
  <2> QED BY <2>1 DEF Mine
<1>5. SlotsKept
  BY <1>2 DEF SlotsKept
<1>6. (th' = th /\ SlotsKept) \/ (\E t \in Mine : Alone(t) /\ Forms(t))
  <2>1. CASE CreateManager
    <3>1. i \in Mine /\ i \in Thrds /\ th[i].pc = "none"
      BY <2>1, MineInThrds DEF IInv, TypeOK, Started, CreateManager, Mine
    <3>2. th[i] = Idle
      BY <3>1 DEF Ledger, RecvLedger
    <3> DEFINE m == [Idle EXCEPT !.pc = "made", !.total = args.reqs]
    <3>3. th' = [th EXCEPT ![i] = m]
      BY <2>1 DEF CreateManager
    <3>4. m.pc = "made" /\ m.got = 0 /\ m.rcvd = 0 /\ Idle.pc = "none" /\ Idle.got = 0 /\ Idle.rcvd = 0
      BY DEF Idle
    <3> HIDE DEF m
    <3>5. th'[i] = m /\ Alone(i)
      BY <1>1, <3>1, <3>3 DEF TypeOK, Alone
    <3>6. Elsewhere(i)
      BY <1>5, <3>2, <3>4, <3>5 DEF Elsewhere
    <3> QED BY <3>1, <3>5, <3>6 DEF Forms
  <2>2. CASE StartThread
    <3>1. i \in Mine /\ i \in Thrds /\ th[i].pc = "made"
      BY <2>2, MineInThrds DEF IInv, TypeOK, Started, StartThread, Mine
    <3>2. th[i] \in Managers /\ th[i].rcvd \in Nat
      BY <1>1, <3>1, ManagerFacts
    <3>3. PICK how \in {"begin", "failed"} : th' = [th EXCEPT ![i].pc = how]
      BY <2>2 DEF StartThread
    <3>4. th'[i] = [th[i] EXCEPT !.pc = how] /\ Alone(i)
      BY <1>1, <3>1, <3>3 DEF TypeOK, Alone
    <3>5. th'[i].pc = how /\ th'[i].got = th[i].got /\ th'[i].rcvd = th[i].rcvd
      BY <3>2, <3>4 DEF Managers
    <3>6. Elsewhere(i)
      BY <1>5, <3>1, <3>2, <3>5 DEF Elsewhere
    <3> QED BY <3>1, <3>4, <3>6 DEF Forms
  <2>3. CASE ~CreateManager /\ ~StartThread
    <3>1. th' = th
      BY <2>3 DEF Main, Distribute, OpenLog, NoManager, Register, InstallHandler,
         ProgressOver, Join, JoinFaults, EndTime, Dump, Return
    <3> QED BY <1>5, <3>1
  <2> QED BY <2>1, <2>2, <2>3
<1>7. /\ stats' \in Totals
      /\ dumped' = "main" \/ (dumped' = dumped /\ stats'.recv = stats.recv
                                            /\ stats'.workload = stats.workload)
  <2>1. CASE Dump
    BY <1>1, <2>1, SummedFields DEF Dump
  <2>2. CASE Distribute \/ EndTime
    <3>1. PICK w \in {"duration", "point"} : stats' = [stats EXCEPT !.time = w]
      BY <2>2 DEF Distribute, EndTime, Ended
    <3> QED BY <1>1, <2>2, <3>1 DEF Totals, Distribute, EndTime
  <2>3. CASE ~Dump /\ ~Distribute /\ ~EndTime
    <3>1. stats' = stats /\ dumped' = dumped
      BY <2>3 DEF Main, OpenLog, CreateManager, NoManager, StartThread, Register, InstallHandler,
         ProgressOver, Join, JoinFaults, Return
    <3> QED BY <1>1, <3>1
  <2> QED BY <2>1, <2>2, <2>3
<1>8. Unfreed' => Unfreed
  <2>1. ASSUME NEW t \in Mine, th[t].pc = "ended" PROVE th'[t] = th[t]
    <3>1. CASE CreateManager \/ StartThread
      <4>1. i \in Mine /\ i \in Thrds /\ th[i].pc \in {"none", "made"}
        BY <3>1, MineInThrds DEF IInv, TypeOK, Started, CreateManager, StartThread, Mine
      <4>2. \A u \in Thrds \ {i} : th'[u] = th[u]
        BY <1>1, <3>1 DEF TypeOK, CreateManager, StartThread
      <4> QED BY <1>1, <2>1, <4>1, <4>2, MineInThrds
    <3>2. CASE ~CreateManager /\ ~StartThread
      BY <3>2 DEF Main, Distribute, OpenLog, NoManager, Register, InstallHandler,
         ProgressOver, Join, JoinFaults, EndTime, Dump, Return
    <3> QED BY <3>1, <3>2
  <2> QED BY <1>4, <2>1 DEF Unfreed
<1>9. dumped' = "main" => /\ stats'.recv <= Tally(Mine, Got)
                          /\ pc' \in Walking \cup {"print", "over", "exit", "spin"}
  <2>1. CASE Dump
    <3>1. stats \in Totals /\ stats.recv = 0 /\ pc' = "print" /\ stats' = Summed
      BY <1>1, <2>1 DEF Dump, Ledger, Summing, Walking
    <3> DEFINE recv == [t \in Mine |-> slot[t].recv]
    <3>2. stats'.recv = 0 + Tally(Mine, recv)
      BY <1>1, <3>1, SummedFields
    <3>3. Tally(Mine, recv) \in Nat /\ Tally(Mine, recv) <= Tally(Mine, Got)
      BY <1>1, RecvSum DEF Ledger
    <3> HIDE DEF recv
    <3> QED BY <3>1, <3>2, <3>3
  <2>2. CASE ~Dump
    <3> HAVE dumped' = "main"
    <3>1. dumped' = dumped /\ stats'.recv = stats.recv
      <4>1. dumped' = dumped
        BY <2>2 DEF Main, Distribute, OpenLog, CreateManager, NoManager, StartThread, Register,
           InstallHandler, ProgressOver, Join, JoinFaults, EndTime, Return
      <4>2. CASE Distribute \/ EndTime
        BY <1>1, <4>2 DEF Distribute, EndTime, Totals
      <4>3. CASE ~Distribute /\ ~EndTime
        BY <2>2, <4>3 DEF Main, OpenLog, CreateManager, NoManager, StartThread, Register,
           InstallHandler, ProgressOver, Join, JoinFaults, Return
      <4> QED BY <4>1, <4>2, <4>3
    <3>2. stats.recv <= Tally(Mine, Got) /\ pc \in Walking \cup {"print", "over", "exit", "spin"}
      BY <3>1 DEF Ledger, Summing, Sum, Got
    <3>3. pc' = "over"
      BY <1>2, <2>2, <3>2 DEF Main, Distribute, OpenLog, CreateManager, NoManager, StartThread, Register,
           InstallHandler, ProgressOver, Join, JoinFaults, EndTime, Return, Over
    <3> QED BY <3>1, <3>2, <3>3
  <2> QED BY <2>1, <2>2
<1> QED BY <1>1, <1>2, <1>3, <1>4, <1>6, <1>7, <1>8, <1>9, PlainStep

LEMMA HandlerStep ==
  ASSUME IInv, IInv', Ledger, ~Over, WalkLoad \/ WalkStore \/ WalkFaults \/ WalkEnd
  PROVE  Ledger'
<1>1. TypeOK /\ TypeOK' /\ stats \in Totals /\ dumped \in {"no", "main"}
  BY DEF IInv, Ledger, Summing, Over
<1>2. th' = th /\ args' = args /\ Mine' = Mine /\ ThrdNum(i) = i % THRD_NUM_MOD
  BY DEF WalkLoad, WalkStore, WalkFaults, WalkEnd, handlerConst, Mine, ThrdNum
<1>3. pc \in {"walk", "walk2"} => i \in Mine /\ i \in Thrds /\ i < args.thrd
  <2>1. pc \in {"walk", "walk2"} => i < args.thrd /\ i \in 0..args.thrd
    BY DEF IInv, Started, TypeOK
  <2>2. pc \in {"walk", "walk2"} => i \in Mine
    BY <1>1, <2>1, MineInThrds DEF Mine
  <2> QED BY <1>1, <2>1, <2>2, MineInThrds
<1>4. RecvLedger'
  <2>1. RecvKept
    <3>1. CASE WalkStore
      <4> DEFINE w == [slot[walk.num] EXCEPT !.workload = walk.sum, !.time = Ended(@), !.fin = TRUE]
      <4>1. slot' = [slot EXCEPT ![walk.num] = w] /\ walk.num \in Thrds
        BY <1>1, <3>1 DEF WalkStore, TypeOK
      <4>2. w.recv = slot[walk.num].recv
        BY <1>1, <4>1 DEF TypeOK, Statistics
      <4> HIDE DEF w
      <4> QED BY <1>1, <4>1, <4>2 DEF TypeOK, RecvKept
    <3>2. CASE ~WalkStore
      BY <3>2 DEF WalkLoad, WalkFaults, WalkEnd, RecvKept
    <3> QED BY <3>1, <3>2
  <2> QED BY <1>1, <1>2, <2>1, RecvStep DEF Ledger
<1>5. CASE WalkFaults \/ (WalkLoad /\ pc' \in Faults)
  <2>1. /\ pc' \in Faults /\ stats' = stats /\ dumped' = dumped /\ slot' = slot
        /\ pc \in {"walk", "walk2"}
    BY <1>5 DEF WalkFaults, WalkLoad
  <2>2. SlotsKept
    BY <2>1 DEF SlotsKept
  <2>3. Unfreed' => Unfreed
    BY <1>2 DEF Unfreed
  <2>4. dumped' = "main" => /\ stats'.recv <= Tally(Mine, Got)
                            /\ pc' \in Walking \cup {"print", "over", "exit", "spin"}
    BY <2>1 DEF Ledger, Summing, Sum, Got, Faults
  <2> QED BY <1>1, <1>2, <1>3, <2>1, <2>2, <2>3, <2>4, PlainStep
<1>6. CASE WalkLoad /\ pc' \notin Faults
  <2>1. /\ pc = "walk" /\ pc' = "walk2" /\ UNCHANGED <<i, slot, stats, dumped>>
    BY <1>6 DEF WalkLoad
  <2>2. ASSUME Unfreed
        PROVE  \E H \in [Thrds -> Nat] : Bounds(H)'
    <3>1. th[i].pc # "ended" /\ ThrdNum(i) \in Thrds
      BY <1>3, <2>1, <2>2, SlotInRange DEF Unfreed
    <3>2. walk' = [num |-> ThrdNum(i), sum |-> slot[ThrdNum(i)].workload + th[i].rcvd]
      BY <1>6, <3>1 DEF WalkLoad
    <3>3. walk'.num \in Thrds /\ walk'.sum <= slot[walk'.num].workload + th[i'].rcvd /\ i' \in Mine
      <4>1. slot[ThrdNum(i)].workload \in Nat /\ th[i].rcvd \in Nat
        BY <1>1, <1>3, <2>1, <3>1, ManagerFacts
      <4> QED BY <1>3, <2>1, <3>1, <3>2, <4>1
    <3>4. PICK H \in [Thrds -> Nat] : Bounds(H)
      BY <2>1, <2>2 DEF Ledger, WorkLedger
    <3>5. ASSUME NEW u \in Mine PROVE Visited[u] <= Visited'[u]
      <4>1. u \in Thrds /\ th[u].rcvd \in Nat
        BY <1>1, MineInThrds, ManagerFacts
      <4> QED BY <1>2, <2>1, <4>1 DEF Visited, Walking
    <3>6. SlotsKept /\ pc # "walk2"
      BY <2>1 DEF SlotsKept
    <3>7. Bounds(H)'
      BY <1>1, <1>2, <3>3, <3>4, <3>5, <3>6, WorkStep
    <3> QED BY <3>7
  <2>9. WorkLedger'
    BY <1>2, <2>2 DEF WorkLedger, Unfreed
  <2>10. Summing'
    BY <1>1, <1>2, <2>1 DEF Ledger, Summing, InterruptHonest, Sum, Walking
  <2> QED BY <1>4, <2>9, <2>10 DEF Ledger
<1>7. CASE WalkStore
  <2>1. /\ pc = "walk2" /\ i' = i + 1 /\ pc' = (IF i + 1 < args.thrd THEN "walk" ELSE "interrupted")
        /\ stats' = stats /\ dumped' = dumped
    BY <1>7 DEF WalkStore
  <2>3. \A n \in Thrds : slot'[n].workload = IF n = walk.num THEN walk.sum ELSE slot[n].workload
    <3> DEFINE w == [slot[walk.num] EXCEPT !.workload = walk.sum, !.time = Ended(@), !.fin = TRUE]
    <3>1. slot' = [slot EXCEPT ![walk.num] = w] /\ walk.num \in Thrds
      BY <1>1, <1>7 DEF WalkStore, TypeOK
    <3>2. w.workload = walk.sum
      BY <1>1, <3>1 DEF TypeOK, Statistics
    <3> HIDE DEF w
    <3> QED BY <1>1, <3>1, <3>2 DEF TypeOK
  <2>4. i \in Mine /\ pc' \in {"walk", "interrupted"}
    BY <1>3, <2>1
  <2>5. ASSUME Unfreed
        PROVE  \E G \in [Thrds -> Nat] : Bounds(G)'
    <3>1. PICK H \in [Thrds -> Nat] : Bounds(H)
      BY <2>1, <2>5 DEF Ledger, WorkLedger
    <3> QED BY <1>1, <1>2, <2>1, <2>3, <2>4, <3>1, WalkStoreStep
  <2>6. WorkLedger'
    BY <1>2, <2>5 DEF WorkLedger, Unfreed
  <2>7. pc' = "interrupted" => i' = args'.thrd
    <3>1. i \in Nat /\ args.thrd \in Nat /\ i < args.thrd
      BY <1>1, <1>3, <2>1, MineInThrds DEF TypeOK
    <3> QED BY <1>2, <2>1, <3>1
  <2>8. Summing'
    BY <1>1, <1>2, <2>1, <2>7 DEF Ledger, Summing, InterruptHonest, Sum, Walking
  <2> QED BY <1>4, <2>6, <2>8 DEF Ledger
<1>8. CASE WalkEnd
  <2>1. pc' = "exit" /\ stats' = [Summed EXCEPT !.time = Ended(@)] /\ dumped' \in {"handler", "both"}
    BY <1>8 DEF WalkEnd
  <2>2. WorkLedger'
    BY <2>1 DEF WorkLedger
  <2>3. stats' \in Totals
    <3>1. Summed \in Totals
      BY <1>1, SummedFields
    <3> QED BY <2>1, <3>1 DEF Totals, Ended
  <2>4. InterruptHonest'
    BY <1>1, <1>8, WalkEndHonest
  <2>5. Summing'
    BY <2>1, <2>3, <2>4 DEF Summing
  <2> QED BY <1>4, <2>2, <2>5 DEF Ledger
<1> QED BY <1>5, <1>6, <1>7, <1>8

LEMMA LedgerNext == ASSUME IInv, IInv', Ledger, [Next]_vars PROVE Ledger'
<1>1. CASE OnMain
  BY <1>1, MainStep, HandlerStep DEF OnMain
<1>2. CASE Interrupt
  <2>1. TypeOK /\ TypeOK' /\ stats \in Totals
    BY DEF IInv, Ledger, Summing
  <2>2. /\ UNCHANGED <<th, slot, args, stats, dumped>> /\ Mine' = Mine /\ ~Over
        /\ pc \notin Walking \cup {"spin"} /\ pc' \in {"walk", "exit"}
    BY <1>2 DEF Interrupt, handlerConst, Mine
  <2>3. pc # "walk2" /\ pc' \notin {"walk2", "interrupted"} /\ SlotsKept
    BY <2>2 DEF SlotsKept, Walking
  <2>4. (Unfreed' => Unfreed) /\ dumped' # "both"
    BY <2>2 DEF Unfreed, Ledger, Summing, Over
  <2>5. dumped' = "main" => /\ stats'.recv <= Tally(Mine, Got)
                            /\ pc' \in Walking \cup {"print", "over", "exit", "spin"}
    BY <2>2 DEF Ledger, Summing, Sum, Got, Walking
  <2> QED BY <2>1, <2>2, <2>3, <2>4, <2>5, PlainStep
<1>3. CASE \E t \in Mine : Thread(t)
  <2> PICK t \in Mine : Thread(t)
    BY <1>3
  <2>1. TypeOK /\ TypeOK' /\ stats \in Totals
    BY DEF IInv, Ledger, Summing
  <2>2. /\ ~Over /\ UNCHANGED mainVars /\ Alone(t)
        /\ \/ pc' = "exit" /\ UNCHANGED <<th, slot>>
           \/ pc' = pc /\ Forms(t)
    BY ThreadForms
  <2>3. UNCHANGED <<args, stats, dumped, i, walk>> /\ Mine' = Mine
    BY <2>2 DEF mainVars, Mine
  <2>4. pc = "walk2" => i \in Mine
    <3>1. pc = "walk2" => i < args.thrd /\ i \in 0..args.thrd
      BY DEF IInv, Started, TypeOK
    <3> QED BY <2>1, <3>1, MineInThrds DEF Mine
  <2>5. (th' = th /\ SlotsKept) \/ (\E u \in Mine : Alone(u) /\ Forms(u))
    BY <2>2 DEF SlotsKept
  <2>6. (pc' = pc /\ i' = i /\ walk' = walk) \/ pc' \in Faults
    BY <2>2, <2>3 DEF Faults
  <2>7. Unfreed' => Unfreed
    <3>1. th[t].pc # "ended"
      BY DEF Thread, Begin, InsLoad, InsStore, Copy, CustomFind, CustomCut, LogFaults, LogRequest,
             Receive, Count, Credit, Leave, Abort, End, ConnLoad, ConnStore, Free, At
    <3>2. \A u \in Mine \ {t} : th'[u] = th[u]
      BY <2>1, <2>2, MineInThrds DEF Alone
    <3> QED BY <2>3, <3>1, <3>2 DEF Unfreed
  <2>8. dumped' = "main" => /\ stats'.recv <= Tally(Mine, Got)
                            /\ pc' \in Walking \cup {"print", "over", "exit", "spin"}
    BY <2>2, <2>3 DEF Ledger, Summing, Sum, Got
  <2> QED BY <2>1, <2>2, <2>3, <2>4, <2>5, <2>6, <2>7, <2>8, PlainStep
<1>4. CASE UNCHANGED vars
  BY <1>4, LedgerStays
<1> QED BY <1>1, <1>2, <1>3, <1>4 DEF Next, Finished

LEMMA LedgerInit == ASSUME Init PROVE Ledger
<1>1. TypeOK
  BY InitInv DEF IInv
<1>2. \A t \in Thrds : th[t] = Idle /\ slot[t].recv = 0 /\ slot[t].workload = 0
  BY DEF Init, NoStats
<1>3. Idle.pc = "none" /\ pc = "init" /\ dumped = "no"
  BY DEF Idle, Init
<1>4. Mine \subseteq Thrds /\ Stored \in [Mine -> Nat] /\ Reported \in [Mine -> Nat]
  <2>1. Mine \subseteq Thrds
    BY <1>1, MineInThrds
  <2>2. \A t \in Mine : th[t] = Idle /\ th[t].got = 0 /\ th[t].pc = "none"
    BY <1>2, <1>3, <2>1 DEF Idle
  <2> QED BY <1>1, <2>1, <2>2, ReportedType DEF Stored
<1>5. \A n : InSlot(n, Stored) \in Nat /\ InSlot(n, Reported) \in Nat
  BY <1>1, <1>4, InSlotType
<1>6. RecvLedger
  BY <1>2, <1>3, <1>4, <1>5 DEF RecvLedger
<1>7. PICK H \in [Thrds -> Nat] : H = [n \in Thrds |-> 0]
  OBVIOUS
<1>8. Tally(Mine, [n \in Mine |-> H[n]]) = 0 /\ Tally(Mine, Visited) \in Nat
  <2>1. [n \in Mine |-> H[n]] = [n \in Mine |-> 0]
    BY <1>4, <1>7
  <2>2. [n \in Mine |-> 0] \in [Mine -> Nat] /\ \A n \in Mine : [m \in Mine |-> 0][n] = 0
    OBVIOUS
  <2>3. Tally(Mine, [n \in Mine |-> 0]) = 0
    BY <1>1, <2>2, MineFinite, TallyZero
  <2>4. Visited \in [Mine -> Nat]
    BY <1>1, ReportedType
  <2> QED BY <1>1, <2>1, <2>3, <2>4, MineFinite, TallyType
<1>9. \A n \in Thrds : slot[n].workload <= InSlot(n, Reported) + H[n]
  BY <1>2, <1>5, <1>7
<1>10. Bounds(H)
  BY <1>2, <1>3, <1>4, <1>8, <1>9 DEF Bounds
<1>11. WorkLedger
  BY <1>10 DEF WorkLedger
<1>12. Summing
  BY <1>3 DEF Init, Summing, Totals, InterruptHonest
<1> QED BY <1>6, <1>11, <1>12 DEF Ledger

\* The handler of SIGINT adds to slots while the threads write to them, and with
\* more threads than a slot number can tell apart the threads overwrite each
\* other's counts: the number of responses it prints is still never more than
\* what was received, or twice that when main has printed already; and as long
\* as no manager it may read is freed, whatever a freed one holds, the number
\* of answers is neither, but for those of threads about to end, which it
\* counts twice at most (signal_handler.h, stats.c).
THEOREM InterruptIsHonest == Spec => []InterruptHonest
<1>1. Init => Ledger
  BY LedgerInit
<1>2. IInv /\ IInv' /\ Ledger /\ [Next]_vars => Ledger'
  BY LedgerNext
<1>3. Ledger => InterruptHonest
  BY DEF Ledger, Summing
<1> QED BY <1>1, <1>2, <1>3, Invariant, PTL DEF Spec

-----------------------------------------------------------------------------
(* The clocks of the threads, and how they come to their end. *)

\* A thread's time runs, and a thread has nothing more to receive.
Timed == {"load", "store", "copy", "custom", "cut", "log", "run", "count", "credit", "end", "spin"}
Late  == {"end", "conn", "conn2", "free", "ended"}

ClocksKept == \A n \in Thrds : slot'[n].time = slot[n].time

\* What a step of thread t does to its clock, and whether it may come to its end.
Clocks(t) ==
  /\ th[t].pc \in Running /\ th'[t].pc # "none" /\ th'[t].total = th[t].total
  /\ th'[t].pc \in Late => /\ th'[t].rcvd = th[t].rcvd
                           /\ th[t].pc \in Late \/ args.use_non_block \/ th[t].rcvd = th[t].total
  /\ \/ ClocksKept /\ (th[t].pc \in Timed <=> th'[t].pc \in Timed)
     \/ /\ th[t].pc = "begin" /\ th'[t].pc \in Timed
        /\ \A n \in Thrds : slot'[n].time = IF n = ThrdNum(t) THEN "point" ELSE slot[n].time
     \/ /\ th[t].pc = "end" /\ th'[t].pc = "conn"
        /\ \A n \in Thrds : slot'[n].time = IF n = ThrdNum(t) THEN Ended(slot[n].time) ELSE slot[n].time

LEMMA ThreadClocks ==
  ASSUME IInv, NEW t \in Mine, Thread(t)
  PROVE  Clocks(t) \/ pc' = "exit"
<1>0. TypeOK
  BY DEF IInv
<1>1. t \in Thrds /\ ThrdNum(t) \in Thrds /\ th \in [Thrds -> Managers] /\ slot \in [Thrds -> Statistics]
  BY <1>0, MineInThrds, SlotInRange DEF TypeOK
<1>2. PICK m \in Managers : m = th[t]
  BY <1>1
<1>3. m.rcvd \in Nat /\ m.got \in Nat /\ m.reg \in Nat
  BY DEF Managers
<1>4. PICK s \in Statistics : s = slot[ThrdNum(t)]
  BY <1>1
<1> USE DEF At, Go, Step
<1>5. ASSUME NEW k, th' = [th EXCEPT ![t] = k], ClocksKept, k.total = m.total,
             m.pc \in Running, k.pc # "none", m.pc \in Timed <=> k.pc \in Timed,
             k.pc \in Late => /\ k.rcvd = m.rcvd
                              /\ m.pc \in Late \/ args.use_non_block \/ m.rcvd = m.total
      PROVE  Clocks(t)
  BY <1>1, <1>2, <1>5 DEF Clocks
<1>6. ASSUME slot' = slot PROVE ClocksKept
  BY <1>6 DEF ClocksKept
<1>7. ASSUME NEW w, slot' = [slot EXCEPT ![ThrdNum(t)] = w], w.time = s.time
      PROVE  ClocksKept
  BY <1>1, <1>4, <1>7 DEF ClocksKept
<1>8. CASE InsLoad(t)
  <2> DEFINE k == [m EXCEPT !.pc = "store", !.dirty = http_req.dirty]
  <2>1. th' = [th EXCEPT ![t] = k] /\ slot' = slot /\ m.pc = "load"
    BY <1>2, <1>8 DEF InsLoad
  <2>2. k.pc = "store" /\ k.total = m.total
    BY DEF Managers
  <2> HIDE DEF k
  <2> QED BY <1>5, <1>6, <2>1, <2>2 DEF Timed, Late, Running
<1>9. CASE CustomCut(t)
  <2> DEFINE k == [m EXCEPT !.pc = "log", !.req = @ \cup {<<"HDR", "value">>}]
  <2>1. th' = [th EXCEPT ![t] = k] /\ slot' = slot /\ m.pc = "cut"
    BY <1>2, <1>9 DEF CustomCut
  <2>2. k.pc = "log" /\ k.total = m.total
    BY DEF Managers
  <2> HIDE DEF k
  <2> QED BY <1>5, <1>6, <2>1, <2>2 DEF Timed, Late, Running
<1>10. CASE LogRequest(t)
  <2> DEFINE k == [m EXCEPT !.pc = "run", !.req = {}]
  <2>1. th' = [th EXCEPT ![t] = k] /\ slot' = slot /\ m.pc = "log"
    BY <1>2, <1>10 DEF LogRequest
  <2>2. k.pc = "run" /\ k.total = m.total
    BY DEF Managers
  <2> HIDE DEF k
  <2> QED BY <1>5, <1>6, <2>1, <2>2 DEF Timed, Late, Running
<1>11. CASE Credit(t)
  <2> DEFINE k == [m EXCEPT !.pc = "run", !.rcvd = @ + 1]
  <2>1. th' = [th EXCEPT ![t] = k] /\ slot' = slot /\ m.pc = "credit"
    BY <1>2, <1>11 DEF Credit
  <2>2. k.pc = "run" /\ k.total = m.total
    BY DEF Managers
  <2> HIDE DEF k
  <2> QED BY <1>5, <1>6, <2>1, <2>2 DEF Timed, Late, Running
<1>12. CASE Leave(t)
  <2> DEFINE k == [m EXCEPT !.pc = "end"]
  <2>1. th' = [th EXCEPT ![t] = k] /\ slot' = slot /\ m.pc = "run" /\ (m.rcvd = m.total \/ args.use_non_block)
    BY <1>2, <1>12 DEF Leave
  <2>2. k.pc = "end" /\ k.total = m.total /\ k.rcvd = m.rcvd
    BY DEF Managers
  <2> HIDE DEF k
  <2> QED BY <1>5, <1>6, <2>1, <2>2 DEF Timed, Late, Running
<1>13. CASE Free(t)
  <2> DEFINE k == [m EXCEPT !.pc = "ended"]
  <2>1. th' = [th EXCEPT ![t] = k] /\ slot' = slot /\ m.pc = "free"
    BY <1>2, <1>13 DEF Free
  <2>2. k.pc = "ended" /\ k.total = m.total /\ k.rcvd = m.rcvd
    BY DEF Managers
  <2> HIDE DEF k
  <2> QED BY <1>5, <1>6, <2>1, <2>2 DEF Timed, Late, Running
<1>14. CASE ConnLoad(t)
  <2> DEFINE k == [m EXCEPT !.pc = "conn2", !.reg = S(t).workload + m.rcvd]
  <2>1. th' = [th EXCEPT ![t] = k] /\ slot' = slot /\ m.pc = "conn"
    BY <1>2, <1>14 DEF ConnLoad
  <2>2. k.pc = "conn2" /\ k.total = m.total /\ k.rcvd = m.rcvd
    BY DEF Managers
  <2> HIDE DEF k
  <2> QED BY <1>5, <1>6, <2>1, <2>2 DEF Timed, Late, Running
<1>15. CASE InsStore(t)
  <2>1. slot' = slot /\ m.pc = "store"
    BY <1>2, <1>15 DEF InsStore
  <2>2. PICK k : th' = [th EXCEPT ![t] = k] /\ k.pc \in {"load", "copy"} /\ k.total = m.total
    <3>1. CASE m.k < Len(Inserted)
      <4> DEFINE k == [m EXCEPT !.pc = "load", !.k = @ + 1]
      <4>1. th' = [th EXCEPT ![t] = k]
        BY <1>2, <1>15, <3>1 DEF InsStore
      <4>2. k.pc \in {"load", "copy"} /\ k.total = m.total
        BY DEF Managers
      <4> QED BY <4>1, <4>2
    <3>2. CASE ~(m.k < Len(Inserted))
      <4> DEFINE k == [m EXCEPT !.pc = "copy", !.k = 1, !.dirty = {}]
      <4>1. th' = [th EXCEPT ![t] = k]
        BY <1>2, <1>15, <3>2 DEF InsStore
      <4>2. k.pc \in {"load", "copy"} /\ k.total = m.total
        BY DEF Managers
      <4> QED BY <4>1, <4>2
    <3> QED BY <3>1, <3>2
  <2> QED BY <1>5, <1>6, <2>1, <2>2 DEF Timed, Late, Running
<1>16. CASE CustomFind(t)
  <2>1. slot' = slot /\ m.pc = "custom"
    BY <1>2, <1>16 DEF CustomFind
  <2>2. PICK k : th' = [th EXCEPT ![t] = k] /\ k.pc \in {"cut", "log"} /\ k.total = m.total
    <3>1. CASE http_req.custom = "HDR:VAL"
      <4> DEFINE k == [m EXCEPT !.pc = "cut"]
      <4>1. th' = [th EXCEPT ![t] = k]
        BY <1>2, <1>16, <3>1 DEF CustomFind
      <4>2. k.pc \in {"cut", "log"} /\ k.total = m.total
        BY DEF Managers
      <4> QED BY <4>1, <4>2
    <3>2. CASE http_req.custom # "HDR:VAL"
      <4> DEFINE k == [m EXCEPT !.pc = "log", !.req = @ \cup {<<"HDR", "blank">>}]
      <4>1. th' = [th EXCEPT ![t] = k]
        BY <1>2, <1>16, <3>2 DEF CustomFind
      <4>2. k.pc \in {"cut", "log"} /\ k.total = m.total
        BY DEF Managers
      <4> QED BY <4>1, <4>2
    <3> QED BY <3>1, <3>2
  <2> QED BY <1>5, <1>6, <2>1, <2>2 DEF Timed, Late, Running
<1>17. CASE Copy(t)
  <2> DEFINE h == Headers[th[t].k]
             r == m.req \cup (IF h \in http_req.dirty THEN {Field(h)} ELSE {})
             p == IF m.k < Len(Headers) THEN "copy" ELSE IF CUSTOM THEN "custom" ELSE "log"
             j == IF m.k < Len(Headers) THEN m.k + 1 ELSE 1
             k == [m EXCEPT !.req = r, !.pc = p, !.k = j]
  <2>1. th' = [th EXCEPT ![t] = k] /\ slot' = slot /\ m.pc = "copy"
    BY <1>2, <1>17 DEF Copy
  <2>2. p \in {"copy", "custom", "log"}
    OBVIOUS
  <2> HIDE DEF r, p, j
  <2>3. k.pc = p /\ k.total = m.total
    BY DEF Managers
  <2> HIDE DEF k
  <2> QED BY <1>5, <1>6, <2>1, <2>2, <2>3 DEF Timed, Late, Running
<1>18. CASE Receive(t)
  <2> DEFINE d == IF args.use_non_block THEN 1 ELSE 0
             v == S(t).recv
             a == [m EXCEPT !.pc = "count", !.got = @ + 1, !.reg = v, !.rcvd = @ + d]
             b == [m EXCEPT !.pc = "count", !.got = @ + 1, !.reg = v, !.errs = @ + 1, !.k = 2]
  <2>1. slot' = slot /\ m.pc = "run" /\ (th' = [th EXCEPT ![t] = a] \/ th' = [th EXCEPT ![t] = b])
    BY <1>2, <1>18 DEF Receive
  <2> HIDE DEF d, v
  <2>2. a.pc = "count" /\ a.total = m.total /\ b.pc = "count" /\ b.total = m.total
    BY DEF Managers
  <2> HIDE DEF a, b
  <2> QED BY <1>5, <1>6, <2>1, <2>2 DEF Timed, Late, Running
<1>19. CASE Count(t)
  <2> DEFINE p == IF args.use_non_block \/ m.k = 2 THEN "run" ELSE "credit"
             k == [m EXCEPT !.k = 1, !.reg = 0, !.pc = p]
             w == [s EXCEPT !.recv = m.reg + 1]
  <2>1. th' = [th EXCEPT ![t] = k] /\ slot' = [slot EXCEPT ![ThrdNum(t)] = w] /\ m.pc = "count"
    BY <1>2, <1>4, <1>19 DEF Count
  <2>2. p \in {"run", "credit"}
    OBVIOUS
  <2> HIDE DEF p
  <2>3. k.pc = p /\ k.total = m.total /\ w.time = s.time
    BY DEF Managers, Statistics
  <2> HIDE DEF k, w
  <2> QED BY <1>5, <1>7, <2>1, <2>2, <2>3 DEF Timed, Late, Running
<1>20. CASE ConnStore(t)
  <2> DEFINE k == [m EXCEPT !.pc = "free", !.reg = 0]
             w == [s EXCEPT !.workload = m.reg]
  <2>1. th' = [th EXCEPT ![t] = k] /\ slot' = [slot EXCEPT ![ThrdNum(t)] = w] /\ m.pc = "conn2"
    BY <1>2, <1>4, <1>20 DEF ConnStore
  <2>2. k.pc = "free" /\ k.total = m.total /\ k.rcvd = m.rcvd /\ w.time = s.time
    BY DEF Managers, Statistics
  <2> HIDE DEF k, w
  <2> QED BY <1>5, <1>7, <2>1, <2>2 DEF Timed, Late, Running
<1>21. CASE Begin(t)
  <2> DEFINE k == [m EXCEPT !.pc = "load"]
             w == [s EXCEPT !.time = "point"]
  <2>1. th' = [th EXCEPT ![t] = k] /\ slot' = [slot EXCEPT ![ThrdNum(t)] = w] /\ m.pc = "begin"
    BY <1>2, <1>4, <1>21 DEF Begin
  <2>2. k.pc = "load" /\ k.total = m.total /\ w.time = "point"
    BY DEF Managers, Statistics
  <2> HIDE DEF k, w
  <2>3. th'[t] = k /\ \A n \in Thrds : slot'[n].time = IF n = ThrdNum(t) THEN "point" ELSE slot[n].time
    BY <1>1, <2>1, <2>2
  <2> QED BY <1>2, <2>1, <2>2, <2>3 DEF Clocks, Timed, Late, Running
<1>22. CASE End(t)
  <2> DEFINE k == [m EXCEPT !.pc = "conn"]
             w == [s EXCEPT !.time = Ended(@), !.fin = TRUE]
  <2>1. th' = [th EXCEPT ![t] = k] /\ m.pc = "end"
    BY <1>2, <1>22 DEF End
  <2>2. slot' = [slot EXCEPT ![ThrdNum(t)] = w]
    <3>1. slot' = [slot EXCEPT ![ThrdNum(t)].time = Ended(@), ![ThrdNum(t)].fin = TRUE]
      BY <1>22 DEF End
    <3> QED BY <1>1, <1>4, <3>1 DEF Statistics
  <2>3. k.pc = "conn" /\ k.total = m.total /\ k.rcvd = m.rcvd /\ w.time = Ended(s.time)
    BY DEF Managers, Statistics
  <2> HIDE DEF k, w
  <2>4. th'[t] = k /\ \A n \in Thrds : slot'[n].time = IF n = ThrdNum(t) THEN Ended(slot[n].time) ELSE slot[n].time
    BY <1>1, <1>4, <2>1, <2>2, <2>3
  <2> QED BY <1>2, <2>1, <2>3, <2>4 DEF Clocks, Timed, Late, Running
<1>23. CASE LogFaults(t)
  <2>1. CASE pc' = "exit"
    BY <2>1
  <2>2. CASE pc' # "exit"
    <3> DEFINE k == [m EXCEPT !.pc = "spin"]
    <3>1. th' = [th EXCEPT ![t] = k] /\ slot' = slot /\ m.pc \in {"log", "run", "end"}
      BY <1>2, <1>23, <2>2 DEF LogFaults
    <3>2. k.pc = "spin" /\ k.total = m.total
      BY DEF Managers
    <3> HIDE DEF k
    <3> QED BY <1>5, <1>6, <3>1, <3>2 DEF Timed, Late, Running
  <2> QED BY <2>1, <2>2
<1>24. CASE Abort(t)
  BY <1>24 DEF Abort
<1> HIDE DEF At, Go, Step
<1> QED BY <1>8, <1>9, <1>10, <1>11, <1>12, <1>13, <1>14, <1>15, <1>16, <1>17, <1>18, <1>19, <1>20, <1>21, <1>22, <1>23, <1>24 DEF Thread

-----------------------------------------------------------------------------
(* What is printed at the end. *)

\* Every thread has a slot of its own.
Distinct == \A a \in Commands : a.thrd <= THRD_NUM_MOD

\* SIGINT did not come, and nobody has ended kb.
Undisturbed == pc \notin Walking \cup {"exit", "spin"}

\* What thread t has in its slot.
OwnSlot(t) ==
  /\ slot[t].recv = th[t].got - (IF th[t].pc = "count" THEN 1 ELSE 0)
  /\ th[t].pc = "count" => th[t].reg = slot[t].recv
  /\ slot[t].workload = IF th[t].pc \in {"free", "ended"} THEN th[t].rcvd ELSE 0
  /\ th[t].pc = "conn2" => th[t].reg = th[t].rcvd
  /\ slot[t].time = IF th[t].pc \in Timed THEN "point" ELSE "duration"
  /\ th[t].pc \in Late /\ ~args.use_non_block => th[t].rcvd = th[t].total

\* How far main is.
Phase ==
  /\ stats.time = IF pc \in {"init", "dump", "print", "over"} THEN "duration" ELSE "point"
  /\ pc = "progress" => i = 0
  /\ pc = "join" => \A t \in Mine : t < i => th[t].pc = "ended"
  /\ pc \in {"time", "dump", "print", "over"} => \A t \in Mine : th[t].pc = "ended"
  /\ dumped = IF pc \in {"print", "over"} THEN "main" ELSE "no"

Exact ==
  /\ args.thrd <= THRD_NUM_MOD
  /\ Undisturbed => Phase /\ \A t \in Mine : OwnSlot(t)
  /\ DumpExact

LEMMA OwnNumber ==
  ASSUME TypeOK, args.thrd <= THRD_NUM_MOD, NEW t \in Mine
  PROVE  ThrdNum(t) = t /\ t \in Thrds
<1>1. t \in Nat /\ t < args.thrd /\ args.thrd \in Nat /\ THRD_NUM_MOD \in Nat \ {0} /\ t \in Thrds
  BY MineInThrds, ThreadsAssumption DEF Mine
<1>2. t \in 0..(THRD_NUM_MOD - 1)
  BY <1>1
<1> QED BY <1>1, <1>2 DEF ThrdNum

\* A step of thread t moves its own slot on, and no other.
LEMMA OwnThread ==
  ASSUME TypeOK, TypeOK', args.thrd <= THRD_NUM_MOD, args' = args, NEW t \in Mine, Alone(t), Forms(t),
         Clocks(t), NEW u \in Mine, OwnSlot(u)
  PROVE  OwnSlot(u)'
<1>1. ThrdNum(t) = t /\ t \in Thrds /\ u \in Thrds
  BY OwnNumber
<1>2. CASE u # t
  <2>1. th'[u] = th[u]
    BY <1>1, <1>2 DEF Alone
  <2>2. slot'[u].recv = slot[u].recv /\ slot'[u].workload = slot[u].workload
    BY <1>1, <1>2 DEF Forms, Elsewhere, Receives, Counts, Loads, Stores, SlotsKept
  <2>3. slot'[u].time = slot[u].time
    BY <1>1, <1>2 DEF Clocks, ClocksKept
  <2> QED BY <2>1, <2>2, <2>3 DEF OwnSlot
<1>3. CASE u = t
  <2>1. PICK m \in Managers : m = th[t]
    BY <1>1, ManagerFacts
  <2>2. PICK k \in Managers : k = th'[t]
    BY <1>1 DEF TypeOK
  <2>3. m.got \in Nat /\ m.reg \in Nat /\ m.rcvd \in Nat /\ k.got \in Nat /\ k.reg \in Nat /\ k.rcvd \in Nat
    BY DEF Managers
  <2>4. /\ slot[t].recv = m.got - (IF m.pc = "count" THEN 1 ELSE 0)
        /\ m.pc = "count" => m.reg = slot[t].recv
        /\ slot[t].workload = IF m.pc \in {"free", "ended"} THEN m.rcvd ELSE 0
        /\ m.pc = "conn2" => m.reg = m.rcvd
        /\ slot[t].time = IF m.pc \in Timed THEN "point" ELSE "duration"
        /\ m.pc \in Late /\ ~args.use_non_block => m.rcvd = m.total
    BY <1>3, <2>1 DEF OwnSlot
  <2>5. /\ slot'[t].recv = k.got - (IF k.pc = "count" THEN 1 ELSE 0)
        /\ k.pc = "count" => k.reg = slot'[t].recv
    <3>1. CASE Elsewhere(t) \/ Loads(t) \/ Stores(t)
      BY <1>1, <2>1, <2>2, <2>4, <3>1 DEF Elsewhere, Loads, Stores, SlotsKept
    <3>2. CASE Receives(t)
      <4>1. /\ m.pc = "run" /\ k.pc = "count" /\ k.got = m.got + 1 /\ k.reg = slot[t].recv
            /\ slot'[t].recv = slot[t].recv
        BY <1>1, <2>1, <2>2, <3>2 DEF Receives, SlotsKept, S
      <4> QED BY <2>3, <2>4, <4>1
    <3>3. CASE Counts(t)
      <4>1. /\ m.pc = "count" /\ k.pc # "count" /\ k.got = m.got /\ slot'[t].recv = m.reg + 1
        BY <1>1, <2>1, <2>2, <3>3 DEF Counts
      <4> QED BY <2>3, <2>4, <4>1
    <3> QED BY <3>1, <3>2, <3>3 DEF Forms
  <2>6. /\ slot'[t].workload = IF k.pc \in {"free", "ended"} THEN k.rcvd ELSE 0
        /\ k.pc = "conn2" => k.reg = k.rcvd
    <3>1. CASE Elsewhere(t)
      BY <1>1, <2>1, <2>2, <2>4, <3>1 DEF Elsewhere, SlotsKept
    <3>2. CASE Receives(t)
      BY <1>1, <2>1, <2>2, <2>4, <3>2 DEF Receives, SlotsKept
    <3>3. CASE Counts(t)
      BY <1>1, <2>1, <2>2, <2>4, <3>3 DEF Counts
    <3>4. CASE Loads(t)
      <4>1. /\ m.pc = "conn" /\ k.pc = "conn2" /\ k.rcvd = m.rcvd /\ slot'[t].workload = slot[t].workload
            /\ k.reg = slot[t].workload + m.rcvd
        BY <1>1, <2>1, <2>2, <3>4 DEF Loads, SlotsKept, S
      <4> QED BY <2>3, <2>4, <4>1
    <3>5. CASE Stores(t)
      BY <1>1, <2>1, <2>2, <2>4, <3>5 DEF Stores
    <3> QED BY <3>1, <3>2, <3>3, <3>4, <3>5 DEF Forms
  <2>7. slot'[t].time = IF k.pc \in Timed THEN "point" ELSE "duration"
    <3>1. CASE ClocksKept /\ (m.pc \in Timed <=> k.pc \in Timed)
      BY <1>1, <2>4, <3>1 DEF ClocksKept
    <3>2. CASE /\ m.pc = "begin" /\ k.pc \in Timed
               /\ \A n \in Thrds : slot'[n].time = IF n = ThrdNum(t) THEN "point" ELSE slot[n].time
      BY <1>1, <3>2
    <3>3. CASE /\ m.pc = "end" /\ k.pc = "conn"
               /\ \A n \in Thrds : slot'[n].time = IF n = ThrdNum(t) THEN Ended(slot[n].time)
                                                   ELSE slot[n].time
      BY <1>1, <2>4, <3>3 DEF Ended, Timed
    <3> QED BY <2>1, <2>2, <3>1, <3>2, <3>3 DEF Clocks
  <2>8. k.pc \in Late /\ ~args.use_non_block => k.rcvd = k.total
    BY <2>1, <2>2, <2>4 DEF Clocks
  <2> QED BY <1>3, <2>2, <2>5, <2>6, <2>7, <2>8 DEF OwnSlot
<1> QED BY <1>2, <1>3

\* All that the threads have to do is all there is to do.
LEMMA SharesSum ==
  ASSUME TypeOK, EachRequestOnce, \A t \in Mine : th[t].pc # "none"
  PROVE  Tally(Mine, [t \in Mine |-> th[t].total]) = total_req
<1> DEFINE d == args.thrd
           q == total_req \div d
           f == [t \in Mine |-> q]
           g == [t \in Mine |-> th[t].total]
           l == d - 1
<1>1. /\ d \in Nat \ {0} /\ total_req \in Nat /\ q \in Nat /\ l \in Mine /\ l \in Nat
      /\ IsFiniteSet(Mine) /\ Cardinality(Mine) = d
  <2>1. d \in Nat \ {0} /\ total_req \in Nat
    BY MineInThrds DEF TypeOK
  <2> HIDE DEF d
  <2>2. q \in Nat /\ d - 1 \in 0..(d - 1)
    BY <2>1, Quotient
  <2> QED BY <2>1, <2>2, MineFinite DEF d, Mine
<1>2. f \in [Mine -> Nat]
  BY <1>1
<1>3. g \in [Mine -> Nat]
  BY MineInThrds, ManagerFacts
<1>4. \A t \in Mine \ {l} : g[t] = f[t]
  <2> TAKE t \in Mine \ {l}
  <2>1. t < d - 1
    BY <1>1 DEF Mine
  <2> QED BY <2>1 DEF EachRequestOnce
<1>5. g[l] = total_req - l * q /\ f[l] = q
  <2>1. ~(l < d - 1)
    BY <1>1
  <2> QED BY <1>1, <2>1 DEF EachRequestOnce
<1>6. Tally(Mine, f) = d * q
  BY <1>1, TallyConstant
<1> HIDE DEF f, g, q
<1>7. Tally(Mine, g) = Tally(Mine, f) + g[l] - f[l]
  BY <1>1, <1>2, <1>3, <1>4, TallyChange
<1>8. d * q = l * q + q /\ l * q \in Nat
  <2> HIDE DEF d
  <2> QED BY <1>1, SMT
<1> HIDE DEF d, l
<1>9. PICK p \in Nat : p = l * q
  BY <1>8
<1> QED BY <1>1, <1>5, <1>6, <1>7, <1>8, <1>9 DEF g

\* All threads have ended: main sums up what they have received.
LEMMA DumpSums ==
  ASSUME IInv, Ledger, Exact, Dump
  PROVE  DumpExact'
<1>1. /\ pc = "dump" /\ stats' = Summed /\ th' = th /\ slot' = slot /\ args' = args /\ Mine' = Mine
      /\ total_req' = total_req
  BY DEF Dump, Mine
<1>2. /\ \A t \in Mine : th[t].pc = "ended" /\ OwnSlot(t)
      /\ stats.time = "duration" /\ dumped = "no"
  BY <1>1 DEF Exact, Undisturbed, Phase, Walking
<1>3. stats \in Totals /\ stats.recv = 0 /\ stats.workload = 0
  BY <1>2 DEF Ledger, Summing
<1>4. \A t \in Mine : /\ th[t].got \in Nat /\ th[t].rcvd \in Nat
                      /\ slot[t].recv = th[t].got /\ slot[t].workload = th[t].rcvd
                      /\ slot[t].time = "duration"
                      /\ ~args.use_non_block => th[t].rcvd = th[t].total
  <2> TAKE t \in Mine
  <2>1. th[t].got \in Nat /\ th[t].rcvd \in Nat
    BY MineInThrds, ManagerFacts DEF IInv
  <2> QED BY <1>2, <2>1 DEF OwnSlot, Timed, Late
<1> DEFINE got == [t \in Mine |-> th[t].got]
           rcvd == [t \in Mine |-> th[t].rcvd]
<1>5. [t \in Mine |-> slot[t].recv] = got /\ [t \in Mine |-> slot[t].workload] = rcvd
  BY <1>4
<1>6. got \in [Mine -> Nat] /\ rcvd \in [Mine -> Nat]
  BY <1>4
<1> HIDE DEF got, rcvd
<1>7. Tally(Mine, got) \in Nat /\ Tally(Mine, rcvd) \in Nat
  BY <1>6, MineFinite, TallyType DEF IInv
<1>8. stats' = [stats EXCEPT !.recv = @ + Tally(Mine, got), !.workload = @ + Tally(Mine, rcvd)]
  BY <1>1, <1>5 DEF Summed, Sum
<1>9. stats'.recv = Tally(Mine, got) /\ stats'.workload = Tally(Mine, rcvd) /\ stats'.time = "duration"
  BY <1>2, <1>3, <1>7, <1>8 DEF Totals
<1>10. ~args.use_non_block => Tally(Mine, rcvd) = total_req
  <2> HAVE ~args.use_non_block
  <2>1. rcvd = [t \in Mine |-> th[t].total]
    BY <1>4 DEF rcvd
  <2>2. Tally(Mine, [t \in Mine |-> th[t].total]) = total_req
    BY <1>2, SharesSum DEF IInv, Shares
  <2> QED BY <2>1, <2>2
<1>11. Times' = {"duration"}
  BY <1>1, <1>4, <1>9 DEF Times
<1> QED BY <1>1, <1>9, <1>10, <1>11 DEF DumpExact, Sum, got, rcvd

LEMMA MainExact ==
  ASSUME IInv, IInv', Ledger, Exact, Main
  PROVE  Exact'
<1>1. TypeOK /\ TypeOK' /\ args \in Arguments /\ stats \in Totals
  BY DEF IInv, TypeOK, Ledger, Summing
<1>2. /\ Undisturbed /\ pc # "over" /\ slot' = slot
      /\ pc' \notin Walking
  BY DEF Main, Distribute, OpenLog, CreateManager, NoManager, StartThread, Register, InstallHandler,
         ProgressOver, Join, JoinFaults, EndTime, Dump, Return, Walking, Undisturbed, Faults
<1>3. args'.thrd = args.thrd /\ args'.use_non_block = args.use_non_block /\ Mine' = Mine
  <2>1. args'.thrd = args.thrd /\ args'.use_non_block = args.use_non_block
    BY <1>1 DEF Main, Distribute, OpenLog, CreateManager, NoManager, StartThread, Register, InstallHandler,
         ProgressOver, Join, JoinFaults, EndTime, Dump, Return, Arguments
  <2> QED BY <2>1 DEF Mine
<1>4. Phase /\ \A t \in Mine : OwnSlot(t)
  BY <1>2 DEF Exact
<1>5. ASSUME NEW u \in Mine PROVE OwnSlot(u)'
  <2>1. u \in Thrds /\ OwnSlot(u)
    BY <1>1, <1>4, MineInThrds
  <2>2. CASE th'[u] = th[u]
    BY <1>2, <1>3, <2>1, <2>2 DEF OwnSlot
  <2>3. CASE CreateManager /\ u = i
    <3>1. th[u].pc = "none"
      <4>1. i >= i
        BY <1>1 DEF TypeOK
      <4> QED BY <2>3, <4>1 DEF IInv, Started, CreateManager
    <3>2. th[u] = Idle
      BY <2>1, <3>1 DEF Ledger, RecvLedger
    <3> DEFINE m == [Idle EXCEPT !.pc = "made", !.total = args.reqs]
    <3>3. th'[u] = m
      BY <1>1, <2>1, <2>3 DEF CreateManager, TypeOK
    <3>4. m.pc = "made" /\ m.got = 0 /\ m.rcvd = 0 /\ Idle.pc = "none" /\ Idle.got = 0 /\ Idle.rcvd = 0
      BY DEF Idle
    <3> HIDE DEF m
    <3>5. slot[u].recv = 0 /\ slot[u].workload = 0 /\ slot[u].time = "duration"
      BY <2>1, <3>2, <3>4 DEF OwnSlot, Timed
    <3> QED BY <1>2, <3>3, <3>4, <3>5 DEF OwnSlot, Timed, Late
  <2>4. CASE StartThread /\ u = i
    <3>1. th[u].pc = "made"
      BY <2>4 DEF IInv, Started, StartThread
    <3>2. PICK how \in {"begin", "failed"} : th' = [th EXCEPT ![i].pc = how]
      BY <2>4 DEF StartThread
    <3>3. th'[u] = [th[u] EXCEPT !.pc = how]
      BY <1>1, <2>1, <2>4, <3>2 DEF TypeOK
    <3>4. th'[u].pc = how /\ th'[u].got = th[u].got /\ th'[u].rcvd = th[u].rcvd
      BY <1>1, <2>1, <3>3, ManagerFacts DEF Managers
    <3>5. slot[u].recv = th[u].got - 0 /\ slot[u].workload = 0 /\ slot[u].time = "duration"
      BY <2>1, <3>1 DEF OwnSlot, Timed
    <3> QED BY <1>2, <3>2, <3>4, <3>5 DEF OwnSlot, Timed, Late
  <2>5. th'[u] = th[u] \/ (CreateManager /\ u = i) \/ (StartThread /\ u = i)
    BY <1>1, <2>1 DEF TypeOK, Main, Distribute, OpenLog, CreateManager, NoManager, StartThread, Register,
         InstallHandler, ProgressOver, Join, JoinFaults, EndTime, Dump, Return
  <2> QED BY <2>2, <2>3, <2>4, <2>5
<1>6. Undisturbed' => Phase'
  <2> HAVE Undisturbed'
  <2>1. CASE Distribute
    <3>1. pc = "init" /\ pc' = "log" /\ stats' = [stats EXCEPT !.time = "point"] /\ dumped' = dumped
      BY <2>1 DEF Distribute
    <3>2. stats'.time = "point"
      BY <1>1, <3>1 DEF Totals
    <3> QED BY <1>4, <3>1, <3>2 DEF Phase
  <2>2. CASE OpenLog \/ CreateManager \/ StartThread \/ Register
    <3>1. /\ pc \in {"log", "create", "start", "register"}
          /\ pc' \in {"log", "create", "start", "register", "signal"} /\ stats' = stats /\ dumped' = dumped
      BY <2>2 DEF OpenLog, CreateManager, StartThread, Register
    <3> QED BY <1>4, <3>1 DEF Phase
  <2>3. CASE NoManager \/ JoinFaults
    BY <2>3 DEF NoManager, JoinFaults, Faults, Undisturbed
  <2>4. CASE InstallHandler
    <3>1. /\ pc = "signal" /\ pc' \in {"progress", "join"} /\ stats' = stats /\ dumped' = dumped /\ i' = 0
      BY <2>4 DEF InstallHandler
    <3>2. \A t \in Mine : ~(t < i')
      BY <3>1 DEF Mine
    <3> QED BY <1>3, <1>4, <3>1, <3>2 DEF Phase
  <2>5. CASE ProgressOver
    <3>1. /\ pc = "progress" /\ pc' = "join" /\ stats' = stats /\ dumped' = dumped /\ i' = i
      BY <2>5 DEF ProgressOver
    <3>2. i = 0
      BY <1>4, <3>1 DEF Phase
    <3>3. \A t \in Mine : ~(t < i')
      BY <3>1, <3>2 DEF Mine
    <3> QED BY <1>3, <1>4, <3>1, <3>3 DEF Phase
  <2>6. CASE Join
    <3>1. /\ pc = "join" /\ th[i].pc = "ended" /\ i' = i + 1
          /\ pc' = (IF i + 1 < args.thrd THEN "join" ELSE "time") /\ th' = th /\ stats' = stats
          /\ dumped' = dumped
      BY <2>6 DEF Join
    <3>2. \A t \in Mine : t < i + 1 => th[t].pc = "ended"
      <4> TAKE t \in Mine
      <4>1. i \in Nat /\ t \in Nat
        BY <1>1 DEF TypeOK, Mine
      <4>2. t < i => th[t].pc = "ended"
        BY <1>4, <3>1 DEF Phase
      <4> QED BY <3>1, <4>1, <4>2
    <3>3. ~(i + 1 < args.thrd) => \A t \in Mine : t < i + 1
      <4>1. i \in Nat /\ args.thrd \in Nat
        BY <1>1, MineInThrds DEF TypeOK
      <4> QED BY <4>1 DEF Mine
    <3> QED BY <1>3, <1>4, <3>1, <3>2, <3>3 DEF Phase
  <2>7. CASE EndTime
    <3>1. pc = "time" /\ pc' = "dump" /\ stats' = [stats EXCEPT !.time = Ended(@)] /\ dumped' = dumped /\ th' = th
      BY <2>7 DEF EndTime
    <3>2. stats.time = "point"
      BY <1>4, <3>1 DEF Phase
    <3>3. stats'.time = "duration"
      BY <1>1, <3>1, <3>2 DEF Totals, Ended
    <3> QED BY <1>3, <1>4, <3>1, <3>3 DEF Phase
  <2>8. CASE Dump
    <3>1. pc = "dump" /\ pc' = "print" /\ stats' = Summed /\ dumped' = "main" /\ th' = th
      BY <2>8 DEF Dump
    <3>2. stats'.time = stats.time
      BY <1>1, <3>1 DEF Totals, Summed
    <3> QED BY <1>3, <1>4, <3>1, <3>2 DEF Phase
  <2>9. CASE Return
    BY <1>3, <1>4, <2>9 DEF Phase, Return
  <2> QED BY <2>1, <2>2, <2>3, <2>4, <2>5, <2>6, <2>7, <2>8, <2>9 DEF Main
<1>7. DumpExact'
  <2>1. CASE Dump
    BY <2>1, DumpSums
  <2>2. CASE Return
    <3>1. DumpExact /\ pc = "print" /\ dumped' = dumped /\ UNCHANGED <<stats, th, slot, args, total_req>>
      BY <2>2 DEF Exact, Return
    <3> QED BY <3>1 DEF DumpExact, Sum, Mine, Times
  <2>3. CASE ~Dump /\ ~Return
    <3>1. pc' \notin {"print", "over"}
      BY <2>3 DEF Main, Distribute, OpenLog, CreateManager, NoManager, StartThread, Register,
         InstallHandler, ProgressOver, Join, JoinFaults, EndTime, Faults
    <3> QED BY <3>1 DEF DumpExact
  <2> QED BY <2>1, <2>2, <2>3
<1> QED BY <1>3, <1>5, <1>6, <1>7 DEF Exact

\* A step of thread t.
LEMMA ThreadExact ==
  ASSUME IInv, IInv', Exact, NEW t \in Mine, Thread(t)
  PROVE  Exact'
<1>1. /\ ~Over /\ UNCHANGED mainVars /\ Alone(t)
      /\ \/ pc' = "exit" /\ UNCHANGED <<th, slot>>
         \/ pc' = pc /\ Forms(t)
  BY ThreadForms
<1>2. TypeOK /\ TypeOK' /\ UNCHANGED <<args, stats, dumped, i>> /\ Mine' = Mine /\ t \in Thrds
  BY <1>1, MineInThrds DEF mainVars, Mine, IInv
<1>3. CASE pc' = "exit"
  BY <1>2, <1>3 DEF Exact, Undisturbed, DumpExact
<1>4. CASE pc' # "exit"
  <2>1. pc' = pc /\ Forms(t) /\ Clocks(t)
    BY <1>1, <1>4, ThreadClocks
  <2>2. th[t].pc \notin {"none", "ended"}
    BY <2>1 DEF Clocks, Running
  <2>3. \A u \in Mine : th[u].pc = "ended" => th'[u].pc = "ended"
    BY <1>1, <2>2, MineInThrds, <1>2 DEF Alone
  <2>4. ASSUME Undisturbed, NEW u \in Mine PROVE OwnSlot(u)'
    BY <1>1, <1>2, <2>1, <2>4, OwnThread DEF Exact
  <2>5. Undisturbed => Phase'
    BY <1>2, <2>1, <2>3 DEF Exact, Phase
  <2>6. pc' \notin {"print", "over"}
    BY <1>1, <2>1, <2>2 DEF Exact, Undisturbed, Walking, Phase, Over
  <2>7. DumpExact'
    BY <2>6 DEF DumpExact
  <2> QED BY <1>2, <2>1, <2>4, <2>5, <2>7 DEF Exact, Undisturbed
<1> QED BY <1>3, <1>4

LEMMA ExactStays == ASSUME Exact, UNCHANGED vars PROVE Exact'
<1>1. UNCHANGED <<args, total_req, pc, i, th, slot, stats, dumped>> /\ Mine' = Mine
  BY DEF vars, Mine
<1>2. DumpExact'
  BY <1>1 DEF Exact, DumpExact, Sum, Times
<1>3. Phase => Phase'
  BY <1>1 DEF Phase
<1>4. ASSUME NEW t \in Mine, OwnSlot(t) PROVE OwnSlot(t)'
  BY <1>1, <1>4 DEF OwnSlot
<1> QED BY <1>1, <1>2, <1>3, <1>4 DEF Exact, Undisturbed

LEMMA ExactNext == ASSUME IInv, IInv', Ledger, Exact, [Next]_vars PROVE Exact'
<1>1. CASE Main
  BY <1>1, MainExact
<1>2. CASE Interrupt \/ WalkLoad \/ WalkStore \/ WalkFaults \/ WalkEnd
  <2>1. args' = args /\ pc' \in Walking \cup {"exit", "spin"}
    BY <1>2 DEF Interrupt, WalkLoad, WalkStore, WalkFaults, WalkEnd, handlerConst, Walking, Faults
  <2>2. pc' \notin {"print", "over"}
    BY <2>1 DEF Walking
  <2> QED BY <2>1, <2>2 DEF Exact, Undisturbed, DumpExact
<1>3. CASE \E t \in Mine : Thread(t)
  BY <1>3, ThreadExact
<1>4. CASE UNCHANGED vars
  BY <1>4, ExactStays
<1> QED BY <1>1, <1>2, <1>3, <1>4 DEF Next, OnMain, Finished

LEMMA ExactInit == ASSUME Distinct, Init PROVE Exact
<1>1. TypeOK
  BY InitInv DEF IInv
<1>2. ASSUME NEW t \in Mine PROVE OwnSlot(t)
  <2>1. t \in Thrds
    BY <1>1, MineInThrds
  <2>2. th[t] = Idle /\ slot[t] = NoStats
    BY <2>1 DEF Init
  <2> QED BY <2>2 DEF OwnSlot, Idle, NoStats, Timed, Late
<1>3. Phase /\ DumpExact /\ args \in Commands
  BY DEF Init, Phase, DumpExact
<1> QED BY <1>2, <1>3 DEF Exact, Distinct

\* As long as every thread has a slot of its own -- a slot number has eight
\* bits -- what kb prints at the end is exactly what its threads have received,
\* every time is a duration, and with blocking sockets it is all that was asked
\* for, however the threads took turns (kb.c, stats.c).
THEOREM DumpIsExact == ASSUME Distinct PROVE Spec => []DumpExact
<1>1. Init => Ledger /\ Exact
  BY LedgerInit, ExactInit
<1>2. IInv /\ IInv' /\ Ledger /\ [Next]_vars => Ledger'
  BY LedgerNext
<1>3. IInv /\ IInv' /\ Ledger /\ Exact /\ [Next]_vars => Exact'
  BY ExactNext
<1>4. Exact => DumpExact
  BY DEF Exact
<1> QED BY <1>1, <1>2, <1>3, <1>4, Invariant, PTL DEF Spec
=============================================================================
