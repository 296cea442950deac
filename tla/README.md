# kb in TLA+

kb (`src/src/kb.c`) is an HTTP load generator in C. It splits a number of
requests over threads; each thread splits its part over TCP connections, sends
requests (one at a time, or pipelined), parses the responses, and sends again
what was lost. This directory holds TLA+ models of that program, the TLC runs
that check them, and proofs that TLAPS checks.

The short version:

- `ConnMgntNB` is the non-blocking event loop. Every safety property its runs
  check is proved, for every number of connections, requests and burst length,
  in `ConnMgntNBProofs` and `ConnMgntNBTotals`, including that it implements the
  abstract `LoadGen`.
- `ConnMgntBlk` is the blocking loop, on the same network and against the same
  `LoadGen`; its safety is proved in `ConnMgntBlkProofs`: that rounds forget no
  request and no counter wraps, with pipelining for every server; that counters
  add up and `LoadGen` is implemented, for the servers whose answers it does not
  lose count of.
- `RespParser` is the response parser octet by octet, with both of its drivers
  and the receive buffer. `RespParserProofs` proves that its indices stay in
  order on every stream; and that on every stream of responses of a grammar
  (`RespGrammar`), however `recv` cuts it, each response ends where the server
  ended it, the verdict is the one the server meant, and the buffer has room.
- `Threads` is `main`, its threads and what they share, with SIGINT; every safety
  property is proved for every number of threads in `ThreadsProofs`, down to the
  sums that are printed.
- `Kb` is `main` from the command line (`CmdLine`) to the mode it chooses, with
  the probe mode (`Probe`); `KbProofs` proves what the other modules assume of
  the arguments, and that every probed path is judged by its own answer.
- Four runs show behaviours of the code that its own comments rule out. They
  are listed under *Divergences* below, with others that the same models show
  on other instances.

## The system

| component | state | operations | modelled by |
|---|---|---|---|
| non-blocking manager `conn_mgnt.c:7-414,733-767` | per connection: unsent, sent, received, burst, leftover, retries, socket, poll entry; `timeout`, `all_fin` | one round of the event loop: check events, receive, act on the rcode, send; the close handler | `ConnMgntNB` |
| blocking manager `conn_mgnt.c:416-731,769-804` | the same counters, `workload` of the round, `all_fin` | a round of sends, a poll, parse and switch per readable connection, the timeout check | `ConnMgntBlk` |
| response parser `http_new_state_machine.c`, `http_response_process.c` | per connection: buffer, `buf_idx`, `last_fin_idx`, `p_state`, header indices, body lengths | the parser, its two drivers, compaction, reset | `RespParser`; as a token machine `RespStream` |
| sockets `conn.c` | file descriptors, the kernel's TCP state | connect (blocking or not), `get_tcp_conn_stat` | `TcpPeer` |
| threads and main `kb.c` | `args` (shared), thread table, list of managers | split, start, progress, join, sum up | `Threads`; the choice of the mode: `Kb` |
| request building `http_request_process.c`, `http_helper.c` | one request object shared by all threads | look a name up, insert a header, build | `Threads`, `CmdLine` |
| statistics `stats.c` | per-thread counters, the total | count, end the time, sum up | `Threads` |
| SIGINT, SIGSEGV `signal_handler.h` | list of managers | walk the list, sum up, exit | `Threads` |
| probe mode `probe_mgnt.c` | one connection, one parser | one request per known path | `Probe` |
| command line `argparse.c` | options, `args` | read, default, limit, split the URL | `CmdLine` |
| logger `logger.c` | thread-id table, a file per thread | open, find the file, close | `Threads` (which file; not the texts) |
| error texts, tables | - | output | not modelled: no state a property could be about |

How they interact. `main` creates one manager per thread and starts it. A
manager owns its connections and calls `poll`, `send`, `close` and `connect`;
for a readable socket it calls a driver of the parser, which calls `recv` and
`http_resp_parser` in turn and returns an rcode and a number of finished
responses. The manager moves that number from "unanswered" to "received" and
acts on the rcode. Threads share `args`, the request object, the statistics and
the thread-id table; the handler of SIGINT runs on the main thread and goes
through all of it. The probe mode has a connection of its own and uses the
blocking driver.

What is hard about it:

- The state of a connection is spread over counters, parser, buffer, poll set
  and socket. It is torn down and rebuilt at nine places in the non-blocking
  loop and five in the blocking one, and everything must change together.
- Readiness, TCP state and pending errors are read at different moments: a FIN,
  a reset or an answer falls between any two of them.
- A burst may fail half-way, or take part of a request.
- An answer to a request already given up must not be credited.
- `recv` cuts the stream anywhere, and the buffer is moved in between.
- Losses, refusals and rejections must not keep the run from ending.
- Threads write the same dirty bits without a lock; a thread runs before it is
  registered; SIGINT adds up counters that are being written, of managers that
  may be freed.
- Options come in any order and number, in words that `-u` takes apart itself,
  and are cut to 16 and 32 bits before and after the limits are checked.

`PROJECT.json` lists each hazard at its line with the properties aimed at it.

## Modules

```
LoadGen                       what a manager promises
Counting                      numbers of things, and sums over a set
TcpPeer      RespStream       network and server;  the parser on tokens
   |             |
   +------+------+---------------------------+
          |             |                    |
   ConnMgntNB   ConnMgntBlk --(its driver)-> Probe    CmdLine
          |             |                    |           |
 MCConnMgntNB    MCConnMgntBlk               +-----+-----+
                                                   |
                                                   Kb -- MCKb
RespParser -- RespGrammar -- MCRespParser    the parser on octets, and
                                             responses it reads right
Threads -- MCThreads

CountingProofs
   +-- PeerProofs             sockets, server and token parser
   |     +-- ConnMgntNBProofs -- ConnMgntNBTotals
   |     +-- ConnMgntBlkProofs
   |     +-- KbProofs
   +-- ThreadsProofs
   +-- RespParserProofs       of RespGrammar
```

A proof module extends the module it is about and the ones drawn above it here.

`ConnMgntNB` and `ConnMgntBlk` implement `LoadGen`. `Kb` ends where `Threads`
starts: `ThreadsAssumption` asks of the arguments what `ArgsUsable` says of
those that `argparse` hands over. `ConnMgnt*` assume `TOTAL_REQ >= NConn` of
their share, which `EachRequestOnce` says of every thread's.

**TcpPeer** is not code of kb: it is the other side of the socket calls. For
each connection it keeps the TCP state the client's kernel reports, the pending
socket error, the received tokens, what is still in the send buffer, and what
the server holds. Its steps are: connection established or refused; the server
reads a unit of a request (an out-of-order one makes the request malformed),
answers the oldest request, rejects a malformed one with 400 and closes; FIN;
reset. A FIN or a reset may cut the last response short. A server answers each
request once and in order. Eight kinds of answer are distinguished, by what kb
does differently: `ok`, `empty` (204), `close` (announces a close), `keep4`
(403 to 406) and `close4` (other 4xx), `redirect`, `err5`, `odd` (a status code
kb has no entry for, such as 401). Losses, refusals and answers other than `ok`
and `empty` are counted against `MaxFaults`.

**RespStream** says, for each token, what `http_resp_parser` makes of it,
including what it may do with the body of a response it has dropped: with no
space in it, part of it is held as the start of a version; a final newline
clears it; a space makes it an unsupported version.

**ConnMgntNB** cuts the event loop where the network can make a difference. The
correspondence:

| code (`conn_mgnt.c`) | actions |
|---|---|
| 72-78, 363-381 poll, errors, timeout | `Poll`, `PollFails`, `PollTimeout` |
| 79-113 skip, `SO_ERROR`, POLLERR/POLLHUP | `SkipFinished`, `CheckError`, `ErrorClose` |
| 120-133 and the driver | `GoReceive`; `ParseToken`, `ParseFinish`, `NothingExpected`, `Recv`, `RecvEof`, `RecvNothing` |
| 137-239 the switch | `DispatchPollData`, `DispatchEnd`, `DispatchPeerCloses`, `DispatchFinished`, `DispatchKeep`, `DispatchAbort` |
| 248-359 sending | `SendNothing`, `SendOne`, `StartBurst`, `SendBurst`, `SendFast` |
| 7-33 `conn_mgnt_close_handler` | operator `conn_mgnt_close_handler` |

The driver turns NOT_SUPPORT into ERROR, so the switch's own branches for it
cannot be reached and are not modelled; nor is POLLNVAL, which needs a closed
descriptor in the poll set. Locals that are dead at the end of a round are
reset there, so that they do not multiply states. Sleeps, logging, statistics
and response times are left out. A failing `create_tcp_conn_non_blocking`
(name resolution, no descriptors) is not modelled.

**ConnMgntBlk** has the same shape; `pc` is `send`, `burst`, `inner` (at the
inner `while`), `parse`, `dispatch`, `timeout`, `connect` or over. A call that
blocks waits in its guard: `Recv` for data, `ConnectReturns` for the
handshake. Two things are abstracted: a blocking `send` never waits for room
(`RoomAssumption`: the send buffer holds all requests), and `poll` returning -1
only prints. A failing `send` ends the program (`exit(1)`), as in the code. The
driver leaves `num_resp` unset on a redirection; the model takes any value of
the constant `GARBAGE`, any set of integers. Whether a burst is one `send` or
several (`--fast`) is the variable `g_fast`, chosen at the start. Linux reports POLLIN on a dead socket, so a lost
connection is readable. The field `retry` is always 0 and left out.

**RespParser** has one action per character class and state, on octets. One
lexical unit (a field name, a number, a version, a status code, a reason) is
one octet, so `recv` can cut between units and not inside one; the length
limits on version and code are scaled to match. `length` is the union of
`content_length` and `chunked_size`. Compaction (`Compacted`, `KeptLen`,
`ShiftedIdx`) is modelled to the index, with a buffer of 48 octets and reads of
6. Left out because nothing reaches them: the branches for `use_chunked` with
`chunked_size` 0, `http_ver` 0 after the head, and a negative unsigned length.
Streams contain no 1xx or length-less bodies (which never finish), no trailers,
empty values or colons in the reason phrase. Overlapping `memcpy` is taken to
copy correctly.

**RespGrammar** is not code either: it says which responses a client may expect
kb to read. `Readable`: HTTP/1.1; a status line without a colon in the reason;
fields `name: value` with a value, the known ones but `Server` at most once; a
body that `Content-Length` measures, or in chunks announced by a
`Transfer-Encoding` that a known field follows, with no space behind a chunk's
size and no newline at a chunk's end; or a status code kb acts on without a
body. `Unmoved`: where a response comes in chunks, the stream up to its end is
no longer than the compaction threshold; `ShortHeads`: no head is. The
conditions that HTTP does not make are there because the parser goes wrong
without them: each is a line of *Divergences*. `MCRespParser` has TLC evaluate
which of its streams are in the grammar (`StreamsOfTheGrammar`).

**Threads** follows `main` from the split of the requests to the final print.

| code | actions |
|---|---|
| `kb.c:40-50` times, remainder | `Distribute` |
| `kb.c:53-61` file, share of the last thread, manager | `OpenLog`, `CreateManager`, `NoManager` |
| `kb.c:62-91` thread, table of ids, handler | `StartThread`, `Register`, `InstallHandler` |
| `kb.c:93-112` `-v`, join, close, sum | `ProgressOver`, `Join`, `JoinFaults`, `EndTime`, `Dump`, `Return` |
| `http_request_process.c:5-120` | `InsLoad`, `InsStore` per header; `Copy`, `CustomFind`, `CustomCut` |
| `logger.c` | `LogRequest`, `LogFaults` |
| the manager's life, `stats.c` | `Begin`, `Receive`, `Count`, `Credit`, `Leave`, `Abort`, `End`, `ConnLoad`, `ConnStore`, `Free` |
| `signal_handler.h:21-46` | `Interrupt`, `WalkLoad`, `WalkStore`, `WalkFaults`, `WalkEnd` |

Every read-modify-write of a shared word is two steps. What a manager does is
reduced to what the others see of it: answers are counted, and credited, in the
order of the code (with blocking sockets a 4xx is counted and not credited).
`pthread_create` and `fopen` may fail; the code notices neither, and the bad
accesses that follow end the program or, when `errno` says so, are repeated for
ever by the handler of SIGSEGV (`Faults`). A manager that its thread has freed
reads as before, as any number of the constant `GARBAGE`, under any thread number,
or faults (`WalkLoad`). A log message for a thread that is not registered, or has no
file, may fault (`LogFaults`): that of the request, which is logged once, and
those of both loops, which log from their first round on. Left out: byte counts,
response times, what is printed.

**CmdLine** has one action for each kind of option and one for each part of
`argparse` after the loop, with the 16- and 32-bit cuts. `getopt_long` is
external: an option comes with its value, but for `-u`, which takes its
operands off the command line itself. A header's name is a sequence of words,
and the lookup takes an abbreviation, as `strncmp` with the given length does.

**Probe** sends one request per path and judges the rcode of the blocking
driver. The driver is not modelled again: it is the one of `ConnMgntBlk`,
instantiated for one connection and one response. `main` handles SIGPIPE only in
the load-generating mode (`kb.c:33-37`), so a `send` on a connection that is
closed and reset already kills kb here: `pc` is `killed`.

**Kb** extends both: `argparse`, the choice of the mode, and the probe mode to its
end.

**LoadGen** is the abstract specification: each connection has a share; it
issues at most what is still to be answered; an answer settles an issued
request; what is issued may be given up, to be issued again; a run may be aborted
(`exit(1)`), and its books with it; after the end nothing changes. For `ConnMgntNB` the mapping is `todo = unsent_req`,
`issued = sent_req`. The blocking code uses the names differently (it takes a
request out of `unsent_req` when it sends it), so there it is
`todo = share - rcvd_res`, `issued = sent_req`.

## What the runs check

Non-blocking loop (`MCConnMgntNB`):

| run | shows |
|---|---|
| `nb_single` | two connections, no pipelining, every answer, one fault: `TypeOK`, `Accounting`, `AllFinExact`, `NoStreamMixing`, `NoEarlyEnd`, `RetryPaid`, and `Termination` under fairness |
| `nb_pipe` | one connection, bursts of three with one `send` each, two faults: `NeverNegative`, `IdleIsClean`, `LoopConditionHolds`, `ShrinkOnLoss`, `RefinesLoadGen` |
| `nb_fast` | bursts in one `send`, requests of two units in a buffer of three: `FramingKept`, `PackedReadInBounds`, `UnansweredIsReal`, and `Termination` under fairness |

Parser (`MCRespParser`):

| run | shows |
|---|---|
| `rp` | both drivers, on all sequences of three ordinary responses, one of long ones that needs compaction, and an ordinary response before one that stops the client, this last kind closed after any octet; cut by `recv` in every way. Each response ends where the server ended it (`EndsWhereSent`), header indices survive compaction (`FieldsFound`), the driver comes back with what the server meant (`Verdict`), and in the non-blocking driver the buffer has room |

Blocking loop (`MCConnMgntBlk`):

| run | shows |
|---|---|
| `blk_pipe` | two connections, bursts of two in one `send` or several, every answer at all and all losses: no counter wraps (`NeverNegative`), no round ends while a connection counts requests as unanswered (`NoneForgotten`), the branch that would poll a closed descriptor is never taken (`AbandonedHasWork`), requests that nothing carries any more come from the replacement at a timeout only (`OnlyTimeoutStrands`), and without losses the run ends (`TerminationWithoutLoss`) |
| `blk_single` | without pipelining, redirections and resets: `Accounting`, `EndMeansDone`, `RefinesLoadGen`; a round waits for exactly what is counted as unanswered (`WorkloadIsCounted`); and `NoStreamMixing` |

`Accounting`, `EndMeansDone` and `RefinesLoadGen` hold with pipelining too, which
the theorems below say; `blk_pipe` does not list them, as its servers may send
status codes kb does not list (see `Orderly`).

Threads and the program (`MCThreads`, `MCKb`):

| run | shows |
|---|---|
| `thr` | two threads with blocking and with non-blocking sockets, `-v` or not, logging at either level, every failure, SIGINT at any moment. Every request goes to exactly one thread (`EachRequestOnce`); the request built from the shared object has its Host and the user's headers (`RequestsWellFormed`); a thread that logs has its file open (`LogsToOwnFile`); what is printed at the end is what the threads received (`DumpExact`), what SIGINT prints is bounded by it (`InterruptHonest`), the responses always, the answers as long as no manager is freed; `main` ends (`MainEnds`) |
| `kb` | all sequences of up to three size options at their bounds behind a URL, all sequences of up to three other options, and the probe mode with three paths against every server and network: `ArgsUsable`, `PortRule`, `ProbeVerdict`, and `ProbesEnd`: the list of paths comes to its end, or SIGPIPE ends kb |

The type invariants of `RespParser`, `ConnMgntBlk`, `Threads` and `CmdLine` are
defined in their modules and are in no run; the first three are proved.

What a run leaves out, it leaves out because the code does not keep the property
there: `blk_single` has no redirections and no resets, `rp` has no
chunk with a newline at its end, `kb` no URL in the same word as `-u` (`kb_url`
has it), and so on. *Divergences* says which.

**Bounds.** Two connections are enough for a stale event of one to meet a change
of the other, and for the remainder of the split to make the shares differ;
pipelined runs with one connection get longer bursts instead. Three to five
requests give bursts that are full, short and partly answered. One or two faults
let a second loss fall into the recovery from the first. `ReqSize` 2 with
`SndCap` 3 leaves half a request behind; `U32_MOD` 16
lets a wrap show as a wrap. Poll timeouts are 1 and 2, so the timeout doubles
before it passes the limit. In `RespParser` the
buffer is the smallest in which the head and chunk lines of the streams used
stay below the compaction threshold and the bodies do not.

In `Threads`, two threads are enough for a lost update and for one thread to end
while another starts; three requests give the shares 1 and 2. `MAX_THREAD` and
`THRD_NUM_MOD` are both 2, so that numbers do not collide; one collides with
`THRD_NUM_MOD` 1 (see below). `MaxErrs` 1 is one 4xx in all. Freed memory reads
as 0 or as 7, more than twice all requests; the unset `num_resp` as -2, 0, 1 or 9. In `CmdLine`, 16 and
32 bits are scaled to the moduli 16 and 64, the limits to 3 threads and 10
descriptors, and the values of the options lie on both sides of each. In
probe mode three paths with four faults let the answers of two of them be lost
and the third be judged.

**Fairness.** `WF(Program)`: the thread keeps running. `WF` of `Establish`,
`ServerRead` and `Answer(c, "ok")` (and, in `ConnMgntNB`, of the rejection of a
malformed request): the network delivers and the server works. Faults and
interrupts get no fairness. In `Threads`, `WF(OnMain)` and `WF(Thread(t))` for each
thread: the operating system runs `main` and every thread; SIGINT gets none. In
`Kb`, `WF` of `ParseArgs`, `Probing` and `Server`. Nothing stronger is used.

## What is proved

Unless a line names a hypothesis, a theorem holds for every value of the
constants that satisfies the assumptions of its module (`PeerAssumption`,
`ConnMgntAssumption`, `ThreadsAssumption`, `ParserAssumption`, ...): any number of
connections, threads, requests, any burst length, request size, send-buffer
size, kinds of answer and faults. A hypothesis is a condition on the constants,
an operator with a comment of its own. Each is sufficient, not always necessary;
the text says what goes wrong without it, and *Divergences* has the instances.
Each holds in the run that checks the property.

### The non-blocking loop

| theorem | statement | hypothesis |
|---|---|---|
| `TypeCorrect` | `Spec => []TypeOK` | |
| `RequestsAccounted` | `Spec => []Accounting` | |
| `BoundNeverWraps` | `Spec => []NeverNegative` | |
| `IdleConnectionsAreClean` | `Spec => []IdleIsClean` | |
| `PackedReadsInBounds` | `Spec => []PackedReadInBounds` | |
| `StreamsNeverMix` | `Spec => []NoStreamMixing` | |
| `BurstShrinksOnLoss` | `Spec => ShrinkOnLoss` | |
| `ImplementsLoadGen` | `Spec => RefinesLoadGen` | |
| `AnswersAddUp` | `Spec => []AllFinExact` | |
| `LoopNeverEndsItself` | `Spec => []LoopConditionHolds` | |
| `EndsOnlyOnTrouble` | `Spec => []NoEarlyEnd` | |
| `FastModeKeepsFraming` | `Spec => []FramingKept` | `FastFraming` |
| `UnansweredStaysReal` | `Spec => []UnansweredIsReal` | `FastFraming` |
| `RetriesArePaid` | `Spec => []RetryPaid` | `Whole` |

The first eight are in `ConnMgntNBProofs`, the others in `ConnMgntNBTotals`.

The inductive invariant `IInv` is `TypeOK`, `Accounting`, `NeverNegative` and
`IdleIsClean` together with four facts that the properties lean on:

- `CallIsBound`: a parser call that is to find nothing starts and stays clean,
  so no response can be finished with its bound at 0; and it asks for more data
  only while something is unanswered. Without it, `NeverNegative` is not
  inductive: a leftover body could end one response too many.
- `BurstFits`: the requests a sending loop has left are within what the share
  allows. Without it, `sent_req <= unsent_req` could break inside a burst.
- `LeftoverHasRoom`: a partly sent request is one more than those in flight, and
  both the share and the burst have room for it; only the fast mode leaves one.
  Without it, the length of the next packed `send` could be negative.
- `GapOnlyShrinks`: the burst length never exceeds `NUM_GAP`, the size of the
  packed buffer.

There is one lemma per action (`PollInv`, `CheckErrorInv`, ... `SendFastInv`),
on top of lemmas about the operators (what `Closed`, `Credited`, `Resized`,
`WorkloadBytes` and `Sent` return and preserve). `NextInv` combines them and
`Invariant` is `Spec => []IInv`. `NoStreamMixing` needs one more invariant,
`Connecting` (an unconnected socket has received nothing and its parser is
clean). The refinement and the action property rest on `StepMoves`: each step
changes the counters of one connection in one of the ways `LoadGen` and
`ShrinkOnLoss` allow.

`ConnMgntNBTotals` builds on that in layers, each an invariant of its own that
may use the ones below it:

- `TotalKept`: `all_fin` is the sum of the answers (`Tally`, a sum over a finite
  set, of `Counting`), and whatever stops the parser but a finished response
  leaves a request unanswered, so that the total is reached only where the loop
  ends. `Untroubled`: while no fault has happened, no socket is refused and no
  answer on its way ends the run.
- `Informed`: between `poll` and the use of its events the network moves on, but
  RCODE_FIN still means that all is answered, RCODE_CLOSE that the server
  closes, an error event that the socket is dead. From here on a step of the
  loop is one of a few forms (`Forms`), and layers are proved form by form.
- `EvenAll`: the units in the send buffer and at the server, and `leftover`, make
  whole requests. `DoneIsReset` and `PairedAll`: what the parser and its stream
  hold is heads with their bodies. `RealAll`: what counts as unanswered is on
  its way, or its answer is.
- `CostPaid`: the retries of all connections, with the one each socket that is
  not `Calm` may still cause, are no more than the faults that have happened.

`FastFraming` (fast pipelining, a `leftover` field wide enough, no 403 to 406)
and `Whole` (requests of one unit, or the fast mode with a wide field, or no
pipelining and room for a request) are the settings in which `leftover` describes
the stream. They are needed: an answer of the kind of 403 starts the loop afresh
with `leftover` 0 on the same socket (`conn_mgnt.c:215-224`), and pipelining
without the fast mode forgets that `send` took a part (`conn_mgnt.c:271`).

### The blocking loop

`Orderly` is about answers after which the loop no longer knows its place in the
stream: with pipelining there is none with a status code kb does not know, which
leaves the parser in the middle of it and makes the switch count its requests
twice (`conn_mgnt.c:575`); without pipelining there is no redirection, which
leaves `num_resp` unset (`http_new_state_machine.c:710`). `Bounded` is `Orderly`,
or else pipelining with bursts of all connections together below 2^32, and any
answer: at 10000, the longest burst of the command line, that is up to 429,496
connections.

| theorem | statement | hypotheses |
|---|---|---|
| `TypeCorrect` | `Spec => [](pc # "exit" => TypeOK)` | `Bounded` |
| `RequestsAccounted` | `Spec => []Accounting` | `Orderly` |
| `BoundNeverWraps` | `Spec => []NeverNegative` | `Bounded` |
| `RoundsForgetNothing` | `Spec => []NoneForgotten` | `Bounded` |
| `RoundsWaitForNoMore` | `Spec => []WorkloadIsCounted` | `Orderly`, `Settled` |
| `EndIsComplete` | `Spec => []EndMeansDone` | `Orderly` |
| `NothingAbandonedIdle` | `Spec => []AbandonedHasWork` | `Bounded` |
| `StreamsNeverMix` | `Spec => []NoStreamMixing` | `Orderly`, `Fresh` |
| `ImplementsLoadGen` | `Spec => RefinesLoadGen` | `Orderly` |

`exit` is where a failing `send` ends the program in the middle of a round; no
counter matters after it. `Settled`: with pipelining, no 4xx; after one, the loop
waits for the requests it gave up (run `blk_404`). `Fresh`: pipelining, or no
resets and no unknown codes; otherwise a parser in the middle of a response goes
on with the next connection. `ImplementsLoadGen` asks nothing of the unset
`num_resp` of a redirection: the loop exits on it, and an `exit` aborts the run,
whatever the counters hold.

`RoundsForgetNothing` and `RoundsWaitForNoMore` are about counters: what a round
waits for is what the connections count. That a socket still carries what is
counted is not in them, and is not true: a connection replaced at a timeout
(`conn_mgnt.c:591-600`, `697-705`) keeps its `sent_req`, and the loop waits for
ever. `OnlyTimeoutStrands` says that this is the only place.

The blocking driver does not stop when its bound reaches 0, so `NeverNegative`
depends on what the server may still send. The invariant `IInv` therefore ties
the parser to the network: the answers still to be finished (`Owing`, those in
the buffer, in the socket and at the server) are no more than the requests
unanswered (`OwedIsPending`); the stream is heads and bodies in turn, from where
the parser is (`Framing`). `Owing` counts where answers end; the second layer,
`Clean`, counts where they begin (`StartedIsPending`) and has the parsers clean
between calls. The third, `SumState`, compares `workload` and `all_fin` with the
sums over the connections.

Where a request may be counted twice, the share of a connection no longer bounds
its counters (`Accounted`). What bounds them then is that a connection is sent to
only while nothing is on its way, and one burst at a time (`BurstFits`); an
ignored answer moves requests from sent to unsent, which makes neither the sent
ones nor `workload` any more. Between calls the parser then rests at the ignored
answer (`Rests`), which stays at the head of its buffer: the next call stops at
it again, before it finishes anything.

### Threads

| theorem | statement | hypothesis |
|---|---|---|
| `TypeCorrect` | `Spec => []TypeOK` | |
| `RequestsSplitOnce` | `Spec => []EachRequestOnce` | |
| `RequestsCarryHost` | `Spec => []RequestsWellFormed` | |
| `ThreadsLogToTheirFile` | `Spec => []LogsToOwnFile` | |
| `InterruptIsHonest` | `Spec => []InterruptHonest` | |
| `DumpIsExact` | `Spec => []DumpExact` | `Distinct` |

The inductive invariant `IInv` adds to `TypeOK`:

- `Shares`: what `args->reqs` holds at each point of `main`'s loop, whose value
  the next manager takes. With it comes a fact about division: the last share,
  remainder included, is what the others leave (`LastShare`), and each share has
  a request per connection (`ShareSuffices`).
- `Started`: which threads are not there yet, and that SIGINT still ends kb at
  once while they are being started.
- `Files`: a file is opened before the manager is made and closed after the
  thread has ended.
- `Built`: whatever stale dirty bits a thread writes back, Host and the user's
  headers are among them, since every writer read them or put them in; and the
  value of Connection is set before its bit. `RequestsWellFormed` alone says
  nothing of the bits other threads hold in their registers.
- `Counted`: an answer about to be credited is one that is missing, without
  which `rcvd <= total` of `TypeOK` would not be inductive.

`InterruptHonest` bounds the responses SIGINT prints by those received, or by
twice as many when `main` was already printing its own sum (SIGINT in `main`'s
`STATS_DUMP` or behind it: the handler adds to the same total again). The answers,
which the handler reads in the managers, are bounded only while no manager has
been freed, with a thread about to end counted twice; what freed memory holds
(`GARBAGE`, any set of numbers) is not bounded by anything. The invariant is
`Ledger`. Updates of a slot get lost, a thread may be counted twice, and threads
may share a slot, but without freed memory nothing is made up: a slot, and every register about to be written to one, holds at most
what the threads of that slot have stored (`RecvLedger`), or have reported and
the handler has visited (`WorkLedger`: for some number per slot that the handler
has added). Summing the slots sums the threads, class by class (`TallyClasses`).

What `main` prints is exact when every thread has a slot of its own (`Distinct`:
no more threads than `thrd_num`, a field of 8 bits, can number; *Divergences*
shows what happens beyond). `Exact` says what each slot holds at each point of
its thread (`OwnSlot`) and that no thread runs once `main` has joined it
(`Phase`); that the shares sum up to the total follows from the split
(`SharesSum`).

### Command line and probe mode

| theorem | statement |
|---|---|
| `ArgumentsUsable` | `Spec => []ArgsUsable` |
| `PortPriority` | `Spec => []PortRule` (ports in range) |
| `PathsJudgedRight` | `Spec => []ProbeVerdict` |

The invariant `KInv` is `SizesHeld` (what each stage of `argparse` has
established of the sizes; an option may come again, so nothing but "at least
one" holds before the limits) and `PortSoFar` (`args.port` is that of the last
`-p` before `optind`, as long as no URL was picked). For the probe mode
`ProbeInv` says that the paths ahead are untouched (`Ahead`), those behind are
judged (`Judged`), and of the path being probed, unless its connection was lost,
that the parser, its buffer and the socket hold between them exactly what is left of
this path's answer (`Probed`).

### The response parser

| theorem | statement | hypothesis |
|---|---|---|
| `TypeCorrect` | `Spec => []TypeOK` | |
| `FieldsAreFound` | `Spec => []FieldsFound` | `Spelled` |
| `ResponsesEndThere` | `Spec => EndsWhereSent` | `AllReadable` |
| `VerdictsAreMeant` | `Spec => []Verdict` | `AllReadable` |
| `RoomForRecv` | `Spec => []BufferHasRoom` | `AllReadable`, `ShortHeads` |

`TypeOK` holds the order `last_fin_idx <= buf_idx <= data_size`, on which every
copy within the buffer rests. It is proved for every stream of octets, well
formed or not: the invariant `ParserInv` bounds what is counted of a head by
what the buffer holds of it (`HeadCounted`), and has one kind of body at a time
(`OneBody`), so that compaction keeps no more than there is. `Spelled` says that
wherever the name of a known field stands in a stream, a colon follows it, a
value that does not begin with a newline, and no newline before a CR. With it
`ParserInv` follows a field through name and value (`Heading`: `InName`,
`InValue`, `Found`), and compaction moves the head as a whole
(`ShiftedHeading`). All streams of the run `rp` are `Spelled`. It also asks this of
bodies, since the proof does not follow the framing and cannot tell a body's
octets from a head's; a body that holds the bare name of a field is
outside the theorem.

`AllReadable` says that all streams are `Readable` and `Unmoved`. A stream is any
number of responses of any length, and the end of it may be anywhere in one;
`recv` cuts it anywhere. The invariant is `StreamInv`, on top of `ParserInv`:

- The octets the parser has passed, those ahead of it in the buffer and those in
  the socket make up the stream (`Sees`, `Passed`), and the number of responses
  finished is the number of those that end at or before that point (`Counts`).
- `Tracks` says where in the current response the parser is, and that what it
  has noted is what stands there: in the head (`InHead`), where exactly the
  known fields of the lines behind it are noted, each at its place (`Table`); in a body
  of known length with so many octets to go (`SizedRest`); or in chunks, with
  what is missing of the chunk (`Chunks`). This is what none of the three
  properties says, and why none is inductive alone.
- `Going`: a driver that has not come back has no verdict but to go on.

A call of the parser leads from place to place: it goes on some octets and stays
in the response, or finishes it at its last octet, or comes back with its
verdict (`Result`); there is a lemma for each state of the parser, and the
character classes within it. Compaction moves a head or a counted body
as a whole (`Shifted`); with `Unmoved` it never meets a chunk
(`ChunksUnmoved`). `RoomForRecv` adds that what is kept across a `recv` is no
longer than a head or the threshold.

The hypotheses hold for what TLC checks them on: all streams of `rp` are
`Readable` with `ShortHeads`. 29 of its 85 streams are not `Unmoved` (they have
chunks behind the threshold, or a long chunk that compaction meets); on these
the three properties hold as far as TLC has checked them, and
`LongThenShort` shows that they do not hold on all such streams.

### Only model-checked

- `Verdict`, `EndsWhereSent` and `BufferHasRoom` on streams that are not
  `Unmoved`: there they depend on where compaction happens to fall.
- `CmdLine`'s type invariant, in no run.
- `OnlyTimeoutStrands`, which takes more of the network than the invariants of
  `ConnMgntBlkProofs` say.
- All liveness (`Termination`, `TerminationWithoutLoss`, `MainEnds`,
  `ProbesEnd`), which is out of the prover's reach.

## Divergences

Runs with `expect: violation`: TLC finds a behaviour of the code that
contradicts the code's own comment, which `PROJECT.json` quotes.

- `nb_pipe_livelock`: the burst loop counts a request before sending it and
  keeps the count when `send` fails; such a request is neither sent again nor
  answered, and the run may never end.
- `rp_newline`: a chunk that ends in a newline ends the response early.
- `blk_404`: after a 4xx the pipelined blocking loop waits for the requests it
  gave up.
- `kb_url`: `-uURL` and `--url=URL` are read again for ever (`argparse.c:155`).

The same models show more when a run's instance is changed as given:

| change | what fails, and why |
|---|---|
| `nb_fast` with `G_FAST = FALSE` | `UnansweredIsReal`, `FramingKept`: the slow mode ignores that `send` took a part (`conn_mgnt.c:271`) |
| `nb_fast` with `GoesOn`, `MaxFaults = 1` | `FramingKept`: a partly sent request is forgotten on a connection kept after a 403-406, and the next one starts in the middle of it (`conn_mgnt.c:224`) |
| `nb_fast` with `LeftoverTiny`, `ReqSize = 3`, `SndCap = 5` | `FramingKept`: `leftover` has 8 bits, requests may be longer than 256 octets (`conn_mgnt.h:33`) |
| `rp_newline` with `PaddedSize` | `Verdict`: with a space behind a chunk size, data is read as sizes (`http_new_state_machine.c:404`) |
| ... with `EncodingLast` | `Verdict`: `Transfer-Encoding` as the last known field goes unnoticed (`http_response_process.c:61`) |
| ... with `LongThenShort` | `Verdict`: compaction loses a half-received chunk-size line (`http_new_state_machine.c:499`) |
| ... with `HTTP10` | `Verdict`: HTTP/1.0 is refused, although a message claims support (`http_new_state_machine.c:182,354`) |
| `blk_404` with `OkOnly`, `OnlyFins`, `ENABLE_PIPE = FALSE` | `Termination`: a connection that closes between the timeout of `poll` and the check is replaced, but its request is waited for (`conn_mgnt.c:591`) |
| `blk_single` with `NConn = 1`, `TOTAL_REQ = 2`, `MaxFaults = 1`, `OkOnly`, `OnlyResets` | `NoStreamMixing`: a parser in the middle of a response goes on with the next connection (`conn_mgnt.c:667`) |
| `blk_single` with `Redirecting` | `Accounting`: a redirection moves the counters by an unset number (`http_new_state_machine.c:710`) |
| `blk_pipe` with `OddAnswers` and `Accounting` | `Accounting`: an unlisted status code counts the unanswered requests twice (`conn_mgnt.c:575`) |
| `thr` with `THRD_NUM_MOD = 1`, `Failures = {}`, no SIGINT, `CHECK_DEADLOCK FALSE` | `DumpExact`, `MainEnds`: two threads count in one slot, and `-v` waits for ever for the other one (`conn_mgnt.h:44`; 8 bits and up to 1000 threads) |
| `thr` with `Failures = {}`, no SIGINT and `CustomHeaderSent` | a user's header outside the table is cut at its colon by the first thread, and sent without its value by the others (`http_request_process.c:94`) |
| `kb` with `PortChecked` | a URL's port out of range is used, cut to 16 bits, where a comment says "rollback to origin" (`argparse.c:369`): the line compares instead of assigning; `-p -1` is cut before the check that would refuse it (`argparse.c:247`) |
| `kb` with `ProbesFinish` in place of `ProbesEnd` | kb does not come to "Finished all probing work" (`probe_mgnt.c:76`): SIGPIPE kills it when a connection is closed and reset before the request is sent (`probe_mgnt.c:35`) |
| `kb` with `HeaderByName` | a name that begins one of the table is taken for it: `User` for `User-Agent` (`http_helper.c:291`) |
| `kb` with `ArgsUsable` without `Sane` | the product of threads and connections wraps at 32 bits and passes the limit (`argparse.c:274`) |

Seen in the code while modelling, and part of the models: `-l` above 101 reads behind the table of level names
(`PrintConfig`); a failing `pthread_create` or `fopen` goes unnoticed (`kb.c:62`,
`logger.c:32`), so that `main` joins or closes what is not there and `-v` waits
for ever (`StartThread`, `OpenLog`, `JoinFaults`); a thread that has ended
may be counted twice by SIGINT, and its freed manager read (`WalkLoad`). Exactly ten headers of the user
leave no NULL behind the last (`http_request_process.c:90`), and whether a
thread's response times are summed depends on the running total (`stats.c:151`);
these two are outside the models.

## Not modelled

- Printing: statistics, progress bar, configuration, log and error texts. With
  them byte counts, and the sampling and summing of response times, which feed
  nothing but the print.
- Strings: allocation, copying and concatenation of requests, templates (`-f`,
  which the code refuses), the characters of a URL. A URL is what `parse_url` makes of it: scheme, port, too long or not.
- `getopt_long`, name resolution and `getaddrinfo`, descriptors running out
  inside `socket`: external or I/O. A failing connection of a manager is
  `NoManager`.
- POLLNVAL, which needs a closed descriptor in the poll set (`AbandonedHasWork`
  says that this does not come about in the blocking loop).
- Constant tables, character classes, allocation macros and the cycle counter:
  no state.

## Plan

Done, in this order: `LoadGen`, `TcpPeer`, `RespStream`, `ConnMgntNB` with its
proofs; `RespParser`; `ConnMgntBlk`; `Threads` with its proofs; `CmdLine`, `Probe`
and `Kb` with their proofs; then the proofs of what adds up over connections and
threads (`Counting`, `ConnMgntNBTotals`, the sums of `ThreadsProofs`), of
`ConnMgntBlk`, of the probe mode and of the parser's indices and fields; then
the grammar of responses, and the proof that the parser follows it.

Left, most important first:

1. `RespStream` as an abstraction of `RespParser`. What the theorems above say of
   octets is what the token machine says of tokens; the step from one to the
   other is made in the reader's head.
2. `Unmoved` replaced by a condition on single chunk lines: that none is cut at
   the moment of a compaction.
3. `FieldsFound` of streams whose bodies contain names of fields, from
   `StreamInv` in place of `Spelled`.
4. The summary of response times (`stats.c:151`).
