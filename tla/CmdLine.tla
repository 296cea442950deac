------------------------------ MODULE CmdLine ------------------------------
(***************************************************************************)
(* argparse: kb's command line, option by option, the checks after it, and *)
(* the URL.  An option is a record; what getopt_long makes of the words of *)
(* the command line (attached values, options behind operands) is external *)
(* but for -u, which takes its operands itself.  The name of a header is a *)
(* sequence of words.                                                      *)
(***************************************************************************)
EXTENDS Integers, SequencesExt

CONSTANTS
  Argvs,             \* the command lines
  U16_MOD, U32_MOD,  \* widths of port and thrd, of conn, reqs and g_burst_length
  MAX_THREAD, NUM_GAP, MAX_NUM_GAP, MAX_ARBIT_REQS, LOG_LEVEL_MAXIMUM,
  get_req_header_name_by_idx,  \* the table of header names
  NPROC, NOFILE,     \* rlim_cur of RLIMIT_NPROC and RLIMIT_NOFILE
  DEFAULT_PORT, DEFAULT_SSL_PORT

\* The options with a number.
Numeric == {"c", "n", "t", "b", "p", "l"}

ASSUME CmdLineAssumption ==
  /\ \A a \in Argvs : /\ Len(a) \in Nat /\ DOMAIN a = 1..Len(a)
                      /\ \A k \in DOMAIN a : a[k].opt \in Numeric => a[k].num \in Int
  /\ U16_MOD \in Nat \ {0} /\ U32_MOD \in Nat \ {0}
  /\ MAX_THREAD \in Nat \ {0} /\ NOFILE \in Nat /\ NOFILE >= 10 /\ NPROC \in Nat \ {0}
  /\ NUM_GAP \in 1..MAX_NUM_GAP /\ MAX_NUM_GAP \in 1..(U32_MOD - 1)
  /\ MAX_THREAD < U16_MOD /\ U16_MOD <= U32_MOD /\ MAX_ARBIT_REQS \in Nat
  /\ DEFAULT_PORT \in 0..(U16_MOD - 1) /\ DEFAULT_SSL_PORT \in 0..(U16_MOD - 1)

VARIABLES
  argv, optind,
  stage,    \* getopt, defaults, limits, url, print; main (argparse has returned), exit, fault
  help,
  have,     \* the have_* bits
  args,
  burst,    \* g_burst_length
  fast, verbose, log_visible
cmdVars == <<argv, optind, stage, help, have, args, burst, fast, verbose, log_visible>>

None == [ssl |-> FALSE, port |-> -1, long |-> FALSE]  \* no URL; port -1: none in the URL

CmdInit ==
  /\ argv \in Argvs /\ optind = 1 /\ stage = "getopt" /\ help = FALSE /\ have = {}
  /\ args = [port |-> DEFAULT_PORT, thrd |-> 0, conn |-> 0, reqs |-> 0, urls |-> <<>>, url |-> None,
             enable_pipe |-> FALSE, use_non_block |-> FALSE, use_probe_mode |-> FALSE,
             dirty |-> {}, other_field |-> 0, ret |-> 0]
  /\ burst = NUM_GAP /\ fast = FALSE /\ verbose = FALSE /\ log_visible = 0

-----------------------------------------------------------------------------
(* The loop over the options. *)

U16(n) == n % U16_MOD
U32(n) == n % U32_MOD
AtLeastOne(n) == IF n > 0 THEN n ELSE 1

Given(opts) == stage = "getopt" /\ optind <= Len(argv) /\ argv[optind].opt \in opts
Arg         == argv[optind]
Next1       == optind' = optind + 1 /\ UNCHANGED <<argv, stage>>
Sets(a)     == Next1 /\ args' = a

OptConn ==
  /\ Given({"c"}) /\ Sets([args EXCEPT !.conn = AtLeastOne(U32(Arg.num))]) /\ have' = have \cup {"conn"}
  /\ UNCHANGED <<help, burst, fast, verbose, log_visible>>

OptNum ==
  /\ Given({"n"}) /\ Sets([args EXCEPT !.reqs = AtLeastOne(U32(Arg.num))]) /\ have' = have \cup {"reqs"}
  /\ UNCHANGED <<help, burst, fast, verbose, log_visible>>

OptThread ==
  /\ Given({"t"})
  /\ IF U16(Arg.num) >= NPROC
       THEN stage' = "exit" /\ UNCHANGED <<argv, optind, have, args>>
       ELSE Sets([args EXCEPT !.thrd = AtLeastOne(U16(Arg.num))]) /\ have' = have \cup {"thrd"}
  /\ UNCHANGED <<help, burst, fast, verbose, log_visible>>

\* Bursts need pipelining, and so does the fast mode.
OptBurst ==
  /\ Given({"b"}) /\ Sets([args EXCEPT !.enable_pipe = TRUE])
  /\ burst' = (LET b == U32(Arg.num)
               IN  IF b > MAX_NUM_GAP THEN MAX_NUM_GAP ELSE IF b = 0 THEN NUM_GAP ELSE b)
  /\ UNCHANGED <<help, have, fast, verbose, log_visible>>

OptFast ==
  /\ Given({"a"}) /\ Sets([args EXCEPT !.enable_pipe = TRUE]) /\ fast' = TRUE
  /\ UNCHANGED <<help, have, burst, verbose, log_visible>>

OptFlag ==
  /\ Given({"i", "N", "P"})
  /\ Sets([args EXCEPT !.enable_pipe    = @ \/ Arg.opt = "i",
                       !.use_non_block  = @ \/ Arg.opt = "N",
                       !.use_probe_mode = @ \/ Arg.opt = "P"])
  /\ UNCHANGED <<help, have, burst, fast, verbose, log_visible>>

OptOutput ==
  /\ Given({"v", "l"}) /\ Next1
  /\ verbose' = (verbose \/ Arg.opt = "v")
  /\ log_visible' = IF Arg.opt = "l" THEN Arg.num % 256 ELSE log_visible
  /\ UNCHANGED <<help, have, args, burst, fast>>

OptPort ==
  /\ Given({"p"}) /\ Sets([args EXCEPT !.port = U16(Arg.num)]) /\ have' = have \cup {"port"}
  /\ UNCHANGED <<help, burst, fast, verbose, log_visible>>

\* The first name of the table that begins with what was given, or 0.
get_req_header_name_enum_by_str(name) ==
  LET Matches == {k \in DOMAIN get_req_header_name_by_idx :
                    IsPrefix(name, get_req_header_name_by_idx[k])}
  IN  IF Matches = {} THEN 0 ELSE CHOOSE k \in Matches : \A j \in Matches : k <= j

\* A header of the table, or another one as long as there is room.
OptHeader ==
  /\ Given({"H"})
  /\ LET idx == get_req_header_name_enum_by_str(Arg.name)
     IN  Sets(IF idx > 0
                THEN [args EXCEPT !.dirty = @ \cup {idx}]
                ELSE [args EXCEPT !.other_field = IF @ < MAX_ARBIT_REQS THEN @ + 1 ELSE @])
  /\ UNCHANGED <<help, have, burst, fast, verbose, log_visible>>

\* -u steps back to its first operand and takes all up to the next "-": one
\* written into the same word as the option starts with "-", is not taken, and
\* is the next option again.  (The same with "--url=".)
OptUrl ==
  /\ Given({"u"}) /\ have' = have \cup {"url"}
  /\ IF Arg.attached
       THEN UNCHANGED <<argv, stage, optind, args>>
       ELSE Sets([args EXCEPT !.urls = @ \o Arg.urls])
  /\ UNCHANGED <<help, burst, fast, verbose, log_visible>>

OptFile ==
  /\ Given({"f"}) /\ Next1 /\ have' = have \cup {"file"}
  /\ UNCHANGED <<help, args, burst, fast, verbose, log_visible>>

\* -h, or an option whose value is missing; an unknown option ends kb at once.
OptHelp ==
  /\ Given({"h", "?"})
  /\ IF Arg.opt = "?" THEN stage' = "exit" /\ UNCHANGED <<argv, optind, help>>
                      ELSE Next1 /\ help' = TRUE
  /\ UNCHANGED <<have, args, burst, fast, verbose, log_visible>>

Option == \/ OptConn \/ OptNum \/ OptThread \/ OptBurst \/ OptFast \/ OptFlag \/ OptOutput \/ OptPort
          \/ OptHeader \/ OptUrl \/ OptFile \/ OptHelp

EndOfOptions ==
  /\ stage = "getopt" /\ optind > Len(argv)
  /\ stage' = IF help THEN "exit" ELSE "defaults"
  /\ UNCHANGED <<argv, optind, help, have, args, burst, fast, verbose, log_visible>>

-----------------------------------------------------------------------------
(* After the loop. *)

Rest == UNCHANGED <<argv, optind, help, have, burst, fast, verbose, log_visible>>

Defaults ==
  /\ stage = "defaults"
  /\ stage' = IF have \cap {"file", "url"} = {} THEN "exit" ELSE "limits"
  /\ args' = [args EXCEPT !.conn = IF "conn" \in have THEN @ ELSE 1,
                          !.reqs = IF "reqs" \in have THEN @ ELSE 2,
                          !.port = IF "port" \in have THEN @ ELSE DEFAULT_PORT,
                          !.thrd = IF "thrd" \notin have THEN 1
                                   ELSE IF @ > MAX_THREAD THEN MAX_THREAD ELSE @]
  /\ Rest

\* Mutant: the requests are made as many as the connections of one thread.
LimitsOfOne ==
  /\ stage = "limits"
  /\ IF U32(args.thrd * args.conn + args.thrd) > NOFILE - 10
       THEN stage' = "exit" /\ UNCHANGED args
       ELSE /\ stage' = IF "file" \in have THEN "exit" ELSE "url"
            /\ args' = [args EXCEPT !.reqs = IF @ < args.conn THEN args.conn ELSE @]
  /\ Rest

\* Descriptors, and at least one request for each connection; a template (-f)
\* is refused.
Limits ==
  /\ stage = "limits"
  /\ IF U32(args.thrd * args.conn + args.thrd) > NOFILE - 10
       THEN stage' = "exit" /\ UNCHANGED args
       ELSE /\ stage' = IF "file" \in have THEN "exit" ELSE "url"
            /\ args' = [args EXCEPT !.reqs = IF @ < U32(args.thrd * args.conn)
                                               THEN U32(args.thrd * args.conn) ELSE @]
  /\ Rest

NoUrl == /\ stage = "url" /\ args.urls = <<>> /\ stage' = "print"
         /\ UNCHANGED args /\ Rest

\* Mutant: https has its port, whatever -p says.
PortOfSsl(u) == IF u.port # -1 THEN U16(u.port)
                ELSE IF u.ssl THEN DEFAULT_SSL_PORT
                ELSE IF "port" \in have THEN args.port ELSE DEFAULT_PORT

\* parse_url and the port it returns: that of the URL, then -p, then the
\* scheme's.  (A port out of range has been cut to 16 bits, which the check of
\* -p does not see; for the URL's the way back to the original one is written
\* as a comparison.)
PortOf(u) == IF u.port # -1 THEN U16(u.port)
             ELSE IF "port" \in have THEN args.port
             ELSE IF u.ssl THEN DEFAULT_SSL_PORT ELSE DEFAULT_PORT

\* update_url_info_rand: any one of the URLs.
PickUrl ==
  /\ stage = "url"
  /\ \E k \in DOMAIN args.urls :
       LET u == args.urls[k]
       IN  IF u.long
             THEN stage' = "exit" /\ UNCHANGED args
             ELSE /\ stage' = "print"
                  /\ args' = [args EXCEPT !.url = u, !.port = PortOf(u), !.ret = 1]
  /\ Rest

\* print_config, now unless -v: the name of a level past the table is not there.
PrintConfig ==
  /\ stage = "print"
  /\ stage' \in (IF ~verbose /\ ~args.use_probe_mode /\ log_visible > LOG_LEVEL_MAXIMUM
                   THEN {"main", "fault"} ELSE {"main"})
  /\ UNCHANGED args /\ Rest

argparse == Option \/ EndOfOptions \/ Defaults \/ Limits \/ NoUrl \/ PickUrl \/ PrintConfig
Parsed   == stage \notin {"getopt", "defaults", "limits", "url", "print", "exit", "fault"}

-----------------------------------------------------------------------------
(* Properties *)

CmdTypeOK ==
  /\ optind \in 1..(Len(argv) + 1)
  /\ args.port \in 0..(U16_MOD - 1) /\ args.thrd \in 0..(U16_MOD - 1)
  /\ args.conn \in 0..(U32_MOD - 1) /\ args.reqs \in 0..(U32_MOD - 1)
  /\ args.other_field \in 0..MAX_ARBIT_REQS
  /\ burst \in 1..MAX_NUM_GAP

\* The descriptors of all threads can be counted in 32 bits.
Sane == args.thrd * args.conn + args.thrd < U32_MOD

\* Whatever options are given, in whatever order and however often, what main
\* goes on with is what the managers and the threads rely on: every connection
\* of every thread has a request to send, the descriptors suffice, and the
\* fast mode pipelines.  (argparse.c:268: "we need to calculate this and
\* constrain the total fd")
ArgsUsable ==
  Parsed /\ Sane =>
    /\ args.thrd \in 1..MAX_THREAD /\ args.conn >= 1
    /\ args.reqs >= args.thrd * args.conn
    /\ args.thrd * args.conn + args.thrd <= NOFILE - 10
    /\ fast => args.enable_pipe

\* The port is that of the URL that was picked; failing that, that of the last
\* -p, wherever it stands; failing that, that of the scheme (argparse.c:504:
\* "priority is lower than URL's port").  This is said of ports in range only.
Ports    == {k \in DOMAIN argv : argv[k].opt = "p"}
LastPort == argv[CHOOSE k \in Ports : \A j \in Ports : j <= k].num
Valid(p) == p \in 1..(U16_MOD - 1)
UrlLess  == IF Ports # {} THEN LastPort
            ELSE IF args.url.ssl THEN DEFAULT_SSL_PORT ELSE DEFAULT_PORT
PortRule ==
  Parsed /\ args.ret = 1 =>
    IF args.url.port # -1 THEN Valid(args.url.port) => args.port = args.url.port
                          ELSE Valid(UrlLess)       => args.port = UrlLess

\* A port out of range is refused when -p gives it (argparse.c:247: "Invalid
\* port-number"), and not used when the URL does (argparse.c:369: "rollback to
\* origin").  The code does neither.
PortChecked ==
  Parsed /\ args.ret = 1 =>
    /\ Ports # {} => LastPort \in 0..(U16_MOD - 1)
    /\ args.url.port # -1 => args.port = IF Valid(args.url.port) THEN args.url.port ELSE UrlLess

\* A header of the table is one the user has named (argparse.c:519: "Add request
\* header's field name and field value"); an abbreviation is taken for it, too.
HeaderByName ==
  \A k \in args.dirty : \E j \in DOMAIN argv :
    argv[j].opt = "H" /\ argv[j].name = get_req_header_name_by_idx[k]

\* Reading the command line comes to an end, however the value of -u is written:
\* getopt_long is told that it takes one (argparse.c:28, "required_argument").
ParsingEnds == <>(stage \notin {"getopt", "defaults", "limits", "url", "print"})
=============================================================================
