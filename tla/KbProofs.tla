------------------------------ MODULE KbProofs ------------------------------
(***************************************************************************)
(* What main gets from argparse, for every command line: usable sizes, and *)
(* the port of the highest priority; and what the probe mode says of a     *)
(* path, for any number of paths and whatever the server answers: the      *)
(* verdict of that path's own answer.                                      *)
(***************************************************************************)
EXTENDS Kb, PeerProofs

Stages == {"getopt", "defaults", "limits", "url", "print", "main", "probe", "loadgen", "exit", "fault"}
Fields == {"port", "thrd", "conn", "reqs", "urls", "url", "enable_pipe", "use_non_block",
           "use_probe_mode", "dirty", "other_field", "ret"}

\* The sizes as they are handed from one stage to the next.
SizesHeld ==
  /\ stage \in Stages /\ Fields \subseteq DOMAIN args
  /\ args.thrd \in Nat /\ args.conn \in Nat /\ args.reqs \in Nat
  /\ fast => args.enable_pipe
  /\ "conn" \in have => args.conn >= 1
  /\ "thrd" \in have => args.thrd >= 1
  /\ stage \notin {"getopt", "defaults", "exit", "fault"} => args.thrd \in 1..MAX_THREAD /\ args.conn >= 1
  /\ stage \notin {"getopt", "defaults", "limits", "exit", "fault"} =>
       /\ U32(args.thrd * args.conn + args.thrd) <= NOFILE - 10
       /\ args.reqs >= U32(args.thrd * args.conn)

\* k is the last -p before position n.
LastGiven(k, n) == /\ k \in DOMAIN argv /\ k < n /\ argv[k].opt = "p"
              /\ \A j \in DOMAIN argv : j < n /\ argv[j].opt = "p" => j <= k

PortOfOption == IF "port" \in have THEN \E k \in DOMAIN argv : LastGiven(k, optind) /\ args.port = U16(argv[k].num)
                ELSE \A j \in DOMAIN argv : j < optind => argv[j].opt # "p"

Ruled == args.ret = 1 =>
           args.port = IF args.url.port # -1 THEN U16(args.url.port)
                       ELSE IF Ports # {} THEN U16(LastPort)
                       ELSE IF args.url.ssl THEN DEFAULT_SSL_PORT ELSE DEFAULT_PORT

\* The port: that of the last -p so far, and then by the rule.
PortSoFar ==
  /\ argv \in Argvs /\ optind \in Nat \ {0}
  /\ stage \in {"getopt", "defaults"} => PortOfOption
  /\ stage \notin {"getopt", "exit"} => optind > Len(argv)
  /\ stage \in {"limits", "url"} =>
       PortOfOption /\ ("port" \notin have => args.port = DEFAULT_PORT)
  /\ stage \in {"getopt", "defaults", "limits", "url"} => args.ret = 0
  /\ stage \notin {"getopt", "defaults", "limits", "url", "exit", "fault"} => Ruled

KInv == SizesHeld /\ PortSoFar

-----------------------------------------------------------------------------
(* Numbers. *)

LEMMA CutNot == ASSUME NEW w \in Nat \ {0}, NEW n \in Nat, n < w PROVE n % w = n
  BY SMT

LEMMA Widths ==
  /\ U16_MOD \in Nat \ {0} /\ U32_MOD \in Nat \ {0} /\ MAX_THREAD \in Nat \ {0}
  /\ \A n \in Int : U16(n) \in Nat /\ U32(n) \in Nat
<1>1. U16_MOD \in Nat \ {0} /\ U32_MOD \in Nat \ {0} /\ MAX_THREAD \in Nat \ {0}
  BY CmdLineAssumption
<1>2. ASSUME NEW n \in Int PROVE U16(n) \in Nat /\ U32(n) \in Nat
  <2>1. n % U16_MOD \in 0..(U16_MOD - 1)
    BY <1>1, SMT
  <2>2. n % U32_MOD \in 0..(U32_MOD - 1)
    BY <1>1, SMT
  <2>. QED BY <1>1, <2>1, <2>2 DEF U16, U32
<1>. QED
  BY <1>1, <1>2

\* The option being read: a number where there has to be one.
LEMMA Reading ==
  ASSUME PortSoFar, NEW S, Given(S)
  PROVE  /\ stage = "getopt" /\ optind \in DOMAIN argv /\ argv[optind].opt \in S
         /\ Len(argv) \in Nat /\ DOMAIN argv = 1..Len(argv)
         /\ Arg.opt \in Numeric => Arg.num \in Int
<1>1. argv \in Argvs /\ optind \in Nat \ {0} /\ stage = "getopt" /\ optind <= Len(argv) /\ argv[optind].opt \in S
  BY DEF PortSoFar, Given
<1>. QED
  BY <1>1, CmdLineAssumption DEF Arg

-----------------------------------------------------------------------------
(* The sizes. *)

LEMMA OptionSizes == ASSUME KInv, Option PROVE SizesHeld'
<1> USE DEF KInv
<1>1. CASE OptConn
  <2>1. stage = "getopt" /\ (Arg.opt \in Numeric => Arg.num \in Int) /\ Arg.opt \in {"c"}
    BY <1>1, Reading DEF OptConn, Given, Arg
  <2>. QED BY <1>1, <2>1, Widths DEF OptConn, SizesHeld, Sets, Next1, Numeric, AtLeastOne, Stages, Fields
<1>2. CASE OptNum
  <2>1. stage = "getopt" /\ (Arg.opt \in Numeric => Arg.num \in Int) /\ Arg.opt \in {"n"}
    BY <1>2, Reading DEF OptNum, Given, Arg
  <2>. QED BY <1>2, <2>1, Widths DEF OptNum, SizesHeld, Sets, Next1, Numeric, AtLeastOne, Stages, Fields
<1>3. CASE OptThread
  <2>1. stage = "getopt" /\ (Arg.opt \in Numeric => Arg.num \in Int) /\ Arg.opt \in {"t"}
    BY <1>3, Reading DEF OptThread, Given, Arg
  <2>. QED BY <1>3, <2>1, Widths DEF OptThread, SizesHeld, Sets, Next1, Numeric, AtLeastOne, Stages, Fields
<1>4. CASE OptBurst
  <2>1. stage = "getopt" /\ (Arg.opt \in Numeric => Arg.num \in Int) /\ Arg.opt \in {"b"}
    BY <1>4, Reading DEF OptBurst, Given, Arg
  <2>. QED BY <1>4, <2>1, Widths DEF OptBurst, SizesHeld, Sets, Next1, Numeric, AtLeastOne, Stages, Fields
<1>5. CASE OptFast
  <2>1. stage = "getopt" /\ (Arg.opt \in Numeric => Arg.num \in Int) /\ Arg.opt \in {"a"}
    BY <1>5, Reading DEF OptFast, Given, Arg
  <2>. QED BY <1>5, <2>1, Widths DEF OptFast, SizesHeld, Sets, Next1, Numeric, AtLeastOne, Stages, Fields
<1>6. CASE OptFlag
  <2>1. stage = "getopt" /\ (Arg.opt \in Numeric => Arg.num \in Int) /\ Arg.opt \in {"i", "N", "P"}
    BY <1>6, Reading DEF OptFlag, Given, Arg
  <2>. QED BY <1>6, <2>1, Widths DEF OptFlag, SizesHeld, Sets, Next1, Numeric, AtLeastOne, Stages, Fields
<1>7. CASE OptOutput
  <2>1. stage = "getopt" /\ (Arg.opt \in Numeric => Arg.num \in Int) /\ Arg.opt \in {"v", "l"}
    BY <1>7, Reading DEF OptOutput, Given, Arg
  <2>. QED BY <1>7, <2>1, Widths DEF OptOutput, SizesHeld, Sets, Next1, Numeric, AtLeastOne, Stages, Fields
<1>8. CASE OptPort
  <2>1. stage = "getopt" /\ (Arg.opt \in Numeric => Arg.num \in Int) /\ Arg.opt \in {"p"}
    BY <1>8, Reading DEF OptPort, Given, Arg
  <2>. QED BY <1>8, <2>1, Widths DEF OptPort, SizesHeld, Sets, Next1, Numeric, AtLeastOne, Stages, Fields
<1>9. CASE OptHeader
  <2>1. stage = "getopt" /\ (Arg.opt \in Numeric => Arg.num \in Int) /\ Arg.opt \in {"H"}
    BY <1>9, Reading DEF OptHeader, Given, Arg
  <2>. QED BY <1>9, <2>1, Widths DEF OptHeader, SizesHeld, Sets, Next1, Numeric, AtLeastOne, Stages, Fields
<1>10. CASE OptUrl
  <2>1. stage = "getopt" /\ (Arg.opt \in Numeric => Arg.num \in Int) /\ Arg.opt \in {"u"}
    BY <1>10, Reading DEF OptUrl, Given, Arg
  <2>. QED BY <1>10, <2>1, Widths DEF OptUrl, SizesHeld, Sets, Next1, Numeric, AtLeastOne, Stages, Fields
<1>11. CASE OptFile
  <2>1. stage = "getopt" /\ (Arg.opt \in Numeric => Arg.num \in Int) /\ Arg.opt \in {"f"}
    BY <1>11, Reading DEF OptFile, Given, Arg
  <2>. QED BY <1>11, <2>1, Widths DEF OptFile, SizesHeld, Sets, Next1, Numeric, AtLeastOne, Stages, Fields
<1>12. CASE OptHelp
  <2>1. stage = "getopt" /\ (Arg.opt \in Numeric => Arg.num \in Int) /\ Arg.opt \in {"h", "?"}
    BY <1>12, Reading DEF OptHelp, Given, Arg
  <2>. QED BY <1>12, <2>1, Widths DEF OptHelp, SizesHeld, Sets, Next1, Numeric, AtLeastOne, Stages, Fields
<1>. QED
  BY <1>1, <1>2, <1>3, <1>4, <1>5, <1>6, <1>7, <1>8, <1>9, <1>10, <1>11, <1>12 DEF Option

LEMMA argparseSizes == ASSUME KInv, argparse PROVE SizesHeld'
<1> USE DEF KInv
<1>1. CASE Option
  BY <1>1, OptionSizes
<1>2. CASE EndOfOptions
  BY <1>2 DEF EndOfOptions, SizesHeld, Stages
<1>3. CASE Defaults
  BY <1>3, Widths DEF Defaults, Rest, SizesHeld, Stages, Fields
<1>4. CASE Limits
  <2> DEFINE all == U32(args.thrd * args.conn)
             fds == U32(args.thrd * args.conn + args.thrd)
  <2>1. all \in Nat /\ fds \in Nat /\ NOFILE \in Nat
    <3>1. args.thrd * args.conn \in Int /\ args.thrd * args.conn + args.thrd \in Int
      BY DEF SizesHeld
    <3>. QED BY <3>1, Widths, CmdLineAssumption
  <2>2. /\ stage = "limits" /\ UNCHANGED <<have, fast>>
        /\ \/ stage' = "exit" /\ UNCHANGED args
           \/ /\ fds <= NOFILE - 10 /\ stage' \in {"exit", "url"}
              /\ args' = [args EXCEPT !.reqs = IF @ < all THEN all ELSE @]
    BY <1>4, <2>1 DEF Limits, Rest
  <2>3. args'.thrd = args.thrd /\ args'.conn = args.conn /\ args'.enable_pipe = args.enable_pipe
        /\ DOMAIN args' = DOMAIN args /\ args'.reqs \in Nat
        /\ (args'.reqs >= all \/ stage' = "exit")
    <3> HIDE DEF all, fds
    <3>. QED BY <2>1, <2>2 DEF SizesHeld, Fields
  <2>4. all' = all /\ fds' = fds
    BY <2>3 DEF U32
  <2>5. stage' \notin {"exit"} => fds' <= NOFILE - 10 /\ args'.reqs >= all'
    <3> HIDE DEF all, fds
    <3>. QED BY <2>2, <2>3, <2>4
  <2>6. stage' \notin {"exit"} => U32(args.thrd * args.conn + args.thrd)' <= NOFILE - 10
                                 /\ args'.reqs >= U32(args.thrd * args.conn)'
    BY <2>5
  <2>. QED BY <2>2, <2>3, <2>6 DEF SizesHeld, Stages
<1>5. CASE NoUrl \/ PrintConfig
  BY <1>5 DEF NoUrl, PrintConfig, Rest, SizesHeld, Stages
<1>6. CASE PickUrl
  <2>1. PICK k \in DOMAIN args.urls :
          \/ stage' = "exit" /\ UNCHANGED args
          \/ /\ stage' = "print"
             /\ args' = [args EXCEPT !.url = args.urls[k], !.port = PortOf(args.urls[k]), !.ret = 1]
    BY <1>6 DEF PickUrl
  <2>2. /\ DOMAIN args' = DOMAIN args /\ args'.thrd = args.thrd /\ args'.conn = args.conn
        /\ args'.reqs = args.reqs /\ args'.enable_pipe = args.enable_pipe
    BY <2>1 DEF SizesHeld, Fields
  <2>. QED BY <1>6, <2>1, <2>2 DEF PickUrl, Rest, SizesHeld, Stages, U32
<1>. QED
  BY <1>1, <1>2, <1>3, <1>4, <1>5, <1>6 DEF argparse

-----------------------------------------------------------------------------
(* The port. *)

\* What a step without -p keeps.
LEMMA PortFrame ==
  ASSUME KInv, stage = "getopt", optind \in DOMAIN argv, argv[optind].opt # "p",
         UNCHANGED <<argv, args.port, args.ret>>, ("port" \in have') <=> ("port" \in have),
         \/ stage' = "getopt" /\ optind' \in {optind, optind + 1}
         \/ stage' = "exit" /\ UNCHANGED optind
  PROVE  PortSoFar'
<1>1. optind \in Nat \ {0} /\ argv \in Argvs /\ DOMAIN argv \subseteq Nat
  BY CmdLineAssumption DEF KInv, PortSoFar
<1>2. args'.ret = 0
  BY DEF KInv, PortSoFar
<1>3. PortOfOption'
  <2>1. \A j \in DOMAIN argv : j < optind' /\ argv[j].opt = "p" => j < optind
    BY <1>1
  <2>2. \A k \in DOMAIN argv : LastGiven(k, optind) => LastGiven(k, optind)'
    BY <1>1, <2>1 DEF LastGiven
  <2>. QED BY <1>1, <2>1, <2>2 DEF KInv, PortSoFar, PortOfOption
<1>. QED
  BY <1>1, <1>2, <1>3 DEF KInv, PortSoFar

LEMMA OptionPort == ASSUME KInv, Option PROVE PortSoFar'
<1> USE DEF KInv
<1>0. Fields \subseteq DOMAIN args
  BY DEF SizesHeld
<1>1. CASE OptConn
  <2>1. stage = "getopt" /\ optind \in DOMAIN argv /\ argv[optind].opt # "p"
    BY <1>1, Reading DEF OptConn, Given, Arg
  <2>2. /\ UNCHANGED <<argv, args.port, args.ret>> /\ (("port" \in have') <=> ("port" \in have))
        /\ \/ stage' = "getopt" /\ optind' \in {optind, optind + 1}
           \/ stage' = "exit" /\ UNCHANGED optind
    BY <1>0, <1>1, <2>1 DEF OptConn, Sets, Next1, Fields
  <2>. QED BY <2>1, <2>2, PortFrame
<1>2. CASE OptNum
  <2>1. stage = "getopt" /\ optind \in DOMAIN argv /\ argv[optind].opt # "p"
    BY <1>2, Reading DEF OptNum, Given, Arg
  <2>2. /\ UNCHANGED <<argv, args.port, args.ret>> /\ (("port" \in have') <=> ("port" \in have))
        /\ \/ stage' = "getopt" /\ optind' \in {optind, optind + 1}
           \/ stage' = "exit" /\ UNCHANGED optind
    BY <1>0, <1>2, <2>1 DEF OptNum, Sets, Next1, Fields
  <2>. QED BY <2>1, <2>2, PortFrame
<1>3. CASE OptThread
  <2>1. stage = "getopt" /\ optind \in DOMAIN argv /\ argv[optind].opt # "p"
    BY <1>3, Reading DEF OptThread, Given, Arg
  <2>2. /\ UNCHANGED <<argv, args.port, args.ret>> /\ (("port" \in have') <=> ("port" \in have))
        /\ \/ stage' = "getopt" /\ optind' \in {optind, optind + 1}
           \/ stage' = "exit" /\ UNCHANGED optind
    BY <1>0, <1>3, <2>1 DEF OptThread, Sets, Next1, Fields
  <2>. QED BY <2>1, <2>2, PortFrame
<1>4. CASE OptBurst
  <2>1. stage = "getopt" /\ optind \in DOMAIN argv /\ argv[optind].opt # "p"
    BY <1>4, Reading DEF OptBurst, Given, Arg
  <2>2. /\ UNCHANGED <<argv, args.port, args.ret>> /\ (("port" \in have') <=> ("port" \in have))
        /\ \/ stage' = "getopt" /\ optind' \in {optind, optind + 1}
           \/ stage' = "exit" /\ UNCHANGED optind
    BY <1>0, <1>4, <2>1 DEF OptBurst, Sets, Next1, Fields
  <2>. QED BY <2>1, <2>2, PortFrame
<1>5. CASE OptFast
  <2>1. stage = "getopt" /\ optind \in DOMAIN argv /\ argv[optind].opt # "p"
    BY <1>5, Reading DEF OptFast, Given, Arg
  <2>2. /\ UNCHANGED <<argv, args.port, args.ret>> /\ (("port" \in have') <=> ("port" \in have))
        /\ \/ stage' = "getopt" /\ optind' \in {optind, optind + 1}
           \/ stage' = "exit" /\ UNCHANGED optind
    BY <1>0, <1>5, <2>1 DEF OptFast, Sets, Next1, Fields
  <2>. QED BY <2>1, <2>2, PortFrame
<1>6. CASE OptFlag
  <2>1. stage = "getopt" /\ optind \in DOMAIN argv /\ argv[optind].opt # "p"
    BY <1>6, Reading DEF OptFlag, Given, Arg
  <2>2. /\ UNCHANGED <<argv, args.port, args.ret>> /\ (("port" \in have') <=> ("port" \in have))
        /\ \/ stage' = "getopt" /\ optind' \in {optind, optind + 1}
           \/ stage' = "exit" /\ UNCHANGED optind
    BY <1>0, <1>6, <2>1 DEF OptFlag, Sets, Next1, Fields
  <2>. QED BY <2>1, <2>2, PortFrame
<1>7. CASE OptOutput
  <2>1. stage = "getopt" /\ optind \in DOMAIN argv /\ argv[optind].opt # "p"
    BY <1>7, Reading DEF OptOutput, Given, Arg
  <2>2. /\ UNCHANGED <<argv, args.port, args.ret>> /\ (("port" \in have') <=> ("port" \in have))
        /\ \/ stage' = "getopt" /\ optind' \in {optind, optind + 1}
           \/ stage' = "exit" /\ UNCHANGED optind
    BY <1>0, <1>7, <2>1 DEF OptOutput, Sets, Next1, Fields
  <2>. QED BY <2>1, <2>2, PortFrame
<1>8. CASE OptPort
  <2>1. /\ stage = "getopt" /\ optind \in DOMAIN argv /\ argv[optind].opt = "p" /\ Arg = argv[optind]
        /\ DOMAIN argv = 1..Len(argv) /\ Len(argv) \in Nat
    BY <1>8, Reading DEF OptPort, Given, Arg
  <2>2. /\ stage' = "getopt" /\ argv' = argv /\ optind' = optind + 1 /\ have' = have \cup {"port"}
        /\ args'.port = U16(argv[optind].num) /\ args'.ret = args.ret
    BY <1>0, <1>8, <2>1 DEF OptPort, Sets, Next1, Fields
  <2>3. \E k \in DOMAIN argv : k = optind /\ LastGiven(k, optind)'
    BY <2>1, <2>2 DEF LastGiven
  <2>4. PortOfOption'
    BY <2>1, <2>2, <2>3 DEF PortOfOption
  <2>. QED BY <2>1, <2>2, <2>4 DEF PortSoFar
<1>9. CASE OptHeader
  <2>1. stage = "getopt" /\ optind \in DOMAIN argv /\ argv[optind].opt # "p"
    BY <1>9, Reading DEF OptHeader, Given, Arg
  <2>2. /\ UNCHANGED <<argv, args.port, args.ret>> /\ (("port" \in have') <=> ("port" \in have))
        /\ \/ stage' = "getopt" /\ optind' \in {optind, optind + 1}
           \/ stage' = "exit" /\ UNCHANGED optind
    BY <1>0, <1>9, <2>1 DEF OptHeader, Sets, Next1, Fields
  <2>. QED BY <2>1, <2>2, PortFrame
<1>10. CASE OptUrl
  <2>1. stage = "getopt" /\ optind \in DOMAIN argv /\ argv[optind].opt # "p"
    BY <1>10, Reading DEF OptUrl, Given, Arg
  <2>2. /\ UNCHANGED <<argv, args.port, args.ret>> /\ (("port" \in have') <=> ("port" \in have))
        /\ \/ stage' = "getopt" /\ optind' \in {optind, optind + 1}
           \/ stage' = "exit" /\ UNCHANGED optind
    BY <1>0, <1>10, <2>1 DEF OptUrl, Sets, Next1, Fields
  <2>. QED BY <2>1, <2>2, PortFrame
<1>11. CASE OptFile
  <2>1. stage = "getopt" /\ optind \in DOMAIN argv /\ argv[optind].opt # "p"
    BY <1>11, Reading DEF OptFile, Given, Arg
  <2>2. /\ UNCHANGED <<argv, args.port, args.ret>> /\ (("port" \in have') <=> ("port" \in have))
        /\ \/ stage' = "getopt" /\ optind' \in {optind, optind + 1}
           \/ stage' = "exit" /\ UNCHANGED optind
    BY <1>0, <1>11, <2>1 DEF OptFile, Sets, Next1, Fields
  <2>. QED BY <2>1, <2>2, PortFrame
<1>12. CASE OptHelp
  <2>1. stage = "getopt" /\ optind \in DOMAIN argv /\ argv[optind].opt # "p"
    BY <1>12, Reading DEF OptHelp, Given, Arg
  <2>2. /\ UNCHANGED <<argv, args.port, args.ret>> /\ (("port" \in have') <=> ("port" \in have))
        /\ \/ stage' = "getopt" /\ optind' \in {optind, optind + 1}
           \/ stage' = "exit" /\ UNCHANGED optind
    BY <1>0, <1>12, <2>1 DEF OptHelp, Sets, Next1, Fields
  <2>. QED BY <2>1, <2>2, PortFrame
<1>. QED
  BY <1>1, <1>2, <1>3, <1>4, <1>5, <1>6, <1>7, <1>8, <1>9, <1>10, <1>11, <1>12 DEF Option

\* With all options read, the last -p of all is the last so far.
LEMMA LastOfAll ==
  ASSUME PortSoFar, PortOfOption, optind > Len(argv)
  PROVE  /\ ("port" \in have) <=> (Ports # {})
         /\ "port" \in have => args.port = U16(LastPort)
<1>1. Len(argv) \in Nat /\ DOMAIN argv = 1..Len(argv) /\ optind \in Nat
  BY CmdLineAssumption DEF PortSoFar
<1>2. \A k \in DOMAIN argv : k < optind
  BY <1>1
<1>3. CASE "port" \in have
  <2>1. PICK k \in DOMAIN argv : LastGiven(k, optind) /\ args.port = U16(argv[k].num)
    BY <1>3 DEF PortOfOption
  <2>2. k \in Ports /\ \A j \in Ports : j <= k
    BY <1>2, <2>1 DEF LastGiven, Ports
  <2>3. \A l \in Ports : (\A j \in Ports : j <= l) => l = k
    BY <1>1, <2>2 DEF Ports
  <2>4. LastPort = argv[k].num
    BY <2>2, <2>3 DEF LastPort
  <2>. QED BY <1>3, <2>1, <2>2, <2>4
<1>4. CASE "port" \notin have
  BY <1>2, <1>4 DEF PortOfOption, Ports
<1>. QED
  BY <1>3, <1>4

LEMMA argparsePort == ASSUME KInv, argparse PROVE PortSoFar'
<1> USE DEF KInv
<1>0. Fields \subseteq DOMAIN args
  BY DEF SizesHeld
<1>a. ASSUME UNCHANGED <<argv, optind, have, args.port>> PROVE PortOfOption => PortOfOption'
  BY <1>a DEF PortOfOption, LastGiven
<1>1. CASE Option
  BY <1>1, OptionPort
<1>2. CASE EndOfOptions
  BY <1>2, <1>a DEF EndOfOptions, PortSoFar
<1>3. CASE Defaults
  <2>1. /\ UNCHANGED <<argv, optind, have>> /\ stage = "defaults" /\ stage' \in {"exit", "limits"}
        /\ args'.ret = args.ret
        /\ args'.port = IF "port" \in have THEN args.port ELSE DEFAULT_PORT
    BY <1>0, <1>3 DEF Defaults, Rest, Fields
  <2>2. PortOfOption'
    BY <2>1 DEF PortSoFar, PortOfOption, LastGiven
  <2>. QED BY <2>1, <2>2 DEF PortSoFar
<1>4. CASE Limits
  <2>1. /\ UNCHANGED <<argv, optind, have>> /\ stage = "limits" /\ stage' \in {"exit", "url"}
        /\ args'.ret = args.ret /\ args'.port = args.port
    BY <1>0, <1>4 DEF Limits, Rest, Fields
  <2>. QED BY <1>a, <2>1 DEF PortSoFar
<1>5. CASE NoUrl
  BY <1>5 DEF NoUrl, Rest, PortSoFar, Ruled
<1>6. CASE PickUrl
  <2>1. /\ UNCHANGED <<argv, optind, have>> /\ stage = "url" /\ Ports' = Ports /\ LastPort' = LastPort
    BY <1>6 DEF PickUrl, Rest, Ports, LastPort
  <2>2. CASE stage' = "exit"
    BY <2>1, <2>2 DEF PortSoFar
  <2>3. CASE stage' # "exit"
    <3>1. PICK k \in DOMAIN args.urls :
            /\ stage' = "print"
            /\ args' = [args EXCEPT !.url = args.urls[k], !.port = PortOf(args.urls[k]), !.ret = 1]
      BY <1>6, <2>3 DEF PickUrl
    <3> DEFINE u == args.urls[k]
    <3>2. args'.url = u /\ args'.port = PortOf(u)
      BY <1>0, <3>1 DEF Fields
    <3>3. /\ ("port" \in have) <=> (Ports # {})
          /\ "port" \in have => args.port = U16(LastPort)
      BY <2>1, LastOfAll DEF PortSoFar
    <3>4. Ruled'
      BY <2>1, <3>2, <3>3 DEF Ruled, PortOf, U16
    <3>. QED BY <2>1, <3>1, <3>4 DEF PortSoFar
  <2>. QED BY <2>2, <2>3
<1>7. CASE PrintConfig
  <2>1. UNCHANGED <<argv, optind, have, args>> /\ stage = "print" /\ stage' \in {"main", "fault"}
    BY <1>7 DEF PrintConfig, Rest
  <2>2. Ruled'
    BY <2>1 DEF PortSoFar, Ruled, Ports, LastPort, U16
  <2>. QED BY <2>1, <2>2 DEF PortSoFar
<1>. QED
  BY <1>1, <1>2, <1>3, <1>4, <1>5, <1>6, <1>7 DEF argparse

-----------------------------------------------------------------------------
(* The whole of kb. *)

LEMMA KbInit == ASSUME Init PROVE KInv
<1>1. SizesHeld
  BY DEF Init, CmdInit, SizesHeld, Stages, Fields
<1>2. PortSoFar
  BY CmdLineAssumption DEF Init, CmdInit, PortSoFar, PortOfOption
<1>. QED
  BY <1>1, <1>2 DEF KInv

LEMMA KbNext == ASSUME KInv, [Next]_vars PROVE KInv'
<1> USE DEF KInv
<1>1. CASE argparse
  BY <1>1, argparseSizes, argparsePort
<1>2. CASE SelectMode
  <2>1. UNCHANGED <<argv, optind, have, args, fast>> /\ stage = "main" /\ stage' \in {"probe", "loadgen"}
    BY <1>2 DEF SelectMode, Rest
  <2>2. Ruled'
    BY <2>1 DEF PortSoFar, Ruled, Ports, LastPort, U16
  <2>3. PortSoFar'
    BY <2>1, <2>2 DEF PortSoFar
  <2>4. SizesHeld'
    BY <2>1 DEF SizesHeld, Stages, U32
  <2>. QED BY <2>3, <2>4
<1>3. CASE UNCHANGED cmdVars
  <2>1. UNCHANGED <<argv, optind, have, args, fast, stage>>
    BY <1>3 DEF cmdVars
  <2>2. (PortOfOption => PortOfOption') /\ (Ruled => Ruled')
    BY <2>1 DEF PortOfOption, LastGiven, Ruled, Ports, LastPort, U16
  <2>3. PortSoFar'
    BY <2>1, <2>2 DEF PortSoFar
  <2>4. SizesHeld'
    BY <2>1 DEF SizesHeld, U32
  <2>. QED BY <2>3, <2>4
<1>. QED
  BY <1>1, <1>2, <1>3 DEF Next, ParseArgs, Probing, Server, Network, Stop, vars

\* The sizes and the port as every stage of argparse hands them on.
THEOREM CommandLine == Spec => []KInv
<1>1. Init => KInv
  BY KbInit
<1>2. KInv /\ [Next]_vars => KInv'
  BY KbNext
<1>. QED
  BY <1>1, <1>2, PTL DEF Spec

\* Whatever the options, their order and their numbers, what argparse hands to
\* main is what the managers and the threads rely on, as long as the descriptors
\* can be counted in 32 bits (argparse.c).
THEOREM ArgumentsUsable == Spec => []ArgsUsable
<1>1. ASSUME KInv, Parsed, Sane
      PROVE  /\ args.thrd \in 1..MAX_THREAD /\ args.conn >= 1
             /\ args.reqs >= args.thrd * args.conn
             /\ args.thrd * args.conn + args.thrd <= NOFILE - 10
             /\ fast => args.enable_pipe
  <2> DEFINE p == args.thrd * args.conn
  <2>1. /\ args.thrd \in 1..MAX_THREAD /\ args.conn >= 1 /\ (fast => args.enable_pipe)
        /\ U32(p + args.thrd) <= NOFILE - 10 /\ args.reqs >= U32(p)
    BY <1>1 DEF KInv, SizesHeld, Parsed
  <2>2. p \in Nat /\ p + args.thrd < U32_MOD /\ args.thrd \in Nat /\ U32_MOD \in Nat \ {0}
    BY <1>1, Widths DEF KInv, SizesHeld, Sane
  <2> HIDE DEF p
  <2>3. U32(p + args.thrd) = p + args.thrd
    <3>1. p + args.thrd \in Nat
      BY <2>2
    <3>. QED BY <2>2, <3>1, CutNot DEF U32
  <2>4. U32(p) = p
    <3>1. p < U32_MOD
      BY <2>2
    <3>. QED BY <2>2, <3>1, CutNot DEF U32
  <2>. QED BY <2>1, <2>3, <2>4 DEF p
<1>2. KInv => ArgsUsable
  BY <1>1 DEF ArgsUsable
<1>. QED
  BY <1>2, CommandLine, PTL

\* Wherever -p stands and however often, the port is that of the URL, or of the
\* last -p, or of the scheme, in this order, if it is in range (parse_url,
\* update_url_info_rand).
THEOREM PortPriority == Spec => []PortRule
<1>1. KInv => PortRule
  <2>1. SUFFICES ASSUME Ruled, args.ret = 1
                 PROVE  IF args.url.port # -1 THEN Valid(args.url.port) => args.port = args.url.port
                                              ELSE Valid(UrlLess)       => args.port = UrlLess
    BY DEF KInv, PortSoFar, PortRule, Parsed
  <2>2. \A p : Valid(p) => U16(p) = p
    <3>1. SUFFICES ASSUME NEW p, Valid(p) PROVE U16(p) = p
      OBVIOUS
    <3>2. U16_MOD \in Nat \ {0} /\ p \in Nat /\ p < U16_MOD
      BY <3>1, Widths DEF Valid
    <3>. QED BY <3>2, CutNot DEF U16
  <2>3. CASE args.url.port # -1
    BY <2>1, <2>2, <2>3 DEF Ruled
  <2>4. CASE args.url.port = -1
    BY <2>1, <2>2, <2>4 DEF Ruled, UrlLess
  <2>. QED BY <2>3, <2>4
<1>. QED
  BY <1>1, CommandLine, PTL

-----------------------------------------------------------------------------
(* The probe mode. *)

\* What the answer of a path makes of it.
Deserved(k) == CASE k \in {"ok", "empty", "close", "redirect"} -> "found"
                 [] k \in {"keep4", "close4", "err5"}          -> "missed"
                 [] OTHER                                      -> "neither"

\* The requests the server has, or will have, to answer.
Asked(s) == s.srv + Occurrences(s.wire, {ReqSize})

\* What the driver has still to read.
Left     == sm[0].buf \o net[0].rx
Wants(n) == call \in [num_reqs : {n}, fin_resp : Nat, rcode : {"NONE"}]

\* A connection on which nothing has come yet, and before that, nothing was asked.
Untouched == answer[i] = "none" /\ sm[0] = CleanParser /\ net[0].rx = <<>>
Quiet     == Untouched /\ net[0].err = "NONE" /\ Asked(net[0]) = 0
Waits     == Untouched /\ net[0].tcp = "ESTABLISHED" /\ Asked(net[0]) <= 1 /\ Wants(1)

\* The one answer has come, and no other will.
Heard  == answer[i] \in HeadKinds /\ Asked(net[0]) = 0 /\ net[0].tcp \in {"ESTABLISHED", "CLOSE_WAIT"}
AtHead == Wants(1) /\ sm[0].p_state = "VER" /\ Left = Message(answer[i])
AtBody == Wants(1) /\ sm[0].p_state = "BODY" /\ Left = <<"body">> /\ answer[i] \in {"ok", "close"}
AtEnd  == Wants(0) /\ Left = <<>> /\ answer[i] \in {"ok", "close", "empty"}

\* The probe of a path whose connection is not lost.
Probed ==
  /\ pc = "connect" => Quiet /\ net[0].tcp \in {"SYN_SENT", "ESTABLISHED"}
  /\ pc = "send" => Quiet /\ net[0].tcp = "ESTABLISHED" /\ fd
  /\ pc = "parse" => Waits \/ (Heard /\ (AtHead \/ AtBody \/ AtEnd))
  /\ pc = "dispatch" => Heard /\ VerdictOf(call.rcode) = Deserved(answer[i])
  /\ pc = "close" => Heard /\ verdict[i] = Deserved(answer[i])

ProbeTyped ==
  /\ net \in [Conns -> Socket] /\ sm \in [Conns -> Drv!Parser]
  /\ pc \in {"connect", "send", "parse", "dispatch", "close", "end", "killed"}
  /\ i \in Nat /\ (pc # "end" => i \in Uris)
  /\ answer \in [Uris -> HeadKinds \cup {"none"}]
  /\ verdict \in [Uris -> {"none", "found", "missed", "neither"}]
  /\ lost \subseteq Uris

\* The paths not probed yet, and those judged.
Ahead  == \A u \in Uris : u > i => answer[u] = "none" /\ u \notin lost
Judged == \A u \in Uris \ lost : verdict[u] # "none" =>
            /\ verdict[u] = Deserved(answer[u])
            /\ u < i \/ (u = i /\ pc = "close")

ProbeInv == ProbeTyped /\ Ahead /\ Judged /\ (pc # "end" /\ i \notin lost => Probed)

LEMMA OneConn == Conns = {0}
BY ProbeAssumption DEF Conns

LEMMA AskedType ==
  ASSUME NEW s \in Socket
  PROVE  /\ Asked(s) \in Nat /\ s.srv \in Nat /\ s.srv <= Asked(s) /\ s.rx \in Seq(Tokens)
         /\ Occurrences(s.wire, {ReqSize}) \in Nat
<1>1. s.srv \in Nat /\ Occurrences(s.wire, {ReqSize}) \in Nat /\ s.rx \in Seq(Tokens)
  BY ToComeType
<1>. QED BY <1>1 DEF Asked

LEMMA AskedToCome ==
  ASSUME NEW s \in Socket, NEW t \in Socket, t.rx = s.rx, NEW n \in Nat,
         ToCome(t, HeadKinds) <= ToCome(s, HeadKinds) + n
  PROVE  Asked(t) <= Asked(s) + n
<1>1. Occurrences(s.rx, HeadKinds) \in Nat /\ Asked(s) \in Nat /\ Asked(t) \in Nat
  BY AskedType, ToComeType
<1>2. ToCome(t, HeadKinds) = Occurrences(s.rx, HeadKinds) + Asked(t)
  <2>1. t.srv \in Nat /\ Occurrences(t.wire, {ReqSize}) \in Nat
    BY ToComeType
  <2>. QED BY <1>1, <2>1 DEF ToCome, Asked
<1>3. ToCome(s, HeadKinds) = Occurrences(s.rx, HeadKinds) + Asked(s)
  <2>1. s.srv \in Nat /\ Occurrences(s.wire, {ReqSize}) \in Nat
    BY ToComeType
  <2>. QED BY <1>1, <2>1 DEF ToCome, Asked
<1>. QED BY <1>1, <1>2, <1>3

LEMMA NewQuiet == NewSocket \in Socket /\ NewSocket.rx = <<>> /\ NewSocket.tcp = "SYN_SENT"
                  /\ NewSocket.err = "NONE" /\ Asked(NewSocket) = 0
<1>1. Occurrences(<<>>, {ReqSize}) = 0
  BY OccEmpty
<1>. QED BY <1>1, NewSocketType DEF NewSocket, Asked

LEMMA MessageParts ==
  ASSUME NEW k \in HeadKinds
  PROVE  /\ Message(k) # <<>> /\ Head(Message(k)) = k
         /\ Tail(Message(k)) = IF k = "empty" THEN <<>> ELSE <<"body">>
BY DEF Message

\* The driver has the network and the parser of the probe mode.
LEMMA SameWorld ==
  /\ Drv!Tokens = Tokens /\ Drv!HeadKinds = HeadKinds /\ Drv!ParserStates = ParserStates
  /\ Drv!CleanParser = CleanParser
  /\ \A m, t : Drv!Parse(m, t) = Parse(m, t)
  /\ \A m : Drv!ResetParser(m) = CleanParser
  /\ \A s : Drv!AtEof(s) = AtEof(s) /\ Drv!RecvFails(s) = RecvFails(s) /\ Drv!AfterError(s) = AfterError(s)
  /\ Drv!Parser = [buf : Seq(Tokens), p_state : ParserStates, is_close : BOOLEAN,
                   status : HeadKinds \cup {"none"}]
<1>1. Drv!Tokens = Tokens /\ Drv!HeadKinds = HeadKinds /\ Drv!ParserStates = ParserStates
  BY DEF Drv!Tokens, Tokens, Drv!HeadKinds, HeadKinds, Drv!ParserStates, ParserStates
<1>2. Drv!CleanParser = CleanParser
  BY DEF Drv!CleanParser, CleanParser
<1>3. ASSUME NEW m, NEW t PROVE Drv!Parse(m, t) = Parse(m, t)
  BY DEF Drv!Parse, Parse, Drv!Outcome, Outcome
<1>4. ASSUME NEW m PROVE Drv!ResetParser(m) = CleanParser
  BY <1>2 DEF Drv!ResetParser
<1>5. ASSUME NEW s
      PROVE  Drv!AtEof(s) = AtEof(s) /\ Drv!RecvFails(s) = RecvFails(s) /\ Drv!AfterError(s) = AfterError(s)
  BY DEF Drv!AtEof, AtEof, Drv!RecvFails, RecvFails, Drv!AfterError, AfterError
<1>. QED BY <1>1, <1>2, <1>3, <1>4, <1>5 DEF Drv!Parser

\* A driver step leaves everything but its own.
LEMMA DriverTyped ==
  ASSUME ProbeTyped, Driver
  PROVE  /\ pc = "parse" /\ pc' \in {"parse", "dispatch"}
         /\ UNCHANGED <<i, fd, verdict, answer, lost, faults>>
         /\ net' \in [Conns -> Socket] /\ sm' \in [Conns -> Drv!Parser]
<1>0. 0 \in Conns /\ net[0] \in Socket /\ sm[0] \in Drv!Parser
  BY OneConn DEF ProbeTyped
<1>1. pc = "parse" /\ UNCHANGED <<i, fd, verdict, answer, lost, faults>>
  BY DEF Driver, Drv!Receiving, Drv!ParseToken, Drv!ParseFinish, Drv!NothingExpected, Drv!Recv,
         Drv!RecvEof, Drv!RecvError, Drv!Parsing
<1>2. pc' \in {"parse", "dispatch"}
  BY <1>1 DEF Driver, Drv!Receiving, Drv!ParseToken, Drv!ParseFinish, Drv!NothingExpected, Drv!Recv,
         Drv!RecvEof, Drv!RecvError, Drv!Returns
<1>3. \/ UNCHANGED net
      \/ Drv!Recv
      \/ net' = [net EXCEPT ![0] = AfterError(@)]
  BY DEF Driver, Drv!Receiving, Drv!ParseToken, Drv!ParseFinish, Drv!NothingExpected,
         Drv!RecvEof, Drv!RecvError
<1>4. net' \in [Conns -> Socket]
  <2>1. CASE Drv!Recv
    <3>1. PICK n \in 1..Len(net[0].rx) : net' = [net EXCEPT ![0].rx = SubSeq(@, n + 1, Len(@))]
      BY <2>1 DEF Drv!Recv
    <3> DEFINE r == SubSeq(net[0].rx, n + 1, Len(net[0].rx))
    <3>2. net' = [net EXCEPT ![0] = [@ EXCEPT !.rx = r]]
      BY <3>1
    <3>3. net[0].rx \in Seq(Tokens)
      BY <1>0, AskedType
    <3>4. r \in Seq(Tokens)
      BY <3>3, SubSeqType
    <3> HIDE DEF r
    <3>5. [net[0] EXCEPT !.rx = r] \in Socket
      BY <1>0, <3>4 DEF Socket
    <3>. QED BY <1>0, <3>2, <3>5 DEF ProbeTyped
  <2>2. CASE net' = [net EXCEPT ![0] = AfterError(@)]
    <3>1. AfterError(net[0]) \in Socket
      BY <1>0 DEF AfterError, Socket
    <3>. QED BY <1>0, <2>2, <3>1 DEF ProbeTyped
  <2>. QED BY <1>3, <2>1, <2>2 DEF ProbeTyped
<1>5. sm' \in [Conns -> Drv!Parser]
  <2>1. CleanParser \in Drv!Parser
    BY SameWorld DEF CleanParser, ParserStates
  <2>2. CASE Drv!ParseToken
    <3>0. sm[0].buf # <<>>
      BY <2>2 DEF Drv!ParseToken, Drv!HasData
    <3>1. PICK o \in Parse(sm[0], Head(sm[0].buf)) :
            sm' = [sm EXCEPT ![0] = [buf |-> IF o.res = "NOT_SUPPORT" THEN @.buf ELSE Tail(@.buf),
                                     p_state |-> o.p_state,
                                     is_close |-> o.is_close, status |-> o.status]]
      BY <2>2, SameWorld DEF Drv!ParseToken
    <3>2. sm[0].buf \in Seq(Tokens)
      BY <1>0, SameWorld
    <3>3. Head(sm[0].buf) \in Tokens /\ Tail(sm[0].buf) \in Seq(Tokens)
      BY <3>0, <3>2, HeadTail
    <3>4. /\ o.p_state \in ParserStates /\ o.is_close \in BOOLEAN
          /\ o.status \in HeadKinds \cup {"none"}
      BY <1>0, <3>3, OutcomeType, SameWorld
    <3> DEFINE b == IF o.res = "NOT_SUPPORT" THEN sm[0].buf ELSE Tail(sm[0].buf)
               q == [buf |-> b, p_state |-> o.p_state, is_close |-> o.is_close, status |-> o.status]
    <3>5. b \in Seq(Tokens)
      BY <3>2, <3>3
    <3> HIDE DEF b
    <3>6. q \in Drv!Parser
      BY <3>4, <3>5, SameWorld
    <3>7. sm' = [sm EXCEPT ![0] = q]
      BY <3>1 DEF b
    <3> HIDE DEF q
    <3>. QED BY <1>0, <3>6, <3>7 DEF ProbeTyped
  <2>3. CASE Drv!ParseFinish
    <3>1. sm[0].buf # <<>> /\ sm' = [sm EXCEPT ![0] = [CleanParser EXCEPT !.buf = Tail(sm[0].buf)]]
      BY <2>3, SameWorld DEF Drv!ParseFinish, Drv!HasData
    <3>2. sm[0].buf \in Seq(Tokens)
      BY <1>0, SameWorld
    <3>3. Tail(sm[0].buf) \in Seq(Tokens)
      BY <3>1, <3>2, HeadTail
    <3>4. [CleanParser EXCEPT !.buf = Tail(sm[0].buf)] \in Drv!Parser
      BY <3>3, SameWorld DEF CleanParser, ParserStates
    <3>. QED BY <1>0, <3>1, <3>4 DEF ProbeTyped
  <2>4. CASE Drv!Recv
    <3>1. PICK n \in 1..Len(net[0].rx) : sm' = [sm EXCEPT ![0].buf = SubSeq(net[0].rx, 1, n)]
      BY <2>4 DEF Drv!Recv
    <3> DEFINE b == SubSeq(net[0].rx, 1, n)
    <3>2. net[0].rx \in Seq(Tokens)
      BY <1>0, AskedType
    <3>3. b \in Seq(Tokens)
      BY <3>2, SubSeqType
    <3>4. sm' = [sm EXCEPT ![0] = [@ EXCEPT !.buf = b]]
      BY <3>1
    <3> HIDE DEF b
    <3>5. [sm[0] EXCEPT !.buf = b] \in Drv!Parser
      BY <1>0, <3>3, SameWorld
    <3>. QED BY <1>0, <3>4, <3>5 DEF ProbeTyped
  <2>5. CASE Drv!RecvEof
    <3>1. sm' = [sm EXCEPT ![0] = CleanParser]
      BY <2>5, SameWorld DEF Drv!RecvEof
    <3>. QED BY <1>0, <2>1, <3>1 DEF ProbeTyped
  <2>6. CASE Drv!NothingExpected \/ Drv!RecvError
    BY <2>6 DEF Drv!NothingExpected, Drv!RecvError, ProbeTyped
  <2>. QED BY <2>2, <2>3, <2>4, <2>5, <2>6 DEF Driver, Drv!Receiving
<1>. QED BY <1>1, <1>2, <1>4, <1>5

\* What the parser makes of the head of an answer, and what probing makes of that.
LEMMA ParseHead ==
  ASSUME NEW m, m.p_state = "VER", NEW k \in HeadKinds, NEW o \in Parse(m, k)
  PROVE  \/ k \in {"ok", "close"} /\ o.res = "MORE" /\ o.p_state = "BODY"
         \/ k = "empty" /\ o.res = "FINISH"
         \/ /\ k \notin {"ok", "close", "empty"} /\ o.res \notin {"MORE", "FINISH"}
            /\ VerdictOf(o.res) = Deserved(k)
<1>1. CASE k \in {"ok", "close", "empty"}
  BY <1>1 DEF Parse, Outcome
<1>2. CASE k = "redirect"
  BY <1>2 DEF Parse, Outcome, VerdictOf, Deserved
<1>3. CASE k = "err5"
  BY <1>3 DEF Parse, Outcome, VerdictOf, Deserved
<1>4. CASE k \in {"keep4", "close4"}
  BY <1>4 DEF Parse, Outcome, VerdictOf, Deserved
<1>5. CASE k = "odd"
  BY <1>5 DEF Parse, Outcome, VerdictOf, Deserved
<1>. QED BY <1>1, <1>2, <1>3, <1>4, <1>5 DEF HeadKinds

\* Before the answer the driver waits.
LEMMA DriverWaits == ASSUME ProbeTyped, Waits, Driver PROVE FALSE
<1>1. /\ sm[0].buf = <<>> /\ net[0].rx = <<>> /\ net[0].tcp = "ESTABLISHED" /\ call.num_reqs = 1
  BY DEF Waits, Untouched, Wants, CleanParser
<1>2. ~Drv!HasData
  BY <1>1 DEF Drv!HasData
<1>3. 1..Len(net[0].rx) = {}
  BY <1>1
<1>4. ~AtEof(net[0])
  BY <1>1 DEF AtEof
<1>. QED
  BY <1>1, <1>2, <1>3, <1>4, SameWorld DEF Driver, Drv!Receiving, Drv!ParseToken, Drv!ParseFinish,
     Drv!NothingExpected, Drv!Recv, Drv!RecvEof, Drv!RecvError

\* What the driver takes off the stream leaves the rest, and what it receives
\* stays in it.
LEMMA DriverHeard ==
  ASSUME ProbeTyped, pc # "end", Heard, Driver
  PROVE  Heard' /\ (net' = net \/ Drv!Recv)
<1>0. 0 \in Conns /\ net[0] \in Socket
  BY OneConn DEF ProbeTyped
<1>1. net' = net \/ Drv!Recv
  BY DEF Heard, Driver, Drv!Receiving, Drv!ParseToken, Drv!ParseFinish, Drv!NothingExpected,
         Drv!RecvEof, Drv!RecvError
<1>2. net'[0].tcp = net[0].tcp /\ net'[0].srv = net[0].srv /\ net'[0].wire = net[0].wire
  <2>1. CASE Drv!Recv
    <3>1. PICK n \in 1..Len(net[0].rx) : net' = [net EXCEPT ![0].rx = SubSeq(@, n + 1, Len(@))]
      BY <2>1 DEF Drv!Recv
    <3> DEFINE q == SubSeq(net[0].rx, n + 1, Len(net[0].rx))
    <3>2. net'[0] = [net[0] EXCEPT !.rx = q]
      BY <1>0, <3>1 DEF ProbeTyped
    <3> HIDE DEF q
    <3>. QED BY <1>0, <3>2 DEF Socket
  <2>. QED BY <1>1, <2>1
<1>3. answer' = answer /\ i' = i
  BY DriverTyped
<1>. QED BY <1>1, <1>2, <1>3 DEF Heard, Asked

LEMMA ReceiveLeft ==
  ASSUME ProbeTyped, Drv!Recv
  PROVE  /\ Left' = Left /\ sm'[0].p_state = sm[0].p_state
         /\ pc' = pc /\ call' = call /\ call.num_reqs # 0
<1>0. 0 \in Conns /\ net[0] \in Socket /\ sm[0] \in Drv!Parser /\ net[0].rx \in Seq(Tokens)
  BY OneConn, AskedType DEF ProbeTyped
<1>1. PICK n \in 1..Len(net[0].rx) :
        /\ sm' = [sm EXCEPT ![0].buf = SubSeq(net[0].rx, 1, n)]
        /\ net' = [net EXCEPT ![0].rx = SubSeq(@, n + 1, Len(@))]
  BY DEF Drv!Recv
<1> DEFINE a == SubSeq(net[0].rx, 1, n)
           q == SubSeq(net[0].rx, n + 1, Len(net[0].rx))
<1>2. a \o q = net[0].rx
  BY <1>0, ReceivedStream
<1>3. net'[0] = [net[0] EXCEPT !.rx = q] /\ sm'[0] = [sm[0] EXCEPT !.buf = a]
  BY <1>0, <1>1 DEF ProbeTyped
<1> HIDE DEF a, q
<1>4. net'[0].rx = q /\ sm'[0].buf = a /\ sm'[0].p_state = sm[0].p_state
  BY <1>0, <1>3, SameWorld DEF Socket
<1>5. sm[0].buf = <<>>
  BY DEF Drv!Recv, Drv!HasData
<1>6. Left = net[0].rx
  BY <1>0, <1>5, StreamFacts DEF Left
<1>. QED BY <1>2, <1>4, <1>6 DEF Left, Drv!Recv

\* The driver takes the first token of the buffer.
LEMMA TakeLeft ==
  ASSUME ProbeTyped, sm[0].buf # <<>>
  PROVE  /\ Left # <<>> /\ Head(Left) = Head(sm[0].buf)
         /\ Tail(Left) = Tail(sm[0].buf) \o net[0].rx
<1>1. sm[0].buf \in Seq(Tokens) /\ net[0].rx \in Seq(Tokens)
  BY OneConn, AskedType, SameWorld DEF ProbeTyped
<1>. QED BY <1>1, StreamFacts DEF Left

\* Between two tokens there is nothing left only if the buffer and the socket are empty.
LEMMA NothingLeft ==
  ASSUME ProbeTyped, sm[0].buf = <<>>, net[0].rx = <<>>
  PROVE  Left = <<>>
BY StreamFacts DEF Left

LEMMA DriverProbed ==
  ASSUME ProbeTyped, i \in Uris, Probed, Driver
  PROVE  Probed'
<1>0. /\ pc = "parse" /\ pc' \in {"parse", "dispatch"} /\ answer' = answer /\ i' = i
      /\ 0 \in Conns /\ sm[0] \in Drv!Parser /\ sm[0].buf \in Seq(Tokens) /\ net[0].rx \in Seq(Tokens)
      /\ sm \in [Conns -> Drv!Parser]
  BY DriverTyped, OneConn, AskedType, SameWorld DEF ProbeTyped
<1>1. Heard /\ (AtHead \/ AtBody \/ AtEnd)
  BY <1>0, DriverWaits DEF Probed
<1>2. Heard' /\ (net' = net \/ Drv!Recv)
  BY <1>0, <1>1, DriverHeard
<1> DEFINE k == answer[i]
<1>3. k \in HeadKinds /\ k = answer'[i']
  BY <1>0, <1>1 DEF Heard
<1> SUFFICES \/ pc' = "parse" /\ (AtHead \/ AtBody \/ AtEnd)'
             \/ pc' = "dispatch" /\ VerdictOf(call'.rcode) = Deserved(k)
  BY <1>0, <1>2, <1>3 DEF Probed
<1> HIDE DEF k
<1>4. CASE Drv!Recv
  BY <1>0, <1>1, <1>3, <1>4, ReceiveLeft DEF AtHead, AtBody, AtEnd, Wants, k
<1>5. CASE Drv!ParseToken
  <2>1. /\ sm[0].buf # <<>> /\ net' = net
    BY <1>5 DEF Drv!ParseToken, Drv!HasData
  <2>2. PICK o \in Parse(sm[0], Head(sm[0].buf)) :
          /\ o.res # "FINISH"
          /\ sm' = [sm EXCEPT ![0] = [buf |-> IF o.res = "NOT_SUPPORT" THEN @.buf ELSE Tail(@.buf),
                                     p_state |-> o.p_state,
                                     is_close |-> o.is_close, status |-> o.status]]
          /\ IF o.res = "MORE" THEN pc' = pc /\ call' = call
             ELSE pc' = "dispatch" /\ call' = [call EXCEPT !.rcode = o.res]
    BY <1>5, SameWorld DEF Drv!ParseToken, Drv!Returns
  <2>3. Left # <<>> /\ Head(Left) = Head(sm[0].buf) /\ Tail(Left) = Tail(sm[0].buf) \o net[0].rx
    BY <2>1, TakeLeft
  <2>4. AtHead
    <3>1. ~AtEnd
      BY <2>3 DEF AtEnd
    <3>2. ASSUME AtBody PROVE FALSE
      <4>1. Head(sm[0].buf) = "body" /\ sm[0].p_state = "BODY"
        BY <2>3, <3>2 DEF AtBody
      <4>2. o.res = "FINISH"
        BY <2>2, <4>1 DEF Parse, Outcome
      <4>. QED BY <2>2, <4>2
    <3>. QED BY <1>1, <3>1, <3>2
  <2>5. Head(sm[0].buf) = k /\ sm[0].p_state = "VER" /\ o \in Parse(sm[0], k)
    BY <1>3, <2>2, <2>3, <2>4, MessageParts DEF AtHead, k
  <2>6. CASE o.res = "MORE"
    <3>1. k \in {"ok", "close"} /\ o.p_state = "BODY"
      BY <1>3, <2>5, <2>6, ParseHead
    <3>2. sm'[0].buf = Tail(sm[0].buf) /\ sm'[0].p_state = "BODY"
      BY <1>0, <2>2, <2>6, <3>1
    <3>3. Tail(Left) = <<"body">>
      BY <1>3, <2>4, <3>1, MessageParts DEF AtHead, k
    <3>4. Left' = <<"body">>
      BY <2>1, <2>3, <3>2, <3>3 DEF Left
    <3>. QED BY <1>0, <1>3, <2>2, <2>4, <2>6, <3>1, <3>2, <3>4 DEF AtHead, AtBody, Wants
  <2>7. CASE o.res # "MORE"
    <3>1. VerdictOf(o.res) = Deserved(k)
      BY <1>3, <2>2, <2>5, <2>7, ParseHead
    <3>2. call'.rcode = o.res /\ pc' = "dispatch"
      BY <2>2, <2>4, <2>7 DEF AtHead, Wants
    <3>. QED BY <3>1, <3>2
  <2>. QED BY <2>6, <2>7
<1>6. CASE Drv!ParseFinish
  <2>1. sm[0].buf # <<>> /\ net' = net /\ pc' = pc
    BY <1>6 DEF Drv!ParseFinish, Drv!HasData
  <2>2. PICK o \in Parse(sm[0], Head(sm[0].buf)) :
          /\ o.res = "FINISH"
          /\ sm' = [sm EXCEPT ![0] = [CleanParser EXCEPT !.buf = Tail(sm[0].buf)]]
          /\ call' = [call EXCEPT !.num_reqs = (@ - 1 + 16) % 16, !.fin_resp = @ + 1]
    BY <1>6, SameWorld DEF Drv!ParseFinish, Drv!U32
  <2>3. Left # <<>> /\ Head(Left) = Head(sm[0].buf) /\ Tail(Left) = Tail(sm[0].buf) \o net[0].rx
    BY <2>1, TakeLeft
  <2>4. Wants(1) /\ Tail(Left) = <<>> /\ k \in {"ok", "close", "empty"}
    <3>1. ~AtEnd
      BY <2>3 DEF AtEnd
    <3>2. CASE AtBody
      BY <3>2 DEF AtBody, k
    <3>3. CASE AtHead
      <4>1. Head(sm[0].buf) = k /\ sm[0].p_state = "VER" /\ o \in Parse(sm[0], k)
        BY <1>3, <2>2, <2>3, <3>3, MessageParts DEF AtHead, k
      <4>2. k = "empty"
        BY <1>3, <2>2, <4>1, ParseHead
      <4>. QED BY <1>3, <3>3, <4>2, MessageParts DEF AtHead, k
    <3>. QED BY <1>1, <3>1, <3>2, <3>3
  <2>5. sm'[0].buf = Tail(sm[0].buf)
    BY <1>0, <2>2 DEF CleanParser
  <2>6. Left' = <<>>
    BY <2>1, <2>3, <2>4, <2>5 DEF Left
  <2>7. Wants(0)'
    <3>1. (1 - 1 + 16) % 16 = 0
      OBVIOUS
    <3>2. call.num_reqs = 1 /\ call.fin_resp \in Nat /\ call.rcode = "NONE"
          /\ call = [num_reqs |-> 1, fin_resp |-> call.fin_resp, rcode |-> "NONE"]
      BY <2>4 DEF Wants
    <3>3. call' = [num_reqs |-> 0, fin_resp |-> call.fin_resp + 1, rcode |-> "NONE"]
      BY <2>2, <3>1, <3>2
    <3>. QED BY <3>2, <3>3 DEF Wants
  <2>. QED BY <1>0, <1>3, <2>1, <2>4, <2>6, <2>7 DEF AtEnd
<1>7. CASE Drv!NothingExpected
  <2>1. AtEnd /\ pc' = "dispatch" /\ call' = [call EXCEPT !.rcode = "POLL_DATA"]
    BY <1>1, <1>7 DEF Drv!NothingExpected, Drv!Returns, AtHead, AtBody, Wants
  <2>2. call'.rcode = "POLL_DATA" /\ k \in {"ok", "close", "empty"}
    BY <2>1 DEF AtEnd, Wants, k
  <2>. QED BY <2>1, <2>2 DEF VerdictOf, Deserved
<1>8. CASE Drv!RecvEof
  <2>1. sm[0].buf = <<>> /\ net[0].rx = <<>> /\ call.num_reqs # 0
    BY <1>8, SameWorld DEF Drv!RecvEof, Drv!HasData, AtEof
  <2>2. Left = <<>>
    BY <2>1, NothingLeft
  <2>. QED BY <1>1, <1>3, <2>1, <2>2, MessageParts DEF AtHead, AtBody, AtEnd, Wants, k
<1>9. ~Drv!RecvError
  BY <1>1 DEF Heard, Drv!RecvError
<1>. QED BY <1>4, <1>5, <1>6, <1>7, <1>8, <1>9 DEF Driver, Drv!Receiving

\* The steps of the program.
LEMMA ProgramInv == ASSUME ProbeInv, ProbeProgram PROVE ProbeInv'
<1>0. /\ 0 \in Conns /\ net[0] \in Socket /\ net \in [Conns -> Socket] /\ sm \in [Conns -> Drv!Parser]
      /\ i \in Nat /\ NUris \in Nat \ {0}
      /\ answer \in [Uris -> HeadKinds \cup {"none"}]
      /\ verdict \in [Uris -> {"none", "found", "missed", "neither"}] /\ lost \subseteq Uris
      /\ pc # "end" => i \in Uris
  BY OneConn, ProbeAssumption DEF ProbeInv, ProbeTyped
<1>1. CASE Connected
  <2>1. /\ pc = "connect" /\ pc' = "send" /\ fd' = (net[0].err # "REFUSED") /\ net[0].tcp # "SYN_SENT"
        /\ UNCHANGED <<i, sm, call, verdict, answer, lost, net>>
    BY <1>1 DEF Connected
  <2>2. ProbeTyped' /\ Ahead' /\ Judged'
    BY <2>1 DEF ProbeInv, ProbeTyped, Ahead, Judged
  <2>3. Probed => Probed'
    BY <2>1 DEF Probed, Quiet, Untouched
  <2>. QED BY <2>1, <2>2, <2>3 DEF ProbeInv
<1>2. CASE Ask
  <2>1. /\ pc = "send" /\ pc' = IF fd /\ Sent(net[0], 0, ReqSize).ret = "PIPE" THEN "killed" ELSE "parse"
        /\ net' = [net EXCEPT ![0] = IF fd THEN Sent(@, 0, ReqSize).peer ELSE @]
        /\ call' = [num_reqs |-> 1, fin_resp |-> 0, rcode |-> "NONE"]
        /\ UNCHANGED <<i, fd, sm, verdict, answer, lost>>
    BY <1>2 DEF Ask, Drv!NoCall
  <2> DEFINE s == net[0]
             t == Sent(s, 0, ReqSize).peer
  <2>2. ReqSize \in Nat /\ 1 * ReqSize = ReqSize
    BY PeerAssumption
  <2>3. t \in Socket
    BY <1>0, <2>2, SentType
  <2> HIDE DEF t
  <2>4. net' \in [Conns -> Socket] /\ (fd => net'[0] = t)
    BY <1>0, <2>1, <2>3 DEF t
  <2>5. ProbeTyped' /\ Ahead' /\ Judged'
    BY <2>1, <2>4 DEF ProbeInv, ProbeTyped, Ahead, Judged
  <2>6. t.rx = s.rx /\ t.tcp = s.tcp /\ Asked(t) <= Asked(s) + 1
    <3>1. CASE Sent(s, 0, ReqSize).ret = "OK"
      <4>1. Sent(s, 0, 1 * ReqSize).ret = "OK" /\ t = Sent(s, 0, 1 * ReqSize).peer
        BY <2>2, <3>1 DEF t
      <4>2. s \in Socket
        BY <1>0
      <4> HIDE DEF s
      <4>3. t.rx = s.rx /\ t.tcp = s.tcp /\ ToCome(t, HeadKinds) <= ToCome(s, HeadKinds) + 1
        BY <4>1, <4>2, SentToCome
      <4>. QED BY <2>3, <4>2, <4>3, AskedToCome
    <3>2. CASE Sent(s, 0, ReqSize).ret # "OK"
      <4>1. t.rx = s.rx /\ t.tcp = s.tcp /\ t.wire = s.wire /\ t.srv = s.srv
        BY <1>0, <3>2 DEF t, Sent, Socket
      <4>2. Asked(t) = Asked(s)
        BY <4>1 DEF Asked
      <4>3. Asked(s) \in Nat
        BY <1>0, AskedType
      <4>. QED BY <4>1, <4>2, <4>3
    <3>. QED BY <3>1, <3>2
  <2>7. Probed => Probed'
    <3>1. SUFFICES ASSUME Probed PROVE Probed'
      OBVIOUS
    <3>2. Untouched /\ Asked(s) = 0 /\ s.tcp = "ESTABLISHED" /\ fd
      BY <2>1, <3>1 DEF Probed, Quiet
    <3>3. net'[0] = t
      BY <2>4, <3>2
    <3>4. Asked(t) <= 1
      BY <2>6, <3>2
    <3>5. pc' = "parse"
      BY <2>1, <3>2 DEF Sent
    <3>6. Waits'
      BY <2>1, <2>6, <3>2, <3>3, <3>4 DEF Waits, Untouched, Wants
    <3>. QED BY <3>5, <3>6 DEF Probed
  <2>. QED BY <2>1, <2>5, <2>7 DEF ProbeInv
<1>3. CASE Driver
  <2>1. /\ pc = "parse" /\ pc' \in {"parse", "dispatch"}
        /\ UNCHANGED <<i, verdict, answer, lost>>
        /\ net' \in [Conns -> Socket] /\ sm' \in [Conns -> Drv!Parser]
    BY <1>3, DriverTyped DEF ProbeInv
  <2>2. ProbeTyped' /\ Ahead' /\ Judged'
    BY <2>1 DEF ProbeInv, ProbeTyped, Ahead, Judged
  <2>3. i \notin lost => Probed'
    BY <1>0, <1>3, <2>1, DriverProbed DEF ProbeInv
  <2>. QED BY <2>1, <2>2, <2>3 DEF ProbeInv
<1>4. CASE Judge
  <2>1. /\ pc = "dispatch" /\ pc' = "close" /\ verdict' = [verdict EXCEPT ![i] = VerdictOf(call.rcode)]
        /\ UNCHANGED <<i, fd, sm, call, answer, lost, net>>
    BY <1>4 DEF Judge
  <2>2. VerdictOf(call.rcode) \in {"found", "missed", "neither"}
    BY DEF VerdictOf
  <2>3. ProbeTyped' /\ Ahead'
    BY <1>0, <2>1, <2>2 DEF ProbeInv, ProbeTyped, Ahead
  <2>4. i \notin lost => Probed'
    BY <1>0, <2>1 DEF ProbeInv, Probed, Heard
  <2>5. Judged'
    <3>1. SUFFICES ASSUME NEW u \in Uris \ lost, verdict'[u] # "none"
                   PROVE  /\ verdict'[u] = Deserved(answer[u])
                          /\ u < i \/ u = i
      BY <2>1 DEF Judged
    <3>2. CASE u = i
      BY <2>1, <2>4, <3>2 DEF Probed
    <3>3. CASE u # i
      BY <1>0, <2>1, <3>1, <3>3 DEF ProbeInv, Judged
    <3>. QED BY <3>2, <3>3
  <2>. QED BY <2>1, <2>3, <2>4, <2>5 DEF ProbeInv
<1>5. CASE NewConnection
  <2>1. /\ pc = "close" /\ net' = [net EXCEPT ![0] = NewSocket]
        /\ sm' = [sm EXCEPT ![0] = CleanParser]
        /\ i' = i + 1 /\ pc' = IF i + 1 < NUris THEN "connect" ELSE "end"
        /\ UNCHANGED <<verdict, answer, lost>>
    BY <1>5 DEF NewConnection, ResetParser
  <2>2. CleanParser \in Drv!Parser
    BY SameWorld DEF CleanParser, ParserStates
  <2>3. i + 1 \in Nat /\ (pc' # "end" => i + 1 \in Uris)
    BY <1>0, <2>1 DEF Uris
  <2>4. ProbeTyped'
    BY <1>0, <2>1, <2>2, <2>3, NewQuiet DEF ProbeTyped
  <2>5. Ahead' /\ Judged'
    <3>1. \A u \in Uris : u \in Int
      BY <1>0 DEF Uris
    <3>2. ASSUME NEW u \in Uris, u > i + 1 PROVE u > i
      BY <1>0, <3>1, <3>2
    <3>3. ASSUME NEW u \in Uris, u < i \/ u = i PROVE u < i + 1
      BY <1>0, <3>1, <3>3
    <3>. QED BY <2>1, <3>2, <3>3 DEF ProbeInv, Ahead, Judged
  <2>6. pc' # "end" => Probed'
    <3>1. SUFFICES ASSUME pc' # "end" PROVE Probed'
      OBVIOUS
    <3>2. pc' = "connect" /\ i' \in Uris /\ i' > i
      BY <1>0, <2>1, <2>3, <3>1
    <3>3. answer'[i'] = "none"
      BY <2>1, <3>2 DEF ProbeInv, Ahead
    <3>4. net'[0] = NewSocket /\ sm'[0] = CleanParser
      BY <1>0, <2>1
    <3>. QED BY <3>2, <3>3, <3>4, NewQuiet DEF Probed, Quiet, Untouched
  <2>. QED BY <2>4, <2>5, <2>6 DEF ProbeInv
<1>. QED BY <1>1, <1>2, <1>3, <1>4, <1>5 DEF ProbeProgram

\* What the world does to the only socket, apart from answering and losing it.
LEMMA WorksProbed == ASSUME ProbeInv, Works PROVE ProbeInv'
<1>0. 0 \in Conns /\ net[0] \in Socket /\ net \in [Conns -> Socket]
  BY OneConn DEF ProbeInv, ProbeTyped
<1>1. pc # "end" /\ UNCHANGED <<pc, i, fd, sm, call, verdict, answer, lost>>
  BY DEF Works, World, ProbeOver
<1> DEFINE s == net[0]
<1>2. PICK t \in Socket : /\ net' = [net EXCEPT ![0] = t] /\ t.rx = s.rx /\ t.err = s.err
                          /\ Asked(t) <= Asked(s)
                          /\ t.tcp = s.tcp \/ (s.tcp = "SYN_SENT" /\ t.tcp = "ESTABLISHED")
  <2>1. CASE Establish(0)
    <3> DEFINE t == [s EXCEPT !.tcp = "ESTABLISHED"]
    <3>1. net' = [net EXCEPT ![0] = t] /\ s.tcp = "SYN_SENT"
      BY <2>1 DEF Establish
    <3>2. /\ t \in Socket /\ t.rx = s.rx /\ t.err = s.err /\ t.tcp = "ESTABLISHED"
          /\ t.srv = s.srv /\ t.wire = s.wire
      BY <1>0 DEF Socket
    <3>3. Asked(t) <= Asked(s)
      <4>1. Asked(t) = Asked(s)
        BY <3>2 DEF Asked
      <4>2. Asked(s) \in Nat
        BY <1>0, AskedType
      <4>. QED BY <4>1, <4>2
    <3>. QED BY <3>1, <3>2, <3>3
  <2>2. CASE ServerRead(0)
    <3> DEFINE t == ReadUnit(s)
    <3>1. net' = [net EXCEPT ![0] = t] /\ s.wire # <<>>
      BY <2>2 DEF ServerRead
    <3>2. t \in Socket
      BY <1>0, <3>1, ReadUnitType
    <3>3. /\ t.rx = s.rx /\ t.tcp = s.tcp /\ t.err = s.err
          /\ ToCome(t, HeadKinds) <= ToCome(s, HeadKinds)
      <4>1. s \in Socket
        BY <1>0
      <4> HIDE DEF s
      <4>. QED BY <3>1, <4>1, ReadUnitToCome
    <3> HIDE DEF t
    <3>4. Asked(t) <= Asked(s)
      <4>1. ToCome(t, HeadKinds) <= ToCome(s, HeadKinds) + 0
        BY <1>0, <3>2, <3>3, ToComeType
      <4>2. Asked(t) <= Asked(s) + 0
        BY <1>0, <3>2, <3>3, <4>1, AskedToCome
      <4>. QED BY <1>0, <3>2, <4>2, AskedType
    <3>. QED BY <3>1, <3>2, <3>3, <3>4
  <2>. QED BY <2>1, <2>2 DEF Works, World
<1>3. net'[0] = t /\ net' \in [Conns -> Socket]
  BY <1>0, <1>2
<1>4. ProbeTyped' /\ Ahead' /\ Judged'
  BY <1>1, <1>3 DEF ProbeInv, ProbeTyped, Ahead, Judged
<1>5. Asked(s) \in Nat /\ Asked(t) \in Nat
  BY <1>0, AskedType
<1>6. /\ Untouched => Untouched'
      /\ Asked(s) = 0 => Asked(t) = 0
      /\ Asked(s) <= 1 => Asked(t) <= 1
      /\ Left' = Left
  <2>1. (Untouched => Untouched') /\ Left' = Left
    BY <1>1, <1>2, <1>3 DEF Untouched, Left
  <2> HIDE DEF s
  <2>. QED BY <1>2, <1>5, <2>1
<1>7. /\ Quiet => Quiet'
      /\ Waits => Waits'
      /\ Heard => Heard'
      /\ AtHead \/ AtBody \/ AtEnd => (AtHead \/ AtBody \/ AtEnd)'
  <2> HIDE DEF s
  <2>1. Quiet => Quiet'
    BY <1>2, <1>3, <1>6 DEF Quiet, s
  <2>2. Waits => Waits'
    BY <1>1, <1>2, <1>3, <1>6 DEF Waits, Wants, s
  <2>3. Heard => Heard'
    BY <1>1, <1>2, <1>3, <1>6 DEF Heard, s
  <2>4. AtHead \/ AtBody \/ AtEnd => (AtHead \/ AtBody \/ AtEnd)'
    BY <1>1, <1>6 DEF AtHead, AtBody, AtEnd, Wants
  <2>. QED BY <2>1, <2>2, <2>3, <2>4
<1>8. Probed => Probed'
  BY <1>1, <1>2, <1>3, <1>7 DEF Probed
<1>. QED BY <1>1, <1>4, <1>8 DEF ProbeInv

\* The server answers the request, once.
LEMMA AnswersProbed == ASSUME ProbeInv, NEW k \in Kinds, Answers(k) PROVE ProbeInv'
<1>0. /\ 0 \in Conns /\ net[0] \in Socket /\ net \in [Conns -> Socket] /\ k \in HeadKinds
      /\ answer \in [Uris -> HeadKinds \cup {"none"}] /\ i \in Uris /\ i \in Nat
  BY OneConn, PeerAssumption DEF ProbeInv, ProbeTyped, Answers, World, ProbeOver
<1> DEFINE s == net[0]
           t == IF k \in Closing THEN Gone(Answered(s, k), "CLOSE_WAIT", "NONE") ELSE Answered(s, k)
<1>1. /\ pc \notin {"end", "killed"} /\ UNCHANGED <<pc, i, fd, sm, call, verdict, lost>>
      /\ answer' = [answer EXCEPT ![i] = k]
      /\ s.tcp = "ESTABLISHED" /\ s.srv > 0
      /\ net' = [net EXCEPT ![0] = t]
  BY DEF Answers, World, Answer, Answered, ProbeOver
<1> DEFINE a == Answered(s, k)
<1>2. /\ a \in Socket /\ a.rx = s.rx \o Message(k) /\ a.tcp = s.tcp /\ a.err = s.err
      /\ a.wire = s.wire /\ a.srv \in Nat /\ s.srv = a.srv + 1
  <2>1. s \in Socket /\ s.srv > 0
    BY <1>0, <1>1
  <2> HIDE DEF s
  <2>. QED BY <1>0, <2>1, AnsweredType
<1> HIDE DEF a
<1>3. t \in Socket /\ t.rx = s.rx \o Message(k) /\ t.tcp \in {"ESTABLISHED", "CLOSE_WAIT"}
      /\ (Asked(s) <= 1 => Asked(t) = 0)
  <2>1. CASE k \notin Closing
    <3>1. t = a
      BY <2>1 DEF a
    <3>2. Asked(s) <= 1 => Asked(a) = 0
      <4>1. Occurrences(s.wire, {ReqSize}) \in Nat
        BY <1>0, AskedType
      <4>2. /\ Asked(s) = a.srv + 1 + Occurrences(s.wire, {ReqSize})
            /\ Asked(a) = a.srv + Occurrences(s.wire, {ReqSize})
        BY <1>2 DEF Asked
      <4>. QED BY <1>2, <4>1, <4>2
    <3>. QED BY <1>1, <1>2, <3>1, <3>2
  <2>2. CASE k \in Closing
    <3>1. t = Gone(a, "CLOSE_WAIT", "NONE")
      BY <2>2 DEF a
    <3>2. t \in Socket
      BY <1>2, <3>1, GoneType
    <3>3. t.rx = a.rx /\ t.tcp = "CLOSE_WAIT" /\ t.wire = <<>> /\ t.srv = 0
      BY <1>2, <3>1 DEF Gone, Socket
    <3>4. Asked(t) = 0
      BY <3>3, OccEmpty DEF Asked
    <3>. QED BY <1>2, <3>2, <3>3, <3>4
  <2>. QED BY <2>1, <2>2
<1> HIDE DEF t
<1>4. net'[0] = t /\ net' \in [Conns -> Socket] /\ answer'[i] = k
  BY <1>0, <1>1, <1>3
<1>5. ProbeTyped'
  BY <1>0, <1>1, <1>4 DEF ProbeInv, ProbeTyped
<1>6. Ahead'
  BY <1>0, <1>1 DEF ProbeInv, Ahead
<1>7. i \notin lost => Waits /\ pc = "parse"
  <2>1. s.srv <= Asked(s) /\ Asked(s) \in Nat /\ s.srv \in Nat
    BY <1>0, AskedType
  <2>2. Asked(s) # 0
    BY <1>1, <2>1
  <2>3. Probed \/ i \in lost
    BY <1>1 DEF ProbeInv
  <2>. QED BY <1>1, <2>2, <2>3 DEF ProbeInv, ProbeTyped, Probed, Quiet, Heard
<1>8. Judged'
  <2>1. SUFFICES ASSUME NEW u \in Uris \ lost, verdict[u] # "none"
                 PROVE  /\ verdict[u] = Deserved(answer'[u])
                        /\ u < i \/ (u = i /\ pc = "close")
    BY <1>1 DEF Judged
  <2>2. verdict[u] = Deserved(answer[u]) /\ (u < i \/ (u = i /\ pc = "close"))
    BY <2>1 DEF ProbeInv, Judged
  <2>3. u # i
    BY <1>0, <1>7, <2>2
  <2>. QED BY <1>0, <1>1, <2>2, <2>3
<1>9. i \notin lost => Probed'
  <2>1. SUFFICES ASSUME i \notin lost PROVE Probed'
    OBVIOUS
  <2>2. /\ sm[0] = CleanParser /\ s.rx = <<>> /\ Asked(s) <= 1 /\ Wants(1) /\ pc = "parse"
    BY <1>7, <2>1 DEF Waits, Untouched
  <2>3. Heard'
    BY <1>0, <1>1, <1>3, <1>4, <2>2 DEF Heard
  <2>4. t.rx = Message(k)
    <3>1. Message(k) \in Seq(Tokens)
      BY <1>0, MessageType
    <3>. QED BY <1>3, <2>2, <3>1, StreamFacts
  <2>5. Left' = Message(k)
    <3>1. sm'[0].buf = <<>> /\ Message(k) \in Seq(Tokens)
      BY <1>0, <1>1, <2>2, MessageType DEF CleanParser
    <3>. QED BY <1>4, <2>4, <3>1, StreamFacts DEF Left
  <2>6. AtHead'
    BY <1>1, <1>4, <2>2, <2>5 DEF AtHead, Wants, CleanParser
  <2>. QED BY <1>1, <2>2, <2>3, <2>6 DEF Probed
<1>. QED BY <1>1, <1>5, <1>6, <1>8, <1>9 DEF ProbeInv

\* A probe whose connection is lost gets any verdict, and the others keep theirs.
LEMMA LostProbed == ASSUME ProbeInv, Lost PROVE ProbeInv'
<1>0. /\ 0 \in Conns /\ net[0] \in Socket /\ net \in [Conns -> Socket]
      /\ i \in Uris /\ i \in Nat /\ lost \subseteq Uris
  BY OneConn DEF ProbeInv, ProbeTyped, Lost, World, ProbeOver
<1>1. /\ pc # "end" /\ UNCHANGED <<pc, i, fd, sm, call, verdict, answer>> /\ lost' = lost \cup {i}
      /\ Lose
  BY DEF Lost, World, ProbeOver
<1>2. \E s \in Cut(net[0]), state \in {"CLOSE_WAIT", "CLOSE"}, why \in {"NONE", "REFUSED", "RESET", "PIPE"} :
        net' = [net EXCEPT ![0] = Gone(s, state, why)]
  <2>1. CASE Refuse(0) \/ (net[0].tcp = "CLOSE_WAIT" /\ Rst(0))
    BY <2>1, CutSelf DEF Refuse, Rst
  <2>2. CASE Fin(0)
    BY <2>2 DEF Fin
  <2>3. CASE net[0].tcp # "CLOSE_WAIT" /\ Rst(0)
    BY <2>3 DEF Rst
  <2>. QED BY <1>1, <2>1, <2>2, <2>3 DEF Lose
<1>3. net' \in [Conns -> Socket]
  <2>1. PICK s \in Cut(net[0]), state \in {"CLOSE_WAIT", "CLOSE"}, why \in {"NONE", "REFUSED", "RESET", "PIPE"} :
          net' = [net EXCEPT ![0] = Gone(s, state, why)]
    BY <1>2
  <2>2. Gone(s, state, why) \in Socket
    BY <1>0, CutType, GoneType
  <2>. QED BY <1>0, <2>1, <2>2
<1>4. ProbeTyped'
  BY <1>0, <1>1, <1>3 DEF ProbeInv, ProbeTyped
<1>5. Ahead' /\ Judged'
  BY <1>0, <1>1 DEF ProbeInv, Ahead, Judged
<1>. QED BY <1>1, <1>4, <1>5 DEF ProbeInv

LEMMA ProbeInvInit == ASSUME Init PROVE ProbeInv
<1>1. ProbeInit /\ NUris \in Nat \ {0} /\ 0 \in Uris
  BY ProbeAssumption DEF Init, Uris
<1>2. /\ net = [c \in Conns |-> NewSocket] /\ pc = "connect" /\ i = 0
      /\ sm = [c \in Conns |-> CleanParser] /\ lost = {}
      /\ verdict = [u \in Uris |-> "none"] /\ answer = [u \in Uris |-> "none"]
  BY <1>1 DEF ProbeInit
<1>3. CleanParser \in Drv!Parser
  BY SameWorld DEF CleanParser, ParserStates
<1>4. ProbeTyped
  BY <1>1, <1>2, <1>3, NewQuiet DEF ProbeTyped
<1>5. Ahead /\ Judged
  BY <1>2 DEF Ahead, Judged
<1>6. Probed
  BY <1>1, <1>2, OneConn, NewQuiet DEF Probed, Quiet, Untouched
<1>. QED BY <1>4, <1>5, <1>6 DEF ProbeInv

LEMMA ProbeInvNext == ASSUME ProbeInv, [Next]_vars PROVE ProbeInv'
<1>1. CASE UNCHANGED probeVars
  <2>1. UNCHANGED <<pc, i, fd, sm, call, verdict, answer, lost, net>>
    BY <1>1 DEF probeVars
  <2>2. ProbeTyped' /\ Ahead' /\ Judged'
    BY <2>1 DEF ProbeInv, ProbeTyped, Ahead, Judged
  <2>3. Heard' = Heard /\ Quiet' = Quiet /\ Waits' = Waits /\ AtHead' = AtHead /\ AtBody' = AtBody
        /\ AtEnd' = AtEnd
    BY <2>1 DEF Heard, Quiet, Untouched, Waits, AtHead, AtBody, AtEnd, Wants, Left
  <2>4. Probed => Probed'
    BY <2>1, <2>3 DEF Probed
  <2>. QED BY <2>1, <2>2, <2>4 DEF ProbeInv
<1>2. CASE Probing
  BY <1>2, ProgramInv DEF Probing
<1>3. CASE Server
  BY <1>3, WorksProbed, AnswersProbed DEF Server
<1>4. CASE Network
  BY <1>4, LostProbed DEF Network
<1>. QED BY <1>1, <1>2, <1>3, <1>4 DEF Next, ParseArgs, Stop, vars

\* For every number of paths, whatever server answers and in whatever pieces: a
\* path whose own connection was not lost gets the verdict its answer deserves
\* (probe_mgnt.c:38-61).
THEOREM PathsJudgedRight == Spec => []ProbeVerdict
<1>1. Init => ProbeInv
  BY ProbeInvInit
<1>2. ProbeInv /\ [Next]_vars => ProbeInv'
  BY ProbeInvNext
<1>3. ProbeInv => ProbeVerdict
  BY DEF ProbeInv, Judged, ProbeVerdict, Deserved
<1>. QED
  BY <1>1, <1>2, <1>3, PTL DEF Spec
=============================================================================
