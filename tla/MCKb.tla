-------------------------------- MODULE MCKb --------------------------------
(* Small instances of Kb. *)
EXTENDS Kb

Opt(o)    == [opt |-> o]
Num(o, n) == [opt |-> o, num |-> n]
Plain     == None
Ssl       == [None EXCEPT !.ssl = TRUE]
Port(p)   == [None EXCEPT !.port = p]
Long      == [None EXCEPT !.long = TRUE]
Url(us)   == [opt |-> "u", urls |-> us, attached |-> FALSE]
Attached  == [opt |-> "u", urls |-> <<Plain>>, attached |-> TRUE]
Header(n) == [opt |-> "H", name |-> n]

HeaderNames == << <<"Accept">>, <<"Accept", "Charset">>, <<"User", "Agent">> >>

Seqs(S, n) == UNION {[1..k -> S] : k \in 0..n}

\* Sizes at every bound, with any URL.
Numbers == {Num("t", 0), Num("t", 2), Num("t", 5), Num("t", 9), Num("c", 0), Num("c", 2), Num("c", 4),
            Num("c", 63), Num("c", -1), Num("n", 0), Num("n", 5), Num("n", -1)}
Sizes == {<<Url(<<Plain>>)>> \o s : s \in Seqs(Numbers, 3)}

\* All other options, in any order.
Others == {Num("b", 0), Num("b", 9), Num("b", -1), Opt("i"), Opt("a"), Opt("N"), Opt("v"), Opt("f"),
           Opt("h"), Opt("?"), Num("p", 7), Num("p", -1), Num("l", 4), Num("l", 200),
           Header(<<"User", "Agent">>), Header(<<"User">>), Header(<<"Other">>), Url(<<>>), Url(<<Plain, Ssl>>), Url(<<Ssl>>), Url(<<Port(9)>>),
           Url(<<Port(20)>>), Url(<<Long>>)}
Mixed  == Seqs(Others, 3)

ProbeMode == {<<Opt("P"), Url(<<Ssl>>)>>}
AnyArgv   == Sizes \cup Mixed \cup ProbeMode
\* The URL in the same word as -u, after up to one other option.
OneWord   == {<<Attached>>} \cup {s \o <<Attached>> : s \in Seqs({Opt("i"), Num("c", 2)}, 1)}

AllKinds == {"ok", "empty", "close", "keep4", "close4", "redirect", "err5", "odd"}
AllLosses == {"FIN", "RST", "REFUSED"}
=============================================================================
