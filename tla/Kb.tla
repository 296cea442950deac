--------------------------------- MODULE Kb ---------------------------------
(***************************************************************************)
(* main of kb: argparse, and then the mode it chose.  The probe mode runs  *)
(* to its end; the load-generating mode, with the arguments ArgsUsable     *)
(* describes, is the subject of Threads.                                   *)
(***************************************************************************)
EXTENDS CmdLine, Probe

probeVars == <<pc, i, fd, sm, call, verdict, answer, lost, net, faults>>
vars      == <<cmdVars, probeVars>>

Init == CmdInit /\ ProbeInit

\* main: which mode.
SelectMode ==
  /\ stage = "main"
  /\ stage' = IF args.use_probe_mode THEN "probe" ELSE "loadgen"
  /\ UNCHANGED args /\ Rest

ParseArgs == (argparse \/ SelectMode) /\ UNCHANGED probeVars
Probing   == stage = "probe" /\ ProbeProgram /\ UNCHANGED cmdVars
Server    == stage = "probe" /\ (Works \/ \E k \in Kinds : Answers(k)) /\ UNCHANGED cmdVars
Network   == stage = "probe" /\ Lost /\ UNCHANGED cmdVars

Done == stage \in {"exit", "fault", "loadgen"} \/ (stage = "probe" /\ ProbeOver)
Stop == Done /\ UNCHANGED vars

Next == ParseArgs \/ Probing \/ Server \/ Network \/ Stop
Spec == Init /\ [][Next]_vars

\* kb runs, the network delivers, and the server works.
FairSpec == Spec /\ WF_vars(ParseArgs) /\ WF_vars(Probing) /\ WF_vars(Server)

-----------------------------------------------------------------------------
\* In probe mode kb comes to the end of its list, whichever connections are
\* lost and whatever is answered, or a signal ends it: of a connection that is
\* closed and reset before the request is sent, send() raises SIGPIPE, for
\* which main has no handler in this mode (kb.c:22-23,33-37, probe_mgnt.c:35).
ProbesEnd == (stage = "probe") ~> ProbeOver

\* "Finished all probing work" (probe_mgnt.c:76): it does not always get there.
ProbesFinish == (stage = "probe") ~> (pc = "end")
=============================================================================
