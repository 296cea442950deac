----------------------------- MODULE MCThreads -----------------------------
(* Small instances of Threads. *)
EXTENDS Threads

Cmd(thrd, reqs, verbose, log, use_non_block, use_url) ==
  [thrd |-> thrd, conn |-> 1, reqs |-> reqs, verbose |-> verbose, log |-> log,
   use_non_block |-> use_non_block, use_url |-> use_url]

\* Shares of one and two, with every way to wait for the threads and to log.
TwoThreads == {Cmd(2, 3, FALSE, "KB", FALSE, TRUE), Cmd(2, 2, TRUE, "KB_CM", TRUE, TRUE),
               Cmd(1, 1, FALSE, "none", FALSE, FALSE)}
OneAccept == {"Accept"}
AnyFailure == {"connect", "fopen", "pthread_create", "exit"}
ZeroOrSeven == {0, 7}
=============================================================================
