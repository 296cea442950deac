---------------------------- MODULE MCConnMgntNB ----------------------------
(* Servers and sizes with which TLC explores ConnMgntNB. *)
EXTENDS ConnMgntNB

\* Every kind of answer; the answers after which the run goes on; those of a
\* server that never rejects a well-formed request on a connection it keeps.
AnyAnswer      == HeadKinds
GoesOn         == {"ok", "close", "keep4", "close4"}
ClosesOnReject == {"ok", "close", "close4"}

\* The bit field leftover as it is (2^8), and the same field scaled down with
\* the requests, to be narrower than a request.
Leftover8    == 256
LeftoverTiny == 2

\* 2^32 scaled down: any value above TOTAL_REQ shows a wrap as a wrap.
ScaledU32 == 16
=============================================================================
