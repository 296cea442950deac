--------------------------- MODULE MCConnMgntBlk ---------------------------
(* Servers, networks and sizes with which TLC explores ConnMgntBlk. *)
EXTENDS ConnMgntBlk

\* Every answer; those the switch of the pipelining loop names; those after
\* which the loop without pipelining goes on in order; and a few at a time.
AnyAnswer    == HeadKinds
Listed       == HeadKinds \ {"odd"}
NoRedirect   == HeadKinds \ {"redirect", "odd"}
Finishing404 == {"ok", "keep4"}
Redirecting  == {"ok", "redirect"}
OddAnswers   == {"ok", "odd"}
OkOnly       == {"ok", "empty"}

AnyLoss    == {"FIN", "RST", "REFUSED"}
Closes     == {"FIN", "REFUSED"}
OnlyResets == {"RST"}
OnlyFins   == {"FIN"}
NoLoss     == {}

\* Some values of an uninitialized int: that of a fresh stack, one that could
\* be a count, one that is too large, one below 0.
SomeGarbage == {-2, 0, 1, 9}

\* 2^32 scaled down: any value above TOTAL_REQ shows a wrap as a wrap.
ScaledU32 == 16
=============================================================================
