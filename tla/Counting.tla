------------------------------ MODULE Counting ------------------------------
(***************************************************************************)
(* Numbers of things, said as cardinalities of finite sets, so that what   *)
(* they are can be reasoned about as well as evaluated.                    *)
(***************************************************************************)
EXTENDS Naturals, Sequences, FiniteSets

\* How many elements of sequence s are in S.
Occurrences(s, S) == Cardinality({i \in DOMAIN s : s[i] \in S})

\* The sum of the natural numbers f[x] over the x in a finite set S.
Strokes(S, f) == UNION {{x} \X (1..f[x]) : x \in S}
Tally(S, f)  == Cardinality(Strokes(S, f))
=============================================================================
