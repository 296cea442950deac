------------------------------ MODULE LoadGen ------------------------------
(***************************************************************************)
(* What a connection manager promises, with sockets, polls and parsers     *)
(* left out.  Each connection has a share of the requests.  It issues      *)
(* requests, never more than it still has to get answered; an answer       *)
(* settles one issued request; the issued requests of a connection may be  *)
(* given up together, to be issued again.  A run may be aborted, and its   *)
(* books with it.  One that is over changes nothing any more.              *)
(***************************************************************************)
EXTENDS Naturals

CONSTANTS Connections, Todo      \* Todo[c] \in Nat, the share of connection c

VARIABLES todo,     \* requests not answered yet
          issued,   \* those of them that are on their way
          over
lgVars == <<todo, issued, over>>

Init == todo = Todo /\ issued = [c \in Connections |-> 0] /\ over = FALSE

\* The run may end with any of these steps.
Issue(c) == /\ \E n \in 1..(todo[c] - issued[c]) : issued' = [issued EXCEPT ![c] = @ + n]
            /\ UNCHANGED todo /\ over' \in BOOLEAN

\* Answers to some issued requests arrive; the others stay on their way or
\* are given up.
Settle(c) == \E n \in 0..issued[c] :
               /\ todo' = [todo EXCEPT ![c] = @ - n]
               /\ \/ issued' = [issued EXCEPT ![c] = @ - n]
                  \/ issued' = [issued EXCEPT ![c] = 0]
               /\ over' \in BOOLEAN

Stop == over' = TRUE /\ UNCHANGED <<todo, issued>>

Abort == over' = TRUE /\ todo' = Todo /\ issued' = [c \in Connections |-> 0]

Next == ~over /\ (Stop \/ Abort \/ \E c \in Connections : Issue(c) \/ Settle(c))

Spec == Init /\ [][Next]_lgVars
=============================================================================
