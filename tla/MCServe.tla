------------------------------- MODULE MCServe ------------------------------
(* Values for Serve's constants. *)
EXTENDS Serve

CONSTANTS h, q, c, h1, h2, h3, q1, q2, c1

\* Requests h1 to h3, messages q1 and q2, the schedule hit c1.
HomeOf == [p \in Payloads |-> IF p \in {h1, h2, h3} THEN h ELSE IF p \in {q1, q2} THEN q ELSE c]

\* The HTTP trigger is joined first, or last.
BothOrders == {<<h, q>>, <<q, h>>, <<c, h>>}
HttpOnly == {<<h>>}
=============================================================================
