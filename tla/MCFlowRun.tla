------------------------------ MODULE MCFlowRun -----------------------------
(* Values for FlowRun's constants. *)
EXTENDS FlowRun, TLC

CONSTANTS s1, s2, r1, r2, r3, again, k1, k2, k3, out, copy, log, doc

\* Record "again" has the key of r1.
KeyOf == [r \in Records |-> CASE r = r2 -> k2 [] r = r3 -> k3 [] OTHER -> k1]

\* Source s1 yields r1, r2 and then a record with the key of r1; s2 yields r3.
Apart == [t \in Sources |-> IF t = s1 THEN <<r1, r2, again>> ELSE <<r3>>]

\* A sink that writes at once, two of them, a file appended to, a file rewritten.
EachRoute == {<<out>>, <<out, copy>>, <<log>>, <<doc>>}
=============================================================================
