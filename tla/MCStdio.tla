------------------------------ MODULE MCStdio -------------------------------
EXTENDS Stdio

CONSTANTS p1, p2, w1, w2, s1, s2, d1, l1

MCDeployments ==
  {[ops |-> {p1}, flow |-> f, rows |-> <<p2>>, faults |-> 1] : f \in {"trigger", "source"}}
    \cup {[ops |-> {}, flow |-> f, rows |-> <<p1, p2>>, faults |-> 2] : f \in {"trigger", "source"}}
    \cup {[ops |-> o, flow |-> "none", rows |-> <<>>, faults |-> 2] :
             o \in {{p1, p2}, {w1, w2}, {s1, s2, l1}, {s1, d1, l1}}}
=============================================================================
