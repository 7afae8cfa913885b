--------------------------- MODULE MCControlPlane ---------------------------
(* Values for ControlPlane's constants. *)
EXTENDS ControlPlane, TLC

CONSTANTS n1, n2, a, b

\* Agent n1 starts with instance a in its agent.yaml, the others with nothing.
OneConfigured == [n \in Nodes |-> IF n = n1 THEN {a} ELSE {}]
=============================================================================
