--------------------------- MODULE MCApproveQueue ---------------------------
(* Values for ApproveQueue's constants. *)
EXTENDS ApproveQueue, TLC

CONSTANTS w1, w2, g1, g2, p1

ProcessOf == [t \in Tasks |-> IF t = approver THEN "approve" ELSE "flow"]
Interchangeable == Permutations({w1, w2})
=============================================================================
