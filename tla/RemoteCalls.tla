---------------------------- MODULE RemoteCalls -----------------------------
(***************************************************************************)
(* What a caller of an external state store, event bus or sink may rely    *)
(* on: a call takes effect at most once, while it is under way; it returns *)
(* ok only after its effect, and a load returns the value it found then.   *)
(* A call that fails may or may not have taken effect, and may be made     *)
(* again (the next checkpoint, a step with on_error: retry).               *)
(***************************************************************************)
EXTENDS Sequences

CONSTANTS
  Publishes, Sends, Saves, Deletes, Loads,  \* the calls, by method
  None

VARIABLES
  outcome,  \* per call: "idle", "called", "applied", "ok", "failed"
  log,      \* what the bus and the sink have been given, in order
  disk,     \* the stored value (the save that wrote it), or None
  read,     \* per load, what it found
  got       \* per load, what it returned

vars == <<outcome, log, disk, read, got>>

Calls == Publishes \cup Sends \cup Saves \cup Deletes \cup Loads

Init ==
  /\ outcome = [op \in Calls |-> "idle"]
  /\ log["bus"] \in Seq(Publishes) /\ log["sink"] = <<>>
  /\ disk = None
  /\ read = [op \in Loads |-> None] /\ got = [op \in Loads |-> None]

Invoke(op) ==
  /\ outcome[op] \in {"idle", "failed"}
  /\ outcome' = [outcome EXCEPT ![op] = "called"]
  /\ UNCHANGED <<log, disk, read, got>>

Apply(op) ==
  /\ outcome[op] = "called"
  /\ outcome' = [outcome EXCEPT ![op] = "applied"]
  /\ log' = IF op \in Publishes THEN [log EXCEPT !["bus"] = Append(@, op)]
            ELSE IF op \in Sends THEN [log EXCEPT !["sink"] = Append(@, op)] ELSE log
  /\ disk' = IF op \in Saves THEN op ELSE IF op \in Deletes THEN None ELSE disk
  /\ read' = IF op \in Loads THEN [read EXCEPT ![op] = disk] ELSE read
  /\ UNCHANGED got

Succeed(op) ==
  /\ outcome[op] = "applied"
  /\ outcome' = [outcome EXCEPT ![op] = "ok"]
  /\ got' = IF op \in Loads THEN [got EXCEPT ![op] = read[op]] ELSE got
  /\ UNCHANGED <<log, disk, read>>

Fail(op) ==
  /\ outcome[op] \in {"called", "applied"}
  /\ outcome' = [outcome EXCEPT ![op] = "failed"]
  /\ UNCHANGED <<log, disk, read, got>>

Next == \E op \in Calls : Invoke(op) \/ Apply(op) \/ Succeed(op) \/ Fail(op)

Spec == Init /\ [][Next]_vars
=============================================================================
