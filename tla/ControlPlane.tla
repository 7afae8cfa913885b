---------------------------- MODULE ControlPlane ----------------------------
(***************************************************************************)
(* The control plane's reconciliation protocol (sohara-plane) and the node *)
(* agents that serve it (sohara-agent).                                    *)
(*                                                                         *)
(* The plane keeps declarations (the desired state, saved to disk) and, per*)
(* node, a queue of commands numbered by a counter of that node; queue and *)
(* counter live in memory only.  An agent sends a heartbeat with the state *)
(* of its instances, the plane compares it with the declarations, enqueues *)
(* the commands that close the gap and answers with the whole queue and the*)
(* node's declarations.  The agent executes the commands it has not seen,  *)
(* acknowledges each, then creates and drops instance managers so that they*)
(* match the declarations.                                                 *)
(*                                                                         *)
(* A supervisor is kept here to what the protocol sees of it: the reported *)
(* state and the queue of operations sent to it (module Supervisor has the *)
(* rest).  A queue of the plane is a set: its commands are pushed in the   *)
(* order of their numbers, so the numbers are the order.                   *)
(***************************************************************************)
EXTENDS Integers, Sequences, FiniteSets

CONSTANTS
  Nodes,            \* node ids
  Instances,        \* instance ids
  None,             \* no declaration / no manager / no report
  LocalConfig,      \* per node, the instances of its agent.yaml
  AckLoss,          \* TRUE when an ack may fail to reach the plane
  MaxSeq,           \* bound: commands numbered per node between plane restarts
  MaxOps,           \* bound: operations an agent may owe a supervisor at a tick
  MaxChanges,       \* bound: manager API calls and upsets
  MaxUpsets,        \* bound: upsets: process crashes, failed spawns, refused admin posts
  MaxPlaneRestarts, \* bound: plane restarts
  MaxAgentRestarts  \* bound: agent restarts

ASSUME ConstantsAssumption ==
  /\ IsFiniteSet(Instances)
  /\ None \notin Nodes
  /\ LocalConfig \in [Nodes -> SUBSET Instances]
  /\ AckLoss \in BOOLEAN
  /\ {MaxSeq, MaxOps, MaxChanges, MaxUpsets, MaxPlaneRestarts, MaxAgentRestarts} \subseteq Nat

Desired == {"running", "paused", "stopped"}
InstanceState == {"starting", "running", "paused", "restarting", "stopping", "stopped", "failed"}
Ops == {"start", "stop", "pause", "resume"}

InstanceDecl == [node : Nodes, desired : Desired]
Command == [seq : Nat, op : Ops, instance : Instances]
\* "halt" stands for the first step of a supervisor created with desired = "stopped".
Manager == [state : InstanceState, ops : Seq(Ops \cup {"halt"})]

VARIABLES
  instances,   \* plane memory: declarations
  disk,        \* the plane's state file
  pending,     \* plane memory: per node, commands not yet acknowledged
  seq,         \* plane memory: per node, the last command number
  phase,       \* agent: "idle", "sent", "dispatch", "ack"
  report,      \* agent: the instance states in the heartbeat under way
  todo,        \* agent: commands of the last response still to be handled
  wish,        \* agent: declarations of the last response
  lastSeq,     \* agent: the highest command number executed
  managers,    \* agent: per instance, its manager
  changes, upsets, planeRestarts, agentRestarts  \* what the bounds count

planeVars == <<instances, disk, pending, seq>>
agentVars == <<phase, report, todo, wish, lastSeq, managers>>
bounds == <<changes, upsets, planeRestarts, agentRestarts>>
vars == <<instances, disk, pending, seq, phase, report, todo, wish, lastSeq, managers,
          changes, upsets, planeRestarts, agentRestarts>>

-----------------------------------------------------------------------------
(* Reconciliation decisions (reconcile.rs). *)

declared_for(n) ==
  {i \in Instances : instances[i] # None /\ instances[i].node = n}

\* The operation that moves an instance in state `actual` toward `desired`.
OpToward(desired, actual) ==
  CASE desired = "running" /\ actual \in {"stopped", "failed"} -> "start"
    [] desired = "running" /\ actual = "paused"                -> "resume"
    [] desired = "paused"  /\ actual = "running"               -> "pause"
    [] desired = "paused"  /\ actual \in {"stopped", "failed"} -> "start"
    [] desired = "stopped" /\ actual \in {"running", "paused", "starting", "restarting"} -> "stop"
    [] OTHER -> "none"

\* Mutant of desired_command: the queue is not consulted.
EnqueueAgain(n, i, reports) ==
  IF reports[i] = None THEN "none" ELSE OpToward(instances[i].desired, reports[i])

\* The operation to enqueue for instance i of node n, unless it was not reported,
\* is where it should be, or the same operation is already queued for it.
desired_command(n, i, reports) ==
  IF reports[i] = None THEN "none"
  ELSE LET op == OpToward(instances[i].desired, reports[i])
       IN IF \E c \in pending[n] : c.instance = i /\ c.op = op THEN "none" ELSE op

\* The declarations are a hash map: the commands of one heartbeat are numbered
\* in any order.
Numberings(S, from) ==
  {f \in [S -> (from + 1)..(from + Cardinality(S))] : \A i, j \in S : f[i] = f[j] => i = j}

\* Mutant of enqueue_reconcile: a missing decision is enqueued as well.
EnqueueEveryDeclared(n, reports) ==
  LET out == declared_for(n)
  IN /\ seq[n] + Cardinality(out) <= MaxSeq
     /\ \E number \in Numberings(out, seq[n]) :
          pending' = [pending EXCEPT ![n] = @ \cup
            {[seq |-> number[i], op |-> desired_command(n, i, reports), instance |-> i] : i \in out}]
     /\ seq' = [seq EXCEPT ![n] = @ + Cardinality(out)]

enqueue_reconcile(n, reports) ==
  LET out == {i \in declared_for(n) : desired_command(n, i, reports) # "none"}
  IN /\ seq[n] + Cardinality(out) <= MaxSeq
     /\ \E number \in Numberings(out, seq[n]) :
          pending' = [pending EXCEPT ![n] = @ \cup
            {[seq |-> number[i], op |-> desired_command(n, i, reports), instance |-> i] : i \in out}]
     /\ seq' = [seq EXCEPT ![n] = @ + Cardinality(out)]

-----------------------------------------------------------------------------
(* Manager API (registry.rs).  A call changes memory under the lock and saves *)
(* the file under a second acquisition of it.                                 *)

Change(decls) ==
  /\ changes + upsets < MaxChanges
  /\ decls # instances
  /\ changes' = changes + 1
  /\ instances' = decls
  /\ UNCHANGED <<disk, pending, seq, agentVars, upsets, planeRestarts, agentRestarts>>

declare_instance(i, n, d) ==
  Change([instances EXCEPT ![i] = [node |-> n, desired |-> d]])

remove_instance(i) == Change([instances EXCEPT ![i] = None])

set_desired(i, d) ==
  /\ instances[i] # None
  /\ Change([instances EXCEPT ![i].desired = d])

persist ==
  /\ disk # instances
  /\ disk' = instances
  /\ UNCHANGED <<instances, pending, seq, agentVars, bounds>>

\* A new plane process loads the file; queues and counters start empty.
PlaneRestart ==
  /\ planeRestarts < MaxPlaneRestarts
  /\ planeRestarts' = planeRestarts + 1
  /\ instances' = disk
  /\ pending' = [n \in Nodes |-> {}]
  /\ seq' = [n \in Nodes |-> 0]
  /\ UNCHANGED <<disk, agentVars, changes, upsets, agentRestarts>>

-----------------------------------------------------------------------------
Nothing == [i \in Instances |-> None]

(* One round of an agent (agent.rs): heartbeat, dispatch, reconcile. *)

\* The tick: snapshot every manager and post the heartbeat.
build_heartbeat(n) ==
  /\ phase[n] = "idle"
  /\ \A i \in Instances : managers[n][i] # None => Len(managers[n][i].ops) <= MaxOps
  /\ report' = [report EXCEPT ![n] =
       [i \in Instances |-> IF managers[n][i] = None THEN None ELSE managers[n][i].state]]
  /\ phase' = [phase EXCEPT ![n] = "sent"]
  /\ UNCHANGED <<planeVars, todo, wish, lastSeq, managers, bounds>>

\* The plane handles the heartbeat; what it does is the same whether or not its
\* response then reaches the agent.
heartbeat(n) ==
  /\ phase[n] = "sent"
  /\ enqueue_reconcile(n, report[n])
  /\ report' = [report EXCEPT ![n] = Nothing]
  /\ UNCHANGED <<instances, disk, lastSeq, managers, bounds>>

\* What the agent keeps of a response: commands above `from`.
Respond(n, from) ==
  /\ heartbeat(n)
  /\ phase' = [phase EXCEPT ![n] = "dispatch"]
  /\ todo' = [todo EXCEPT ![n] = {c \in pending'[n] : c.seq > from}]
  /\ wish' = [wish EXCEPT ![n] =
       [i \in Instances |-> IF i \in declared_for(n) THEN instances[i] ELSE None]]

\* Mutants of HeartbeatAnswered: no number is skipped; one too many is.
AnsweredWithoutSkip(n) == Respond(n, 0)
AnsweredSkipsOneMore(n) == Respond(n, lastSeq[n] + 1)

\* The response arrives.  Commands up to lastSeq are skipped, without an ack.
HeartbeatAnswered(n) == Respond(n, lastSeq[n])

ResponseLost(n) ==
  /\ heartbeat(n)
  /\ phase' = [phase EXCEPT ![n] = "idle"]
  /\ UNCHANGED <<todo, wish>>

RequestLost(n) ==
  /\ phase[n] = "sent"
  /\ phase' = [phase EXCEPT ![n] = "idle"]
  /\ report' = [report EXCEPT ![n] = Nothing]
  /\ UNCHANGED <<planeVars, todo, wish, lastSeq, managers, bounds>>

\* c is the next command of the response.
IsNext(n, c) == c \in todo[n] /\ \A d \in todo[n] : c.seq <= d.seq

SendOp(m, op) == [m EXCEPT !.ops = Append(@, op)]

\* Execute one command: hand it to the manager (an unknown instance gets a
\* negative ack), remember its number, send the ack.
dispatch(n) ==
  /\ phase[n] = "dispatch"
  /\ \E c \in todo[n] :
       /\ IsNext(n, c)
       /\ managers' = IF managers[n][c.instance] = None THEN managers
                      ELSE [managers EXCEPT ![n][c.instance] = SendOp(@, c.op)]
       /\ lastSeq' = [lastSeq EXCEPT ![n] = c.seq]
  /\ phase' = [phase EXCEPT ![n] = "ack"]
  /\ UNCHANGED <<planeVars, report, todo, wish, bounds>>

\* Mutant of Retained: an ack also drops the commands behind it.
RetainedEarlier(s) == [n \in Nodes |-> {c \in pending[n] : c.seq < s}]

\* The plane's handling of an ack: the number leaves every node's queue.
Retained(s) == [n \in Nodes |-> {c \in pending[n] : c.seq # s}]

AgentContinues(n, c) ==
  /\ todo' = [todo EXCEPT ![n] = @ \ {c}]
  /\ phase' = [phase EXCEPT ![n] = "dispatch"]

ack(n) ==
  /\ phase[n] = "ack"
  /\ \E c \in todo[n] :
       /\ IsNext(n, c)
       /\ pending' = Retained(c.seq)
       /\ AgentContinues(n, c)
  /\ UNCHANGED <<instances, disk, seq, report, wish, lastSeq, managers, bounds>>

\* The ack fails; the agent only logs it.
AckLost(n) ==
  /\ AckLoss
  /\ phase[n] = "ack"
  /\ \E c \in todo[n] : IsNext(n, c) /\ AgentContinues(n, c)
  /\ UNCHANGED <<planeVars, report, wish, lastSeq, managers, bounds>>

\* spawn_with_desired: what the new supervisor will do before it takes commands.
spawn_with_desired(desired) ==
  [state |-> "starting",
   ops   |-> CASE desired = "stopped" -> <<"halt">>
               [] desired = "paused"  -> <<"pause">>
               [] OTHER               -> <<>>]

\* Mutant of reconcile: stale managers are kept.
ReconcileKeepsStale(n) ==
  /\ phase[n] = "dispatch"
  /\ todo[n] = {}
  /\ managers' = [managers EXCEPT ![n] = [i \in Instances |->
       IF managers[n][i] # None \/ wish[n][i] = None THEN managers[n][i]
       ELSE spawn_with_desired(wish[n][i].desired)]]
  /\ phase' = [phase EXCEPT ![n] = "idle"]
  /\ wish' = [wish EXCEPT ![n] = Nothing]
  /\ UNCHANGED <<planeVars, report, todo, lastSeq, bounds>>

\* End of the round: spawn the missing managers, drop the stale ones.
reconcile(n) ==
  /\ phase[n] = "dispatch"
  /\ todo[n] = {}
  /\ managers' = [managers EXCEPT ![n] = [i \in Instances |->
       IF wish[n][i] = None THEN None
       ELSE IF managers[n][i] # None THEN managers[n][i]
       ELSE spawn_with_desired(wish[n][i].desired)]]
  /\ phase' = [phase EXCEPT ![n] = "idle"]
  /\ wish' = [wish EXCEPT ![n] = Nothing]
  /\ UNCHANGED <<planeVars, report, todo, lastSeq, bounds>>

\* Agent::new: one running manager per instance of agent.yaml.
ConfiguredManagers(n) ==
  [i \in Instances |-> IF i \in LocalConfig[n] THEN spawn_with_desired("running") ELSE None]

\* The agent process ends and a new one starts.
AgentRestart(n) ==
  /\ agentRestarts < MaxAgentRestarts
  /\ agentRestarts' = agentRestarts + 1
  /\ phase' = [phase EXCEPT ![n] = "idle"]
  /\ report' = [report EXCEPT ![n] = Nothing]
  /\ todo' = [todo EXCEPT ![n] = {}]
  /\ wish' = [wish EXCEPT ![n] = Nothing]
  /\ lastSeq' = [lastSeq EXCEPT ![n] = 0]
  /\ managers' = [managers EXCEPT ![n] = ConfiguredManagers(n)]
  /\ UNCHANGED <<planeVars, changes, upsets, planeRestarts>>

-----------------------------------------------------------------------------
(* The supervisor as the protocol sees it (instance.rs, process.rs). *)

Busy == {"starting", "restarting", "stopping"}

SetManager(n, i, m) ==
  /\ managers' = [managers EXCEPT ![n][i] = m]
  /\ UNCHANGED <<planeVars, phase, report, todo, wish, lastSeq, changes, planeRestarts, agentRestarts>>

Upset ==
  /\ upsets < MaxUpsets /\ changes + upsets < MaxChanges
  /\ upsets' = upsets + 1

\* Take the next operation.  Pause and resume are answered by the instance's
\* admin API, which may refuse; start is ignored unless stopped or failed.
handle_command(n, i) ==
  LET m == managers[n][i]
      To(s) == SetManager(n, i, [m EXCEPT !.state = s, !.ops = Tail(@)])
  IN /\ m # None
     /\ m.state \notin Busy
     /\ m.ops # <<>>
     /\ \/ /\ Head(m.ops) = "start"
           /\ To(IF m.state \in {"stopped", "failed"} THEN "starting" ELSE m.state)
           /\ UNCHANGED upsets
        \/ /\ Head(m.ops) = "stop"
           /\ To("stopping")
           /\ UNCHANGED upsets
        \/ /\ Head(m.ops) \in {"pause", "resume"}
           /\ m.state \in {"running", "paused"}
           /\ To(IF Head(m.ops) = "pause" THEN "paused" ELSE "running")
           /\ UNCHANGED upsets
        \/ /\ Head(m.ops) \in {"pause", "resume"}
           /\ To(m.state)
           /\ IF m.state \in {"running", "paused"} THEN Upset ELSE UNCHANGED upsets

\* A transition under way ends: the process is spawned (or not), or has ended.
Settle(n, i) ==
  LET m == managers[n][i]
  IN /\ m # None
     /\ m.state \in Busy
     /\ \/ /\ m.state = "starting" /\ m.ops # <<>> /\ Head(m.ops) = "halt"
           /\ SetManager(n, i, [m EXCEPT !.state = "stopped", !.ops = Tail(@)])
           /\ UNCHANGED upsets
        \/ /\ m.state = "stopping"
           /\ SetManager(n, i, [m EXCEPT !.state = "stopped"])
           /\ UNCHANGED upsets
        \/ /\ m.state \in {"starting", "restarting"} /\ ~(m.ops # <<>> /\ Head(m.ops) = "halt")
           /\ \/ SetManager(n, i, [m EXCEPT !.state = "running"]) /\ UNCHANGED upsets
              \/ SetManager(n, i, [m EXCEPT !.state = "failed"]) /\ Upset

\* A tick finds the process gone or unhealthy: restart it, or fail when the
\* restart budget is spent.
ProcessDied(n, i) ==
  /\ managers[n][i] # None
  /\ managers[n][i].state \in {"running", "paused"}
  /\ \E s \in {"restarting", "failed"} : SetManager(n, i, [managers[n][i] EXCEPT !.state = s])
  /\ Upset

-----------------------------------------------------------------------------
Init ==
  /\ instances = [i \in Instances |-> None]
  /\ disk = instances
  /\ pending = [n \in Nodes |-> {}]
  /\ seq = [n \in Nodes |-> 0]
  /\ phase = [n \in Nodes |-> "idle"]
  /\ report = [n \in Nodes |-> Nothing]
  /\ todo = [n \in Nodes |-> {}]
  /\ wish = [n \in Nodes |-> Nothing]
  /\ lastSeq = [n \in Nodes |-> 0]
  /\ managers = [n \in Nodes |-> ConfiguredManagers(n)]
  /\ changes = 0 /\ upsets = 0 /\ planeRestarts = 0 /\ agentRestarts = 0

ManagerApi ==
  \/ \E i \in Instances, n \in Nodes, d \in Desired : declare_instance(i, n, d)
  \/ \E i \in Instances, d \in Desired : set_desired(i, d)
  \/ \E i \in Instances : remove_instance(i)
  \/ persist

AgentRound(n) ==
  \/ build_heartbeat(n)
  \/ HeartbeatAnswered(n)
  \/ ResponseLost(n)
  \/ RequestLost(n)
  \/ dispatch(n)
  \/ ack(n)
  \/ AckLost(n)
  \/ reconcile(n)

SupervisorStep(n, i) ==
  \/ handle_command(n, i)
  \/ Settle(n, i)
  \/ ProcessDied(n, i)

Next ==
  \/ ManagerApi
  \/ PlaneRestart
  \/ \E n \in Nodes : AgentRound(n) \/ AgentRestart(n)
  \/ \E n \in Nodes, i \in Instances : SupervisorStep(n, i)

Spec == Init /\ [][Next]_vars

(* The tasks of the runtime are scheduled fairly, a management call finishes, *)
(* and a heartbeat sent again and again is answered again and again.          *)
Fairness ==
  /\ WF_vars(persist)
  /\ \A n \in Nodes :
       /\ WF_vars(build_heartbeat(n))
       /\ SF_vars(HeartbeatAnswered(n))
       /\ WF_vars(dispatch(n))
       /\ WF_vars(ack(n) \/ AckLost(n))
       /\ WF_vars(reconcile(n))
       /\ \A i \in Instances : WF_vars(handle_command(n, i)) /\ WF_vars(Settle(n, i))

FairSpec == Spec /\ Fairness
-----------------------------------------------------------------------------
(* Safety. *)

\* Every variable has the shape the code gives it.
TypeOK ==
  /\ instances \in [Instances -> InstanceDecl \cup {None}]
  /\ disk \in [Instances -> InstanceDecl \cup {None}]
  /\ pending \in [Nodes -> SUBSET Command]
  /\ seq \in [Nodes -> Nat]
  /\ phase \in [Nodes -> {"idle", "sent", "dispatch", "ack"}]
  /\ report \in [Nodes -> [Instances -> InstanceState \cup {None}]]
  /\ todo \in [Nodes -> SUBSET Command]
  /\ wish \in [Nodes -> [Instances -> InstanceDecl \cup {None}]]
  /\ lastSeq \in [Nodes -> Nat]
  /\ managers \in [Nodes -> [Instances -> Manager \cup {None}]]
  /\ changes \in Nat /\ upsets \in Nat /\ planeRestarts \in Nat /\ agentRestarts \in Nat

\* reconcile.rs: heartbeats repeated while a command is unacknowledged (a lost
\* response, a slow supervisor, a report older than the command) never queue the
\* same operation for the same instance twice, and no two commands of a node
\* share a number, so an ack names one command of that node.
QueueHasNoDuplicates ==
  \A n \in Nodes : \A c, d \in pending[n] :
    (c.seq = d.seq \/ (c.instance = d.instance /\ c.op = d.op)) => c = d

\* agent.rs dispatch: however often the plane repeats its queue, and whatever
\* acks were lost, the commands one agent process executes have ever larger
\* numbers, so it executes none twice.
ExecutesEachCommandOnce ==
  [][\A n \in Nodes : (phase[n] = "dispatch" /\ phase'[n] = "ack") => lastSeq'[n] > lastSeq[n]]_vars

\* registry.rs ack, "at-least-once delivery": while the plane process lives, the
\* only command that leaves a node's queue is the one whose execution that node's
\* agent is acknowledging.
CommandLeavesQueueExecuted ==
  [][planeRestarts' = planeRestarts =>
       \A n \in Nodes : \A c \in pending[n] \ pending'[n] : phase[n] = "ack" /\ IsNext(n, c)]_vars

-----------------------------------------------------------------------------
(* Convergence. *)

\* Instance i is where its declaration wants it, and nowhere else.  No command
\* is due for a failed instance that should be stopped: it has no process.
AtDesired(i) ==
  \A n \in Nodes :
    IF i \in declared_for(n)
    THEN /\ managers[n][i] # None
         /\ \/ managers[n][i].state = instances[i].desired
            \/ instances[i].desired = "stopped" /\ managers[n][i].state = "failed"
    ELSE managers[n][i] = None

\* Once the manager calls and the crashes end, every instance reaches its desired
\* state and stays there, on its declared node and on no other.
Converges == <>[](\A i \in Instances : AtDesired(i))

\* agent.rs reconcile: whatever acks were lost and whatever restarted, the set of
\* managers of each agent ends up as the set of declarations of its node.
ManagedSetConverges ==
  <>[](\A n \in Nodes : {i \in Instances : managers[n][i] # None} = declared_for(n))
=============================================================================
