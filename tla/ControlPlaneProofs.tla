------------------------- MODULE ControlPlaneProofs -------------------------
(***************************************************************************)
(* Proofs about ControlPlane for every set of nodes, every finite set of   *)
(* instances and every value of the bounds.                                *)
(***************************************************************************)
EXTENDS ControlPlane, FiniteSetTheorems, TLAPS

(* The inductive invariant.  QueueHasNoDuplicates is not inductive alone: a new *)
(* number must be larger than the queued ones (NumbersBounded).  That dispatch  *)
(* only moves forward needs the commands an agent holds to lie above lastSeq,   *)
(* or, while one of them is being acknowledged, at lastSeq, and to have         *)
(* different numbers (HeldCommandsAhead, HeldNumbersDistinct).                  *)
NumbersBounded == \A n \in Nodes : \A c \in pending[n] : c.seq <= seq[n]

HeldNumbersDistinct == \A n \in Nodes : \A c, d \in todo[n] : c.seq = d.seq => c = d

HeldCommandsAhead ==
  \A n \in Nodes : \A c \in todo[n] :
    IF phase[n] = "ack" THEN c.seq >= lastSeq[n] ELSE c.seq > lastSeq[n]

IInv == TypeOK /\ NumbersBounded /\ QueueHasNoDuplicates /\ HeldNumbersDistinct /\ HeldCommandsAhead

-----------------------------------------------------------------------------
(* Lemmas about the operators of the model. *)

\* What desired_command decides is an operation or "none".
LEMMA DesiredCommandType ==
  ASSUME NEW n, NEW i, NEW reports
  PROVE  desired_command(n, i, reports) \in Ops \cup {"none"}
BY DEF desired_command, OpToward, Ops

\* An operation it decides on is not in the queue of that instance.
LEMMA DesiredCommandNew ==
  ASSUME NEW n, NEW i, NEW reports, desired_command(n, i, reports) # "none"
  PROVE  \A c \in pending[n] : ~(c.instance = i /\ c.op = desired_command(n, i, reports))
BY DEF desired_command

\* The instances of a node are finitely many, so a heartbeat numbers finitely
\* many commands.
LEMMA FiniteOut ==
  ASSUME NEW S \in SUBSET Instances
  PROVE  IsFiniteSet(S) /\ Cardinality(S) \in Nat
BY ConstantsAssumption, FS_Subset, FS_CardinalityType

\* A new manager is well typed.
LEMMA SpawnType ==
  ASSUME NEW d
  PROVE  spawn_with_desired(d) \in Manager
<1>1. <<"halt">> \in Seq(Ops \cup {"halt"}) /\ <<"pause">> \in Seq(Ops \cup {"halt"})
      /\ <<>> \in Seq(Ops \cup {"halt"})
  BY DEF Ops
<1>2. CASE d = "stopped"
  BY <1>1, <1>2 DEF spawn_with_desired, Manager, InstanceState
<1>3. CASE d = "paused"
  BY <1>1, <1>3 DEF spawn_with_desired, Manager, InstanceState
<1>4. CASE d # "stopped" /\ d # "paused"
  BY <1>1, <1>4 DEF spawn_with_desired, Manager, InstanceState
<1>. QED BY <1>2, <1>3, <1>4

\* A manager that is sent an operation stays well typed.
LEMMA SendOpType ==
  ASSUME NEW m \in Manager, NEW op \in Ops
  PROVE  SendOp(m, op) \in Manager
BY DEF SendOp, Manager

\* Replacing one manager of one node keeps the managers well typed.
LEMMA ManagersUpdate ==
  ASSUME managers \in [Nodes -> [Instances -> Manager \cup {None}]],
         NEW n \in Nodes, NEW i \in Instances, NEW m \in Manager \cup {None}
  PROVE  [managers EXCEPT ![n][i] = m] \in [Nodes -> [Instances -> Manager \cup {None}]]
OBVIOUS

-----------------------------------------------------------------------------
(* Type correctness, one lemma per group of actions. *)

\* The first state is well typed.
LEMMA InitType == Init => TypeOK
BY ConstantsAssumption, SpawnType DEF Init, TypeOK, Nothing, ConfiguredManagers

\* Requests of the manager keep the types.
LEMMA ManagerApiType == TypeOK /\ ManagerApi => TypeOK'
<1>1. ASSUME TypeOK, NEW decls \in [Instances -> InstanceDecl \cup {None}], Change(decls)
      PROVE  TypeOK'
  BY <1>1 DEF TypeOK, Change, agentVars
<1>2. ASSUME TypeOK, NEW i \in Instances, NEW n \in Nodes, NEW d \in Desired,
             declare_instance(i, n, d)
      PROVE  TypeOK'
  <2>1. [instances EXCEPT ![i] = [node |-> n, desired |-> d]] \in [Instances -> InstanceDecl \cup {None}]
    BY <1>2 DEF TypeOK, InstanceDecl
  <2>. QED BY <1>1, <1>2, <2>1 DEF declare_instance
<1>3. ASSUME TypeOK, NEW i \in Instances, NEW d \in Desired, set_desired(i, d)
      PROVE  TypeOK'
  <2>1. instances[i] \in InstanceDecl
    BY <1>3 DEF TypeOK, set_desired
  <2>2. [instances EXCEPT ![i].desired = d] \in [Instances -> InstanceDecl \cup {None}]
    BY <1>3, <2>1 DEF TypeOK, InstanceDecl
  <2>. QED BY <1>1, <1>3, <2>2 DEF set_desired
<1>4. ASSUME TypeOK, NEW i \in Instances, remove_instance(i)
      PROVE  TypeOK'
  <2>1. [instances EXCEPT ![i] = None] \in [Instances -> InstanceDecl \cup {None}]
    BY <1>4 DEF TypeOK
  <2>. QED BY <1>1, <1>4, <2>1 DEF remove_instance
<1>5. TypeOK /\ persist => TypeOK'
  BY DEF TypeOK, persist, agentVars, bounds
<1>. QED BY <1>2, <1>3, <1>4, <1>5 DEF ManagerApi

\* So does a restart of the plane.
LEMMA PlaneRestartType == TypeOK /\ PlaneRestart => TypeOK'
BY DEF TypeOK, PlaneRestart, agentVars

\* The commands a heartbeat adds are numbered above seq, all differently, and
\* carry an operation that was not queued for their instance.
LEMMA EnqueuedCommands ==
  ASSUME TypeOK, NEW n \in Nodes, NEW reports, enqueue_reconcile(n, reports)
  PROVE  \E added \in SUBSET Command :
           /\ pending' = [pending EXCEPT ![n] = @ \cup added]
           /\ seq' \in [Nodes -> Nat]
           /\ \A m \in Nodes : seq'[m] >= seq[m]
           /\ \A c \in added : c.seq > seq[n] /\ c.seq <= seq'[n]
           /\ \A c, d \in added : (c.seq = d.seq \/ c.instance = d.instance) => c = d
           /\ \A c \in added, d \in pending[n] : ~(c.instance = d.instance /\ c.op = d.op)
<1> DEFINE out == {i \in declared_for(n) : desired_command(n, i, reports) # "none"}
<1>1. out \in SUBSET Instances
  BY DEF declared_for
<1>2. Cardinality(out) \in Nat
  BY <1>1, FiniteOut
<1>3. PICK number \in Numberings(out, seq[n]) :
        pending' = [pending EXCEPT ![n] = @ \cup
          {[seq |-> number[i], op |-> desired_command(n, i, reports), instance |-> i] : i \in out}]
  BY DEF enqueue_reconcile
<1> DEFINE added == {[seq |-> number[i], op |-> desired_command(n, i, reports), instance |-> i] : i \in out}
<1>4. seq' = [seq EXCEPT ![n] = @ + Cardinality(out)]
  BY DEF enqueue_reconcile
<1>5. seq[n] \in Nat
  BY DEF TypeOK
<1>6. \A i \in out : /\ number[i] \in (seq[n] + 1)..(seq[n] + Cardinality(out))
                     /\ \A j \in out : number[i] = number[j] => i = j
  BY DEF Numberings
<1>7. \A i \in out : number[i] \in Nat /\ number[i] > seq[n] /\ number[i] <= seq[n] + Cardinality(out)
  <2> HIDE DEF out
  <2> QED BY <1>2, <1>5, <1>6
<1>8. \A i \in out : desired_command(n, i, reports) \in Ops
  BY DesiredCommandType
<1>9. added \in SUBSET Command
  <2>1. \A i \in out : [seq |-> number[i], op |-> desired_command(n, i, reports), instance |-> i] \in Command
    <3> HIDE DEF out
    <3> QED BY <1>1, <1>7, <1>8 DEF Command
  <2> QED BY <2>1
<1>10. seq' \in [Nodes -> Nat] /\ seq'[n] = seq[n] + Cardinality(out)
  BY <1>2, <1>4 DEF TypeOK
<1>11. \A m \in Nodes : seq'[m] >= seq[m]
  BY <1>2, <1>4 DEF TypeOK
<1>12. \A c \in added : c.seq > seq[n] /\ c.seq <= seq'[n]
  BY <1>7, <1>10
<1>13. \A c, d \in added : (c.seq = d.seq \/ c.instance = d.instance) => c = d
  BY <1>6
<1>14. \A c \in added, d \in pending[n] : ~(c.instance = d.instance /\ c.op = d.op)
  BY DesiredCommandNew
<1>. QED BY <1>3, <1>9, <1>10, <1>11, <1>12, <1>13, <1>14

\* So does every step of an agent's round.
LEMMA AgentRoundType ==
  ASSUME TypeOK, NEW n \in Nodes, AgentRound(n)
  PROVE  TypeOK'
<1>1. CASE build_heartbeat(n)
  <2>1. [i \in Instances |-> IF managers[n][i] = None THEN None ELSE managers[n][i].state]
          \in [Instances -> InstanceState \cup {None}]
    BY DEF TypeOK, Manager
  <2>. QED BY <1>1, <2>1 DEF build_heartbeat, TypeOK, planeVars, bounds
<1>2. CASE HeartbeatAnswered(n)
  <2>1. PICK added \in SUBSET Command : pending' = [pending EXCEPT ![n] = @ \cup added] /\ seq' \in [Nodes -> Nat]
    BY <1>2, EnqueuedCommands DEF HeartbeatAnswered, Respond, heartbeat
  <2>2. [i \in Instances |-> IF i \in declared_for(n) THEN instances[i] ELSE None]
          \in [Instances -> InstanceDecl \cup {None}]
    BY DEF TypeOK, declared_for, InstanceDecl
  <2>3. pending' \in [Nodes -> SUBSET Command]
    BY <2>1 DEF TypeOK
  <2>4. todo' \in [Nodes -> SUBSET Command]
    BY <1>2, <2>3 DEF HeartbeatAnswered, Respond, TypeOK
  <2>. QED BY <1>2, <2>1, <2>2, <2>3, <2>4 DEF HeartbeatAnswered, Respond, heartbeat, TypeOK, bounds, Nothing
<1>3. CASE ResponseLost(n)
  <2>1. PICK added \in SUBSET Command : pending' = [pending EXCEPT ![n] = @ \cup added] /\ seq' \in [Nodes -> Nat]
    BY <1>3, EnqueuedCommands DEF ResponseLost, heartbeat
  <2>. QED BY <1>3, <2>1 DEF ResponseLost, heartbeat, TypeOK, bounds, Nothing
<1>4. CASE RequestLost(n)
  BY <1>4 DEF RequestLost, TypeOK, planeVars, bounds, Nothing
<1>5. CASE dispatch(n)
  <2>1. PICK c \in todo[n] :
          /\ managers' = IF managers[n][c.instance] = None THEN managers
                         ELSE [managers EXCEPT ![n][c.instance] = SendOp(@, c.op)]
          /\ lastSeq' = [lastSeq EXCEPT ![n] = c.seq]
    BY <1>5 DEF dispatch
  <2>2. c.seq \in Nat /\ c.op \in Ops /\ c.instance \in Instances
    BY <2>1 DEF TypeOK, Command
  <2>3. managers' \in [Nodes -> [Instances -> Manager \cup {None}]]
    <3>1. CASE managers[n][c.instance] = None
      BY <2>1, <3>1 DEF TypeOK
    <3>2. CASE managers[n][c.instance] # None
      <4>1. managers[n][c.instance] \in Manager
        BY <2>2, <3>2 DEF TypeOK
      <4>2. SendOp(managers[n][c.instance], c.op) \in Manager
        BY <2>2, <4>1, SendOpType
      <4>3. managers' = [managers EXCEPT ![n][c.instance] = SendOp(managers[n][c.instance], c.op)]
        BY <2>1, <2>2, <3>2 DEF TypeOK
      <4>. QED BY <2>2, <4>2, <4>3, ManagersUpdate DEF TypeOK
    <3>. QED BY <3>1, <3>2
  <2>4. lastSeq' \in [Nodes -> Nat]
    BY <2>1, <2>2 DEF TypeOK
  <2>. QED BY <1>5, <2>3, <2>4 DEF dispatch, TypeOK, planeVars, bounds
<1>6. CASE ack(n)
  BY <1>6 DEF ack, Retained, AgentContinues, TypeOK, bounds
<1>7. CASE AckLost(n)
  BY <1>7 DEF AckLost, AgentContinues, TypeOK, planeVars, bounds
<1>8. CASE reconcile(n)
  <2>1. [i \in Instances |-> IF wish[n][i] = None THEN None
           ELSE IF managers[n][i] # None THEN managers[n][i]
           ELSE spawn_with_desired(wish[n][i].desired)] \in [Instances -> Manager \cup {None}]
    BY SpawnType DEF TypeOK, InstanceDecl
  <2>. QED BY <1>8, <2>1 DEF reconcile, TypeOK, planeVars, bounds, Nothing
<1>. QED BY <1>1, <1>2, <1>3, <1>4, <1>5, <1>6, <1>7, <1>8 DEF AgentRound

\* So does a restart of an agent.
LEMMA AgentRestartType ==
  ASSUME TypeOK, NEW n \in Nodes, AgentRestart(n)
  PROVE  TypeOK'
<1>1. ConfiguredManagers(n) \in [Instances -> Manager \cup {None}]
  BY SpawnType, ConstantsAssumption DEF ConfiguredManagers
<1>. QED BY <1>1 DEF AgentRestart, TypeOK, planeVars, Nothing

\* A supervisor step replaces one manager by a well-typed one and may count an upset.
LEMMA SupervisorStepEffect ==
  ASSUME TypeOK, NEW n \in Nodes, NEW i \in Instances, SupervisorStep(n, i)
  PROVE  /\ \E m \in Manager : SetManager(n, i, m)
         /\ upsets' \in Nat
<1>1. managers[n][i] # None /\ managers[n][i] \in Manager
  BY DEF SupervisorStep, handle_command, Settle, ProcessDied, TypeOK
<1> DEFINE m == managers[n][i]
<1>2. m.state \in InstanceState /\ m.ops \in Seq(Ops \cup {"halt"})
  BY <1>1 DEF Manager
<1>3. m.ops # <<>> => Tail(m.ops) \in Seq(Ops \cup {"halt"})
  BY <1>2
<1>4. \A s \in InstanceState : /\ [m EXCEPT !.state = s] \in Manager
                               /\ m.ops # <<>> => [m EXCEPT !.state = s, !.ops = Tail(@)] \in Manager
  BY <1>1, <1>3 DEF Manager
<1>5. {"starting", "restarting", "stopping", "stopped", "running", "paused", "failed"} \subseteq InstanceState
  BY DEF InstanceState
<1>6. upsets \in Nat
  BY DEF TypeOK
<1>7. CASE handle_command(n, i)
  <2> HIDE DEF m
  <2>1. PICK s \in InstanceState : SetManager(n, i, [m EXCEPT !.state = s, !.ops = Tail(@)])
    BY <1>2, <1>5, <1>7 DEF handle_command, m
  <2>2. m.ops # <<>>
    BY <1>7 DEF handle_command, m
  <2>3. upsets' \in Nat
    BY <1>6, <1>7 DEF handle_command, Upset
  <2>. QED BY <1>4, <2>1, <2>2, <2>3
<1>8. CASE Settle(n, i)
  <2>1. \/ m.ops # <<>> /\ SetManager(n, i, [m EXCEPT !.state = "stopped", !.ops = Tail(@)])
        \/ \E s \in InstanceState : SetManager(n, i, [m EXCEPT !.state = s])
    BY <1>5, <1>8 DEF Settle
  <2>2. upsets' \in Nat
    BY <1>6, <1>8 DEF Settle, Upset
  <2>3. CASE m.ops # <<>> /\ SetManager(n, i, [m EXCEPT !.state = "stopped", !.ops = Tail(@)])
    BY <1>4, <1>5, <2>2, <2>3
  <2>4. CASE \E s \in InstanceState : SetManager(n, i, [m EXCEPT !.state = s])
    BY <1>4, <2>2, <2>4
  <2>. QED BY <2>1, <2>3, <2>4
<1>9. CASE ProcessDied(n, i)
  <2>1. PICK s \in InstanceState : SetManager(n, i, [m EXCEPT !.state = s])
    BY <1>5, <1>9 DEF ProcessDied
  <2>2. upsets' \in Nat
    BY <1>6, <1>9 DEF ProcessDied, Upset
  <2>. QED BY <1>4, <2>1, <2>2
<1>. QED BY <1>7, <1>8, <1>9 DEF SupervisorStep

\* So does a step of a supervisor.
LEMMA SupervisorStepType ==
  ASSUME TypeOK, NEW n \in Nodes, NEW i \in Instances, SupervisorStep(n, i)
  PROVE  TypeOK'
<1>1. PICK m \in Manager : SetManager(n, i, m)
  BY SupervisorStepEffect
<1>2. managers' \in [Nodes -> [Instances -> Manager \cup {None}]]
  BY <1>1, ManagersUpdate DEF SetManager, TypeOK
<1>3. upsets' \in Nat
  BY SupervisorStepEffect
<1>. QED BY <1>1, <1>2, <1>3 DEF SetManager, TypeOK, planeVars

\* Every step keeps the types.
LEMMA TypeStep == TypeOK /\ [Next]_vars => TypeOK'
<1> SUFFICES ASSUME TypeOK, [Next]_vars PROVE TypeOK'
  OBVIOUS
<1>1. CASE ManagerApi
  BY <1>1, ManagerApiType
<1>2. CASE PlaneRestart
  BY <1>2, PlaneRestartType
<1>3. CASE \E n \in Nodes : AgentRound(n) \/ AgentRestart(n)
  BY <1>3, AgentRoundType, AgentRestartType
<1>4. CASE \E n \in Nodes, i \in Instances : SupervisorStep(n, i)
  BY <1>4, SupervisorStepType
<1>5. CASE UNCHANGED vars
  BY <1>5 DEF vars, TypeOK
<1>. QED BY <1>1, <1>2, <1>3, <1>4, <1>5 DEF Next

\* Every reachable state of plane and agents is well typed: in particular every
\* queued command carries one of the four operations an agent can execute.
THEOREM TypeCorrect == Spec => []TypeOK
BY InitType, TypeStep, PTL DEF Spec

-----------------------------------------------------------------------------
(* Queues and dispatch. *)

\* Init establishes the inductive invariant.
LEMMA InitIInv == Init => IInv
BY InitType DEF Init, IInv, NumbersBounded, QueueHasNoDuplicates, HeldNumbersDistinct, HeldCommandsAhead

\* A plane that handles a heartbeat keeps its queues free of duplicates.
LEMMA HeartbeatQueues ==
  ASSUME IInv, NEW n \in Nodes, heartbeat(n)
  PROVE  NumbersBounded' /\ QueueHasNoDuplicates'
<1>1. TypeOK
  BY DEF IInv
<1>2. PICK added \in SUBSET Command :
           /\ pending' = [pending EXCEPT ![n] = @ \cup added]
           /\ seq' \in [Nodes -> Nat]
           /\ \A m \in Nodes : seq'[m] >= seq[m]
           /\ \A c \in added : c.seq > seq[n] /\ c.seq <= seq'[n]
           /\ \A c, d \in added : (c.seq = d.seq \/ c.instance = d.instance) => c = d
           /\ \A c \in added, d \in pending[n] : ~(c.instance = d.instance /\ c.op = d.op)
  BY <1>1, EnqueuedCommands DEF heartbeat
<1>3. /\ pending'[n] = pending[n] \cup added
      /\ \A m \in Nodes : m # n => pending'[m] = pending[m]
  BY <1>1, <1>2 DEF TypeOK
<1>4. \A m \in Nodes : seq[m] \in Nat /\ \A c \in pending[m] : c.seq \in Nat /\ c.seq <= seq[m]
  BY <1>1 DEF IInv, TypeOK, NumbersBounded, Command
<1>5. \A c \in added : c.seq \in Nat
  BY DEF Command
<1>6. NumbersBounded'
  <2> SUFFICES ASSUME NEW m \in Nodes, NEW c \in pending'[m] PROVE c.seq <= seq'[m]
    BY DEF NumbersBounded
  <2>0. seq'[m] \in Nat
    BY <1>2
  <2>1. CASE c \in pending[m]
    BY <1>2, <1>4, <2>0, <2>1
  <2>2. CASE m = n /\ c \in added
    BY <1>2, <2>2
  <2>. QED BY <1>3, <2>1, <2>2
<1>7. QueueHasNoDuplicates'
  <2> SUFFICES ASSUME NEW m \in Nodes, NEW c \in pending'[m], NEW d \in pending'[m],
                      c.seq = d.seq \/ (c.instance = d.instance /\ c.op = d.op)
               PROVE  c = d
    BY DEF QueueHasNoDuplicates
  <2>1. CASE c \in pending[m] /\ d \in pending[m]
    BY <2>1 DEF IInv, QueueHasNoDuplicates
  <2>2. CASE m = n /\ c \in added /\ d \in added
    BY <1>2, <2>2
  <2>3. CASE m = n /\ c \in added /\ d \in pending[n]
    BY <1>2, <1>4, <1>5, <2>3
  <2>4. CASE m = n /\ c \in pending[n] /\ d \in added
    BY <1>2, <1>4, <1>5, <2>4
  <2>. QED BY <1>3, <2>1, <2>2, <2>3, <2>4
<1>. QED BY <1>6, <1>7

\* Every step keeps the inductive invariant.
LEMMA IInvStep == IInv /\ [Next]_vars => IInv'
<1> SUFFICES ASSUME IInv, [Next]_vars PROVE IInv'
  OBVIOUS
<1>. USE DEF IInv
<1>0. TypeOK'
  BY TypeStep
<1>1. ASSUME UNCHANGED <<pending, seq, phase, todo, lastSeq>> PROVE IInv'
  BY <1>0, <1>1 DEF NumbersBounded, QueueHasNoDuplicates, HeldNumbersDistinct, HeldCommandsAhead
<1>2. CASE ManagerApi
  BY <1>1, <1>2 DEF ManagerApi, declare_instance, set_desired, remove_instance, Change, persist, agentVars
<1>3. CASE PlaneRestart
  BY <1>0, <1>3 DEF PlaneRestart, agentVars, NumbersBounded, QueueHasNoDuplicates, HeldNumbersDistinct, HeldCommandsAhead
<1>4. ASSUME NEW n \in Nodes, AgentRound(n) PROVE IInv'
  <2>1. CASE build_heartbeat(n)
    BY <1>0, <2>1 DEF build_heartbeat, planeVars, TypeOK, NumbersBounded, QueueHasNoDuplicates, HeldNumbersDistinct, HeldCommandsAhead
  <2>2. CASE HeartbeatAnswered(n)
    <3>1. NumbersBounded' /\ QueueHasNoDuplicates'
      BY <2>2, HeartbeatQueues DEF HeartbeatAnswered, Respond
    <3>2. /\ todo'[n] = {c \in pending'[n] : c.seq > lastSeq[n]}
          /\ \A m \in Nodes : m # n => todo'[m] = todo[m] /\ phase'[m] = phase[m]
          /\ phase'[n] = "dispatch"
          /\ lastSeq' = lastSeq
      BY <2>2 DEF HeartbeatAnswered, Respond, heartbeat, TypeOK
    <3>3. HeldNumbersDistinct'
      BY <3>1, <3>2 DEF HeldNumbersDistinct, QueueHasNoDuplicates
    <3>4. HeldCommandsAhead'
      BY <3>2 DEF HeldCommandsAhead
    <3>. QED BY <1>0, <3>1, <3>3, <3>4
  <2>3. CASE ResponseLost(n)
    <3>1. NumbersBounded' /\ QueueHasNoDuplicates'
      BY <2>3, HeartbeatQueues DEF ResponseLost
    <3>2. HeldNumbersDistinct' /\ HeldCommandsAhead'
      BY <2>3 DEF ResponseLost, heartbeat, TypeOK, HeldNumbersDistinct, HeldCommandsAhead
    <3>. QED BY <1>0, <3>1, <3>2
  <2>4. CASE RequestLost(n)
    BY <1>0, <2>4 DEF RequestLost, planeVars, TypeOK, NumbersBounded, QueueHasNoDuplicates, HeldNumbersDistinct, HeldCommandsAhead
  <2>5. CASE dispatch(n)
    <3>1. PICK c \in todo[n] : IsNext(n, c) /\ lastSeq' = [lastSeq EXCEPT ![n] = c.seq]
      BY <2>5 DEF dispatch
    <3>2. pending' = pending /\ seq' = seq /\ todo' = todo /\ phase' = [phase EXCEPT ![n] = "ack"]
      BY <2>5 DEF dispatch, planeVars
    <3>3. HeldCommandsAhead'
      BY <3>1, <3>2 DEF HeldCommandsAhead, IsNext, TypeOK, Command
    <3>. QED BY <1>0, <3>2, <3>3 DEF NumbersBounded, QueueHasNoDuplicates, HeldNumbersDistinct
  <2>6. ASSUME NEW c \in todo[n], IsNext(n, c), phase[n] = "ack", AgentContinues(n, c), lastSeq' = lastSeq
        PROVE  HeldNumbersDistinct' /\ HeldCommandsAhead'
    <3>1. \A d \in todo[n] : d # c => d.seq > lastSeq[n]
      <4> SUFFICES ASSUME NEW d \in todo[n], d # c PROVE d.seq > lastSeq[n]
        OBVIOUS
      <4>1. lastSeq[n] \in Nat /\ c.seq \in Nat /\ d.seq \in Nat
        BY DEF TypeOK, Command
      <4>2. c.seq >= lastSeq[n] /\ c.seq <= d.seq /\ c.seq # d.seq
        BY <2>6 DEF HeldNumbersDistinct, HeldCommandsAhead, IsNext
      <4>. QED BY <4>1, <4>2
    <3>2. /\ todo'[n] = todo[n] \ {c} /\ phase'[n] = "dispatch"
          /\ \A m \in Nodes : m # n => todo'[m] = todo[m] /\ phase'[m] = phase[m]
      BY <2>6 DEF AgentContinues, TypeOK
    <3>. QED BY <2>6, <3>1, <3>2 DEF HeldNumbersDistinct, HeldCommandsAhead
  <2>7. CASE ack(n)
    <3>1. PICK c \in todo[n] : IsNext(n, c) /\ pending' = Retained(c.seq) /\ AgentContinues(n, c)
      BY <2>7 DEF ack
    <3>2. HeldNumbersDistinct' /\ HeldCommandsAhead'
      BY <2>6, <2>7, <3>1 DEF ack
    <3>3. NumbersBounded' /\ QueueHasNoDuplicates'
      BY <2>7, <3>1 DEF ack, Retained, NumbersBounded, QueueHasNoDuplicates
    <3>. QED BY <1>0, <3>2, <3>3
  <2>8. CASE AckLost(n)
    <3>1. HeldNumbersDistinct' /\ HeldCommandsAhead'
      BY <2>6, <2>8 DEF AckLost
    <3>2. NumbersBounded' /\ QueueHasNoDuplicates'
      BY <2>8 DEF AckLost, planeVars, NumbersBounded, QueueHasNoDuplicates
    <3>. QED BY <1>0, <3>1, <3>2
  <2>9. CASE reconcile(n)
    BY <1>0, <2>9 DEF reconcile, planeVars, TypeOK, NumbersBounded, QueueHasNoDuplicates, HeldNumbersDistinct, HeldCommandsAhead
  <2>. QED BY <1>4, <2>1, <2>2, <2>3, <2>4, <2>5, <2>7, <2>8, <2>9 DEF AgentRound
<1>5. ASSUME NEW n \in Nodes, AgentRestart(n) PROVE IInv'
  BY <1>0, <1>5 DEF AgentRestart, planeVars, TypeOK, NumbersBounded, QueueHasNoDuplicates, HeldNumbersDistinct, HeldCommandsAhead
<1>6. ASSUME NEW n \in Nodes, NEW i \in Instances, SupervisorStep(n, i) PROVE IInv'
  <2>1. PICK m \in Manager : SetManager(n, i, m)
    BY <1>6, SupervisorStepEffect
  <2>. QED BY <1>1, <2>1 DEF SetManager, planeVars
<1>7. CASE UNCHANGED vars
  BY <1>1, <1>7 DEF vars
<1>. QED BY <1>2, <1>3, <1>4, <1>5, <1>6, <1>7 DEF Next

\* The inductive invariant holds throughout.
LEMMA Invariance == Spec => []IInv
BY InitIInv, IInvStep, PTL DEF Spec

\* reconcile.rs: no queue of the plane ever holds two commands with one number
\* or the same operation for an instance twice.
THEOREM QueuesHaveNoDuplicates == Spec => []QueueHasNoDuplicates
<1>1. IInv => QueueHasNoDuplicates
  BY DEF IInv
<1>. QED BY Invariance, <1>1, PTL

\* agent.rs dispatch: the numbers an agent process executes only grow, under any
\* loss of requests, responses and acks and any restarts of the plane.
THEOREM DispatchOnlyMovesForward == Spec => ExecutesEachCommandOnce
<1>1. IInv /\ [Next]_vars =>
        [\A n \in Nodes : (phase[n] = "dispatch" /\ phase'[n] = "ack") => lastSeq'[n] > lastSeq[n]]_vars
  <2> SUFFICES ASSUME IInv, Next, NEW n \in Nodes, phase[n] = "dispatch", phase'[n] = "ack"
               PROVE  lastSeq'[n] > lastSeq[n]
    OBVIOUS
  <2>1. TypeOK
    BY DEF IInv
  <2>2. dispatch(n)
    <3>1. ~ManagerApi /\ ~PlaneRestart
      BY DEF ManagerApi, declare_instance, set_desired, remove_instance, Change, persist, PlaneRestart, agentVars
    <3>2. \A m \in Nodes : ~AgentRestart(m)
      BY <2>1 DEF AgentRestart, TypeOK
    <3>3. \A m \in Nodes : AgentRound(m) => dispatch(n)
      <4> SUFFICES ASSUME NEW m \in Nodes, AgentRound(m), ~dispatch(n) PROVE FALSE
        OBVIOUS
      <4>1. CASE m # n
        BY <2>1, <4>1 DEF AgentRound, build_heartbeat, HeartbeatAnswered, Respond, heartbeat, ResponseLost,
             RequestLost, dispatch, ack, AckLost, AgentContinues, reconcile, TypeOK
      <4>2. CASE m = n
        BY <2>1, <4>2 DEF AgentRound, build_heartbeat, HeartbeatAnswered, Respond, heartbeat, ResponseLost,
             RequestLost, ack, AckLost, AgentContinues, reconcile, TypeOK
      <4>. QED BY <4>1, <4>2
    <3>4. \A m \in Nodes, i \in Instances : ~SupervisorStep(m, i)
      BY <2>1, SupervisorStepEffect DEF SetManager
    <3>. QED BY <3>1, <3>2, <3>3, <3>4 DEF Next
  <2>3. PICK c \in todo[n] : lastSeq' = [lastSeq EXCEPT ![n] = c.seq]
    BY <2>2 DEF dispatch
  <2>. QED BY <2>1, <2>3 DEF IInv, HeldCommandsAhead, TypeOK
<1>. QED BY Invariance, <1>1, PTL DEF Spec, ExecutesEachCommandOnce

-----------------------------------------------------------------------------
(* One node, no plane restart: what an ack removes is what was executed.      *)
(* The number alone identifies the command because every command the agent    *)
(* holds agrees with the queued command of that number, and new numbers are   *)
(* larger than any it holds.                                                  *)

HeldAgreesWithQueue ==
  \A n \in Nodes : \A c \in todo[n] :
    c.seq <= seq[n] /\ \A d \in pending[n] : c.seq = d.seq => c = d

\* Commands an agent holds, or a response carries, are the queue's own.
LEMMA HeldAgreesStep ==
  ASSUME MaxPlaneRestarts = 0
  PROVE  IInv /\ IInv' /\ HeldAgreesWithQueue /\ [Next]_vars => HeldAgreesWithQueue'
<1> SUFFICES ASSUME IInv, IInv', HeldAgreesWithQueue, [Next]_vars PROVE HeldAgreesWithQueue'
  OBVIOUS
<1>0. TypeOK
  BY DEF IInv
<1>1. ASSUME UNCHANGED <<pending, seq, todo>> PROVE HeldAgreesWithQueue'
  BY <1>1 DEF HeldAgreesWithQueue
<1>2. CASE ManagerApi
  BY <1>1, <1>2 DEF ManagerApi, declare_instance, set_desired, remove_instance, Change, persist, agentVars
<1>3. ~PlaneRestart
  BY <1>0 DEF PlaneRestart, TypeOK
<1>4. ASSUME NEW n \in Nodes, heartbeat(n)
      PROVE  \A m \in Nodes : \A c \in todo[m] :
               c.seq <= seq'[m] /\ \A d \in pending'[m] : c.seq = d.seq => c = d
  <2>1. PICK added \in SUBSET Command :
           /\ pending' = [pending EXCEPT ![n] = @ \cup added]
           /\ seq' \in [Nodes -> Nat]
           /\ \A m \in Nodes : seq'[m] >= seq[m]
           /\ \A c \in added : c.seq > seq[n] /\ c.seq <= seq'[n]
    BY <1>0, <1>4, EnqueuedCommands DEF heartbeat
  <2> SUFFICES ASSUME NEW m \in Nodes, NEW c \in todo[m]
               PROVE  c.seq <= seq'[m] /\ \A d \in pending'[m] : c.seq = d.seq => c = d
    OBVIOUS
  <2>2. c.seq \in Nat /\ seq[m] \in Nat /\ seq'[m] \in Nat /\ c.seq <= seq[m] /\ seq'[m] >= seq[m]
    BY <1>0, <2>1 DEF TypeOK, Command, HeldAgreesWithQueue
  <2>3. ASSUME NEW d \in pending'[m], c.seq = d.seq PROVE c = d
    <3>1. CASE d \in pending[m]
      BY <2>3, <3>1 DEF HeldAgreesWithQueue
    <3>2. CASE m = n /\ d \in added
      BY <2>1, <2>2, <2>3, <3>2
    <3>. QED BY <1>0, <2>1, <2>3, <3>1, <3>2 DEF TypeOK
  <2>. QED BY <2>2, <2>3
<1>5. ASSUME NEW n \in Nodes, AgentRound(n) PROVE HeldAgreesWithQueue'
  <2>1. CASE build_heartbeat(n) \/ RequestLost(n) \/ dispatch(n) \/ reconcile(n)
    BY <1>1, <2>1 DEF build_heartbeat, RequestLost, dispatch, reconcile, planeVars
  <2>2. CASE HeartbeatAnswered(n)
    <3>1. heartbeat(n) /\ todo' = [todo EXCEPT ![n] = {c \in pending'[n] : c.seq > lastSeq[n]}]
      BY <2>2 DEF HeartbeatAnswered, Respond
    <3>2. NumbersBounded' /\ QueueHasNoDuplicates'
      BY DEF IInv
    <3> SUFFICES ASSUME NEW m \in Nodes, NEW c \in todo'[m]
                 PROVE  c.seq <= seq'[m] /\ \A d \in pending'[m] : c.seq = d.seq => c = d
      BY DEF HeldAgreesWithQueue
    <3>3. CASE m = n
      <4>1. c \in pending'[n]
        BY <1>0, <3>1, <3>3 DEF TypeOK
      <4>. QED BY <3>2, <3>3, <4>1 DEF NumbersBounded, QueueHasNoDuplicates
    <3>4. CASE m # n
      BY <1>0, <1>4, <3>1, <3>4 DEF TypeOK
    <3>. QED BY <3>3, <3>4
  <2>3. CASE ResponseLost(n)
    BY <1>4, <2>3 DEF ResponseLost, HeldAgreesWithQueue
  <2>4. CASE ack(n)
    <3>1. PICK c \in todo[n] : pending' = Retained(c.seq) /\ todo' = [todo EXCEPT ![n] = @ \ {c}] /\ seq' = seq
      BY <2>4 DEF ack, AgentContinues
    <3>2. \A m \in Nodes : todo'[m] \subseteq todo[m] /\ pending'[m] \subseteq pending[m]
      BY <1>0, <3>1 DEF Retained, TypeOK
    <3>. QED BY <3>1, <3>2 DEF HeldAgreesWithQueue
  <2>5. CASE AckLost(n)
    <3>1. pending' = pending /\ seq' = seq /\ \E c \in todo[n] : todo' = [todo EXCEPT ![n] = @ \ {c}]
      BY <2>5 DEF AckLost, AgentContinues, planeVars
    <3>2. \A m \in Nodes : todo'[m] \subseteq todo[m]
      BY <1>0, <3>1 DEF TypeOK
    <3>. QED BY <3>1, <3>2 DEF HeldAgreesWithQueue
  <2>. QED BY <1>5, <2>1, <2>2, <2>3, <2>4, <2>5 DEF AgentRound
<1>6. ASSUME NEW n \in Nodes, AgentRestart(n) PROVE HeldAgreesWithQueue'
  BY <1>0, <1>6 DEF AgentRestart, planeVars, HeldAgreesWithQueue, TypeOK
<1>7. ASSUME NEW n \in Nodes, NEW i \in Instances, SupervisorStep(n, i) PROVE HeldAgreesWithQueue'
  <2>1. PICK m \in Manager : SetManager(n, i, m)
    BY <1>0, <1>7, SupervisorStepEffect
  <2>. QED BY <1>1, <2>1 DEF SetManager, planeVars
<1>8. CASE UNCHANGED vars
  BY <1>1, <1>8 DEF vars
<1>. QED BY <1>2, <1>3, <1>5, <1>6, <1>7, <1>8 DEF Next

\* A step that takes a command out of a queue is an ack.
LEMMA OnlyAcksRemove ==
  ASSUME IInv, Next, NEW n \in Nodes, NEW c \in pending[n], c \notin pending'[n],
         planeRestarts' = planeRestarts
  PROVE  \E m \in Nodes : ack(m)
<1>0. TypeOK
  BY DEF IInv
<1>1. ~ManagerApi
  BY DEF ManagerApi, declare_instance, set_desired, remove_instance, Change, persist
<1>2. ~PlaneRestart
  BY <1>0 DEF PlaneRestart, TypeOK
<1>3. ASSUME NEW m \in Nodes, heartbeat(m) PROVE FALSE
  <2>1. PICK added \in SUBSET Command : pending' = [pending EXCEPT ![m] = @ \cup added]
    BY <1>0, <1>3, EnqueuedCommands DEF heartbeat
  <2>2. pending[n] \subseteq pending'[n]
    BY <1>0, <2>1 DEF TypeOK
  <2>. QED BY <2>2
<1>4. ASSUME NEW m \in Nodes, AgentRound(m) PROVE ack(m)
  BY <1>3, <1>4 DEF AgentRound, build_heartbeat, HeartbeatAnswered, Respond, ResponseLost, RequestLost,
     dispatch, AckLost, reconcile, planeVars
<1>5. \A m \in Nodes : ~AgentRestart(m)
  BY DEF AgentRestart, planeVars
<1>6. ASSUME NEW m \in Nodes, NEW i \in Instances, SupervisorStep(m, i) PROVE FALSE
  <2>1. PICK x \in Manager : SetManager(m, i, x)
    BY <1>0, <1>6, SupervisorStepEffect
  <2>. QED BY <2>1 DEF SetManager, planeVars
<1>. QED BY <1>1, <1>2, <1>4, <1>5, <1>6 DEF Next

\* registry.rs ack: with a single node, and while the plane process lives, no
\* command leaves the queue unless the agent has just executed that very command.
THEOREM SingleNodeAtLeastOnce ==
  ASSUME MaxPlaneRestarts = 0, NEW CONSTANT only, Nodes = {only}
  PROVE  Spec => CommandLeavesQueueExecuted
<1>1. Init => HeldAgreesWithQueue
  BY DEF Init, HeldAgreesWithQueue
<1>2. IInv /\ HeldAgreesWithQueue /\ [Next]_vars =>
        [planeRestarts' = planeRestarts =>
           \A n \in Nodes : \A c \in pending[n] \ pending'[n] : phase[n] = "ack" /\ IsNext(n, c)]_vars
  <2> SUFFICES ASSUME IInv, HeldAgreesWithQueue, Next, planeRestarts' = planeRestarts,
                      NEW n \in Nodes, NEW c \in pending[n], c \notin pending'[n]
               PROVE  phase[n] = "ack" /\ IsNext(n, c)
    OBVIOUS
  <2>1. ack(n)
    BY OnlyAcksRemove
  <2>2. PICK d \in todo[n] : IsNext(n, d) /\ pending' = Retained(d.seq)
    BY <2>1 DEF ack
  <2>3. c.seq = d.seq
    BY <2>2 DEF Retained
  <2>4. c = d
    BY <2>2, <2>3 DEF HeldAgreesWithQueue
  <2>. QED BY <2>1, <2>2, <2>4 DEF ack
<1>3. IInv /\ IInv' /\ HeldAgreesWithQueue /\ [Next]_vars => HeldAgreesWithQueue'
  BY HeldAgreesStep
<1>. QED BY Invariance, <1>1, <1>2, <1>3, PTL DEF Spec, CommandLeavesQueueExecuted
=============================================================================
