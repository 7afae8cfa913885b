----------------------------- MODULE Supervisor -----------------------------
(***************************************************************************)
(* The supervisor of one instance (sohara-agent: instance.rs, process.rs,  *)
(* policy.rs): a task that owns the instance's process, takes lifecycle    *)
(* commands from a channel, ticks every second to notice exits and probe   *)
(* health, and restarts the process within a budget; and the agent's       *)
(* handle on it, which sends commands, shuts it down and drops it.         *)
(*                                                                         *)
(* The task is sequential; each of its awaits ends a step, because the     *)
(* process, the channel and the readers of the published state go on       *)
(* meanwhile.  The published flags paused and healthy are left out: they   *)
(* are reported and nothing in the supervisor or the plane's decisions     *)
(* reads them.                                                             *)
(***************************************************************************)
EXTENDS Integers, Sequences

CONSTANTS
  Restart,         \* policy.restart
  MaxRestarts,     \* policy.max_restarts
  HealthFailures,  \* policy.health_failures
  HealthEnabled,   \* spec.health_enabled
  Hangs,           \* TRUE when a process may stay alive and answer no request
  MaxSends,        \* bound: commands sent by the agent loop
  MaxFaults        \* bound: crashes, hangs, failed spawns, probes and posts

ASSUME SupervisorAssumption ==
  /\ {Restart, HealthEnabled, Hangs} \subseteq BOOLEAN
  /\ {MaxRestarts, HealthFailures, MaxSends, MaxFaults} \subseteq Nat

InstanceState == {"starting", "running", "paused", "restarting", "stopping", "stopped", "failed"}
InstanceCommand == {"start", "stop", "restart", "pause", "resume"}

VARIABLES
  pc,        \* where the task is; "loop" is its select
  state,     \* Shared.state, the published state
  child,     \* the process: "none", "alive", "hung", "dead" (not yet reaped)
  gate,      \* TRUE when the process itself is paused
  posting,   \* the pause or resume under way at pc = "post"
  attempts,  \* Counters.attempts
  failures,  \* Counters.failures
  queue,     \* the command channel
  handle,    \* the agent's side: "held", "polling", "returned", "gaveUp", "dropped", "exited"
  respawns,  \* how often the policy spawned the process again
  sends, faults  \* what the bounds count

task == <<pc, state, posting, attempts, failures, respawns>>
supervisorVars == <<pc, state, child, gate, posting, attempts, failures, queue, handle, respawns, sends, faults>>

Fault == faults < MaxFaults /\ faults' = faults + 1
NoFault == UNCHANGED faults
-----------------------------------------------------------------------------
(* spawn_child and terminate_child. *)

\* From pc = "launch" (or "launchPaused", a manager created with desired =
\* "paused", which posts a pause before its first select).
spawn_child ==
  /\ pc \in {"launch", "launchPaused"}
  /\ \/ child' = "alive" /\ state' = "running" /\ NoFault
     \/ child' = child /\ state' = "failed" /\ Fault
  /\ gate' = FALSE
  /\ pc' = IF pc = "launch" THEN "loop" ELSE "post"
  /\ posting' = IF pc = "launch" THEN posting ELSE "pause"
  /\ UNCHANGED <<attempts, failures, queue, handle, respawns, sends>>

\* A manager created with desired = "stopped" starts no process.
StartStopped ==
  /\ pc = "settle"
  /\ pc' = "loop"
  /\ state' = "stopped"
  /\ UNCHANGED <<child, gate, posting, attempts, failures, queue, handle, respawns, sends, faults>>

\* SIGTERM, five seconds, SIGKILL, reap: it ends whatever the process does.
\* Then each caller goes on to what it does next.
terminate_child ==
  /\ pc \in {"stopping", "restarting", "backoff", "failing", "closing"}
  /\ child' = "none"
  /\ pc' = CASE pc \in {"stopping", "failing"} -> "loop"
             [] pc = "restarting"              -> "launch"
             [] pc = "backoff"                 -> "sleep"
             [] pc = "closing"                 -> "done"
  /\ state' = CASE pc = "stopping"   -> "stopped"
                [] pc = "failing"    -> "failed"
                [] pc = "restarting" -> "starting"
                [] OTHER             -> state
  /\ UNCHANGED <<gate, posting, attempts, failures, queue, handle, respawns, sends, faults>>

-----------------------------------------------------------------------------
(* Commands (handle_command). *)

\* Mutant of Accepts: start is obeyed in any state.
AcceptsAlways(s) == TRUE

\* start is obeyed only where no process should be running.
Accepts(s) == s \in {"stopped", "failed"}

handle_command ==
  /\ pc = "loop"
  /\ queue # <<>>
  /\ queue' = Tail(queue)
  /\ \/ /\ Head(queue) = "start"
        /\ IF Accepts(state) THEN pc' = "launch" /\ state' = "starting"
                             ELSE UNCHANGED <<pc, state>>
        /\ UNCHANGED posting
     \/ /\ Head(queue) = "stop"
        /\ pc' = "stopping" /\ state' = "stopping"
        /\ UNCHANGED posting
     \/ /\ Head(queue) = "restart"
        /\ pc' = "restarting" /\ state' = "restarting"
        /\ UNCHANGED posting
     \/ /\ Head(queue) \in {"pause", "resume"}
        /\ pc' = "post" /\ posting' = Head(queue)
        /\ UNCHANGED state
  /\ UNCHANGED <<child, gate, attempts, failures, handle, respawns, sends, faults>>

\* Mutant of admin_post: the state is published whether or not the post succeeds.
PostAssumesSuccess ==
  /\ pc = "post"
  /\ child # "hung"
  /\ pc' = "loop"
  /\ gate' = (posting = "pause")
  /\ state' = IF posting = "pause" THEN "paused" ELSE "running"
  /\ UNCHANGED <<child, posting, attempts, failures, queue, handle, respawns, sends, faults>>

\* pause_instance / resume_instance: an HTTP request to the process without a
\* timeout.  It succeeds, fails, or takes effect although its answer is lost;
\* a hung process leaves the task waiting.
admin_post ==
  /\ pc = "post"
  /\ child # "hung"
  /\ pc' = "loop"
  /\ \/ /\ child = "alive"
        /\ gate' = (posting = "pause")
        /\ state' = IF posting = "pause" THEN "paused" ELSE "running"
        /\ NoFault
     \/ /\ child = "alive"
        /\ gate' \in {gate, posting = "pause"}
        /\ state' = state
        /\ Fault
     \/ /\ child # "alive"
        /\ UNCHANGED <<gate, state, faults>>
  /\ UNCHANGED <<child, posting, attempts, failures, queue, handle, respawns, sends>>

-----------------------------------------------------------------------------
(* Supervision ticks. *)

\* Mutant of restart_backoff: the budget is not looked at.
BackoffWithoutBudget(n) == Restart

\* restart_backoff is Some: the attempt, already counted in n, may be made.
restart_backoff(n) == Restart /\ n < MaxRestarts

restart_or_fail ==
  /\ attempts' = attempts + 1
  /\ IF restart_backoff(attempts + 1)
     THEN pc' = "backoff" /\ state' = "restarting"
     ELSE pc' = "failing" /\ state' = state

\* The tick finds that the process exited.
ChildExited ==
  /\ pc = "loop"
  /\ child = "dead"
  /\ child' = "none"
  /\ IF state = "stopping" THEN state' = "stopped" /\ UNCHANGED <<pc, attempts>>
                           ELSE restart_or_fail
  /\ UNCHANGED <<gate, posting, failures, queue, handle, respawns, sends, faults>>

\* The tick finds a process and sends a probe, again without a timeout.
supervise_tick ==
  /\ pc = "loop"
  /\ HealthEnabled
  /\ child \in {"alive", "hung"}
  /\ pc' = "probe"
  /\ UNCHANGED <<state, child, gate, posting, attempts, failures, queue, handle, respawns, sends, faults>>

\* Mutant of apply_health: the published state ignores the process's answer.
HealthWithoutSync ==
  /\ pc = "probe"
  /\ child = "alive"
  /\ pc' = "loop"
  /\ failures' = 0
  /\ UNCHANGED <<state, child, gate, posting, attempts, queue, handle, respawns, sends, faults>>

\* The probe is answered: the published state follows the process's own.
apply_health ==
  /\ pc = "probe"
  /\ child = "alive"
  /\ pc' = "loop"
  /\ failures' = 0
  /\ state' = CASE gate                         -> "paused"
                [] ~gate /\ state = "paused"    -> "running"
                [] OTHER                        -> state
  /\ UNCHANGED <<child, gate, posting, attempts, queue, handle, respawns, sends, faults>>

\* Mutant of ProbeFails: a process that died while it was probed is not an error.
ProbeFailsAlive ==
  /\ pc = "probe"
  /\ child = "alive" /\ Fault
  /\ failures' = failures + 1
  /\ IF failures + 1 >= HealthFailures THEN restart_or_fail
     ELSE pc' = "loop" /\ UNCHANGED <<state, attempts>>
  /\ UNCHANGED <<child, gate, posting, queue, handle, respawns, sends>>

\* The probe fails: the process is gone, or unhealthy, or the request broke.
ProbeFails ==
  /\ pc = "probe"
  /\ \/ child = "alive" /\ Fault
     \/ child = "dead" /\ NoFault
  /\ failures' = failures + 1
  /\ IF failures + 1 >= HealthFailures THEN restart_or_fail
     ELSE pc' = "loop" /\ UNCHANGED <<state, attempts>>
  /\ UNCHANGED <<child, gate, posting, queue, handle, respawns, sends>>

\* Mutant of BackoffOver: failures is lowered by one and not cleared.
BackoffForgivesOne ==
  /\ pc = "sleep"
  /\ pc' = "launch"
  /\ state' = "starting"
  /\ failures' = failures - 1
  /\ respawns' = respawns + 1
  /\ UNCHANGED <<child, gate, posting, attempts, queue, handle, sends, faults>>

\* The backoff is over: spawn_child again, and count failures afresh.
BackoffOver ==
  /\ pc = "sleep"
  /\ pc' = "launch"
  /\ state' = "starting"
  /\ failures' = 0
  /\ respawns' = respawns + 1
  /\ UNCHANGED <<child, gate, posting, attempts, queue, handle, sends, faults>>

\* Mutant of ChannelClosed: the task keeps a sender, so recv never yields None.
ChannelKeptOpen ==
  /\ pc = "loop"
  /\ queue = <<>>
  /\ handle = "exited"
  /\ pc' = "closing"
  /\ UNCHANGED <<state, child, gate, posting, attempts, failures, queue, handle, respawns, sends, faults>>

\* recv yields None: the channel is empty and its last sender was dropped.
ChannelClosed ==
  /\ pc = "loop"
  /\ queue = <<>>
  /\ handle = "dropped"
  /\ pc' = "closing"
  /\ UNCHANGED <<state, child, gate, posting, attempts, failures, queue, handle, respawns, sends, faults>>

-----------------------------------------------------------------------------
(* The process. *)

Crash ==
  /\ child \in {"alive", "hung"}
  /\ child' = "dead"
  /\ Fault
  /\ UNCHANGED <<task, gate, queue, handle, sends>>

Hang ==
  /\ Hangs
  /\ child = "alive"
  /\ child' = "hung"
  /\ Fault
  /\ UNCHANGED <<task, gate, queue, handle, sends>>

-----------------------------------------------------------------------------
(* The agent's handle: InstanceManager::send and shutdown. *)

send(command) ==
  /\ handle = "held"
  /\ sends < MaxSends
  /\ sends' = sends + 1
  /\ queue' = Append(queue, command)
  /\ UNCHANGED <<task, child, gate, handle, faults>>

\* shutdown sends a stop, then polls the published state.
shutdown ==
  /\ handle = "held"
  /\ handle' = "polling"
  /\ queue' = Append(queue, "stop")
  /\ UNCHANGED <<task, child, gate, sends, faults>>

ShutdownReturns ==
  /\ handle = "polling"
  /\ state \in {"stopped", "failed"}
  /\ handle' = "returned"
  /\ UNCHANGED <<task, child, gate, queue, sends, faults>>

\* A hundred polls of 100 ms: less than a backoff of up to 60 s may take.
ShutdownTimesOut ==
  /\ handle = "polling"
  /\ state \notin {"stopped", "failed"}
  /\ handle' = "gaveUp"
  /\ UNCHANGED <<task, child, gate, queue, sends, faults>>

\* reconcile drops the manager of an instance no longer declared ...
DropManager ==
  /\ handle \in {"returned", "gaveUp"}
  /\ handle' = "dropped"
  /\ UNCHANGED <<task, child, gate, queue, sends, faults>>

\* ... and an agent told to stop returns, which ends its tasks where they are.
AgentExits ==
  /\ handle \in {"returned", "gaveUp"}
  /\ handle' = "exited"
  /\ pc' = "cancelled"
  /\ UNCHANGED <<state, child, gate, posting, attempts, failures, queue, respawns, sends, faults>>

-----------------------------------------------------------------------------
SupervisorInit ==
  /\ pc \in {"launch", "launchPaused", "settle"}
  /\ state = "starting"
  /\ child = "none"
  /\ gate = FALSE
  /\ posting = "pause"
  /\ attempts = 0 /\ failures = 0
  /\ queue = <<>>
  /\ handle = "held"
  /\ respawns = 0
  /\ sends = 0 /\ faults = 0

Probe == apply_health \/ ProbeFails

SupervisorNext ==
  \/ spawn_child \/ StartStopped \/ terminate_child
  \/ handle_command \/ admin_post
  \/ ChildExited \/ supervise_tick \/ Probe \/ BackoffOver \/ ChannelClosed
  \/ Crash \/ Hang
  \/ \E command \in InstanceCommand : send(command)
  \/ shutdown \/ ShutdownReturns \/ ShutdownTimesOut \/ DropManager \/ AgentExits

SupervisorSpec == SupervisorInit /\ [][SupervisorNext]_supervisorVars

(* The runtime runs every ready task; the select of the loop picks a ready  *)
(* branch at random, so a branch ready again and again is taken.            *)
SupervisorFairness ==
  /\ WF_supervisorVars(spawn_child) /\ WF_supervisorVars(StartStopped) /\ WF_supervisorVars(terminate_child)
  /\ WF_supervisorVars(admin_post) /\ WF_supervisorVars(Probe) /\ WF_supervisorVars(BackoffOver)
  /\ SF_supervisorVars(handle_command) /\ SF_supervisorVars(ChannelClosed)
  /\ SF_supervisorVars(ChildExited) /\ SF_supervisorVars(supervise_tick)
  /\ WF_supervisorVars(ShutdownReturns \/ ShutdownTimesOut)

SupervisorFairSpec == SupervisorSpec /\ SupervisorFairness

-----------------------------------------------------------------------------
\* Every variable has the shape the code gives it.
SupervisorTypeOK ==
  /\ pc \in {"launch", "launchPaused", "settle", "loop", "post", "probe", "stopping", "restarting",
             "backoff", "sleep", "failing", "closing", "done", "cancelled"}
  /\ state \in InstanceState
  /\ child \in {"none", "alive", "hung", "dead"}
  /\ gate \in BOOLEAN
  /\ posting \in {"pause", "resume"}
  /\ attempts \in Nat /\ failures \in Nat /\ respawns \in Nat
  /\ queue \in Seq(InstanceCommand)
  /\ handle \in {"held", "polling", "returned", "gaveUp", "dropped", "exited"}
  /\ sends \in Nat /\ faults \in Nat

\* process.rs: no order of commands, crashes, failed spawns and restarts makes the
\* supervisor launch a process while it still has one (which would lose the first),
\* and between commands it publishes a running state exactly when it has one.
NoProcessLeaked ==
  /\ pc \in {"launch", "launchPaused"} => child = "none"
  /\ pc = "loop" => (state \in {"running", "paused"} <=> child # "none")

\* policy.rs: over the supervisor's whole life, manual starts and restarts included,
\* the policy respawns the process fewer than max_restarts times (an attempt is
\* counted before it is compared), and never when policy.restart is off.
RestartBudget == respawns <= IF Restart /\ MaxRestarts > 0 THEN MaxRestarts - 1 ELSE 0

\* supervise_tick: an instance that was stopped or has failed is brought back only
\* by a command, never by a tick, a late probe or an answered post.
OnlyCommandsRevive ==
  [][(state \in {"stopped", "failed"} /\ state' # state) => (pc = "loop" /\ queue' = Tail(queue))]_supervisorVars

\* The shutdown's stop is the last command; once the manager is dropped the
\* supervisor works off its channel, ends, and leaves no process behind, unless a
\* process that answers nothing holds it up.
DroppedSupervisorEnds == handle = "dropped" ~> ((pc = "done" /\ child = "none") \/ child = "hung")

\* A command sent is taken, in spite of crashes, probes and backoffs, unless the
\* agent exits or a process that answers nothing holds the supervisor up.
CommandsTaken ==
  (queue # <<>> /\ handle # "exited") ~> (queue = <<>> \/ handle = "exited" \/ child = "hung")

\* apply_health: a pause or resume whose answer was lost, or a pause forgotten by
\* a restarted process, is in the end published as it is.
StateFollowsProcess ==
  <>[](child = "alive" /\ pc = "loop" => (state = "paused" <=> gate))
=============================================================================
