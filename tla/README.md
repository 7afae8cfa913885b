# Sohara: TLA+ models, checks and proofs

Sohara runs data flows (`sohara run`, `sohara serve`) and manages fleets of them: a *plane* holds
what should run where, an *agent* on every node supervises processes, and flows exchange messages
through the plane's relay. This directory models the parts of it whose correctness depends on the
order of things: messages between plane and agent, commands and crashes inside a supervisor, pulls
from the relay and requests through the gateway, the start of a flow, its records on their way through
the graph, its approval queue, its intake and shutdown, calls of extensions in child processes, and the
check-send-mark sequence that makes a resumed run idempotent.

Contents: [inventory](#inventory) · [modules](#modules) · [runs](#runs) · [bounds](#bounds) ·
[fairness](#fairness) · [proofs](#proofs) · [where code and docs disagree](#where-code-and-docs-disagree) ·
[not modelled](#not-modelled) · [plan](#plan).

## Inventory

| Component | State | Operations | Interacts with |
|---|---|---|---|
| Plane registry (`sohara-plane`: registry, reconcile, manager, agent_api, store) | declarations (memory and file); per node: last report, command queue, command counter (memory only) | declare, set desired, remove, persist; heartbeat, ack; load at start | agents over HTTP, the file, the gateway |
| Agent loop (`sohara-agent`: agent, transport) | `last_seq`, managers, local config | tick: heartbeat, dispatch and ack, reconcile; shutdown | plane; one supervisor task per instance |
| Supervisor (`sohara-agent`: instance, process, policy, probe) | published state, child process, attempt and failure counters, command channel | start, stop, restart, pause, resume; tick; restart policy; shutdown, drop | the instance's process and its admin API |
| Relay (`sohara-plane` relay_api, `sohara-triggers` relay, bus) | per topic a bounded mailbox and a floor per subscriber; per instance a cursor and the bounded channels of its bus | publish (own bus, then plane), pull, offer to the own bus, gateway publish | instances, queue triggers |
| Gateway (`sohara-plane` gateway) | routes, round-robin counters | match, select, forward, retry, bus dispatch | registry, relay, instances |
| Flow run (`sohara-runtime` runner, walker, persist, executor) | counters, step state, store | pull, walk, check, send, mark, flush, checkpoint, resume | steps, store, pause gate |
| Control nodes (`sohara-runtime` control, buffers) | join groups, batch buffers, step state, approve queue | join, batch, state, loop, parallel, approve | flow run, store |
| Serve mode (`sohara-runtime` serve, pause, admin; `sohara-triggers`) | pause flag, trigger channels | start, pause, resume, graceful shutdown | flow run, admin API, relay |
| State stores (`sohara-persistence`) | map in memory, file | load, save, delete | flow run, approve queue |
| Approve queue (`sohara-runtime` persist, serve; `sohara approve`) | the queue of an approve step in the store | park; take, inject | state store, flow run |
| Start of a flow (`sohara-cli` main, `sohara-config`, `sohara-runtime` graph, routes, warnings) | the registry while it is filled; none that outlives the start but the graph | load, apply templates, validate, register, look up, build, warn | everything that runs a flow |
| Stdio extensions (`sohara-runtime` stdio_extensions, `sohara-builtin-extensions`) | per component a client behind a mutex: child process, pipes, request counter; in the process its cursor; manifests loaded | spawn and initialize, call, reset; pull, start, stop; load manifests | steps, triggers, stores, bus |
| Expressions, built-in steps, JS, reports | none that outlives a call | pure functions and I/O | |

What is hard here, and what correctness means:

* **Reconciliation.** Requests, responses and acks are lost separately; plane and agent restart
  separately; reports are older than the commands under way. Correct: a queue never repeats an
  operation, no command is executed twice or dropped unexecuted, and once changes stop every
  instance is in its desired state on its declared node.
* **Supervision.** The process dies, hangs or fails to spawn at any await of the task. Correct: one
  process at a time, a bounded number of restarts, only commands revive, commands are taken, and a
  dropped supervisor leaves no process behind.
* **Relay.** Cursors exist twice and both sides forget theirs; behind them is a channel that may be full.
  Correct: from the relay at most once per queue trigger and in order, and nothing missed except by
  overflow of the mailbox or the channel or a response lost.
* **Serving.** Requests arrive while the gate closes, tasks fail and triggers are stopped one by one.
  Correct: accepted requests are processed, all that were read are answered, a shutdown ends unless a
  client or the pause gate keeps it waiting, a failure is reported.
* **Extensions.** A child process dies or prints something unexpected at any point of a call, while
  several callers share it. Correct: a call takes effect at most once and succeeds only if it did, no
  caller gets another's answer, streams neither lose nor repeat rows, and calls and shutdown end.
* **Delivery.** A kill falls between a send and its mark, or between a send and the flush. Correct:
  a resumed run that finishes has lost nothing and repeats only what was not marked.
* **Walking the graph.** Tasks and parallel branches share the buffers of joins and batches and the
  values of state steps, errors drop branches where they are, and the buffers are emptied at the end.
  Correct: no record disappears, nothing waits for a record that will not come, the store ends with
  what memory has, and the run ends.
* **Approval.** The queue is loaded, changed and saved by tasks of two processes through one temporary
  file. Correct: a record reported as waiting is in the file until an approve takes it, and what is
  taken is delivered.
* **Starting.** Any file can be given. Correct: a graph that is built has no cycle and no loose end, a
  flow is refused for a cycle only if it has one, warnings are exact, and no extension replaces a
  registration.
* **Gateway.** Route, targets and answer are read at three moments, in which routes and instances
  change. Correct: the caller is told what happened, selections go round, a key stays where it is.

`PROJECT.json` lists every component, every hazard at its line, and the property that would catch it.

## Modules

| Module | Models | State → code | Actions → code |
|---|---|---|---|
| `ControlPlane` | registry, reconcile, agent loop | `instances`, `pending`, `seq` = fields of `Inner`; `disk` = the state file; `phase`, `todo`, `wish`, `lastSeq`, `managers` = locals and fields of `Agent::run` | manager calls, `persist`, `PlaneRestart` (load); `build_heartbeat`, `HeartbeatAnswered`/`ResponseLost`/`RequestLost`, `dispatch`, `ack`/`AckLost`, `reconcile`; a short supervisor |
| `Supervisor` | one supervisor task and the agent's handle on it | `state` = `Shared.state`, `child`, `attempts`, `failures` = `Counters`, `queue` = the channel; `gate` = the process's own pause flag | one action per stretch between awaits |
| `Relay` | one topic of the relay | `mailbox` = every message since the plane started (`seq` its length, `buffer` its last `RELAY_CAP`); `relay_cursors` = floors; `cursors` = `RelayBus.cursors`; `reply` = the `PullResponse`, less what `apply_response` is through with; `heard`, `taken` = the queue trigger's channel in the bus, as all that was ever put into it and how much of that has left; `receiving` = its receiver is there; `injected`, `missed`, `dropped` are ghosts | `publish` (own bus and detached post), `PostArrives`/`PostFails`, `bus_dispatch`, `request_pull`, `relay_pull`, `apply_message` (the loop of `apply_response`, on `bus_publish`), `apply_response` (its cursor), `take`, `TriggerEnds`, losses, restarts |
| `FlowRun` | a run with a state store | `delivered` = `JsonFileStore.entries`, `stored` = its file; `buffer` = `FileSink.buffer`; `pc`, `at`, `hop` = where each source task is; `route` = the sinks, fixed when the flow is built | `run_source`, `walk` (the check), `send`, `mark_delivered`, their failures, `flush_all`, `Down`, `Resume` |
| `Serve` | serve mode, triggers, pause gate | `channel` = the mpsc channels of http.rs and bus.rs; `pc`, `held` = the source tasks; `paused` = the gate's flag; `joined`, `run` = `Executor::run`; `fate` = what became of each payload | `Request`, `ReadBody`, `handle_request` (each up to its await), `Abandon`, `publish`, `Pull`, `EndOfStream`, `wait_unpaused` (two steps), `walk`, `pause`, `resume` and `notify_waiters`, `shutdown_signal`, `stop`, `ServerCloses`, `Executor_run`, `serve_returns` |
| `Stdio` | external steps, triggers, stores and buses as child processes | `host` = a component's mutex and `Option<StdioClient>`; `ext` = the process, its pipes and its memory (`last_id`, `stopped` of the sqlite extension); `log`, `disk` = what it writes; `stream`, `buffered`, `finished` = `SourceState`, `TriggerState` | `Invoke`, `lock`, `spawn`, `write`, `request`; `handle`, `respond` (run_loop); `Crash`, `PrintsStray`; `next_record`, `start`, `stop`, `serve_returns` |
| `RemoteCalls` | what callers of an external component may rely on | `outcome` of each call | `Invoke`, `Apply`, `Succeed`, `Fail`; `Stdio` implements it (`CallsAtMostOnce`) |
| `JsonFileStore` | the store, file operation by file operation | `entries` = the map of each process, `file` and `tmp` = what is under the two names, `save` = where a task is in `persist` | `Begin` (save, delete), `Snapshot`, `Create`, `Write`, `WriteFails`, `Rename` |
| `ApproveQueue` | a flow that parks and `sohara approve`, on `JsonFileStore` | `pc`, `rec`, `held` = locals of each task; `output` = the sink; `parks`, `acks`, `takes`, `aborted`, `raced` are ghosts | `Pull`, `park_approve`, `Push`, `Parked`, `is_delivered`, `send`, `mark_delivered`; `take_approve_queue`, `Delete`, `Taken`, `approve_pending`, their failures; `StartFlow`, `approve_flow`, `Exit` |
| `FlowGraph` | routes of a flow, used by the two below | | `wire_routes`, `count_incoming` |
| `ControlNodes` | the walk of records through the graph | `threads` = the frames every task or branch has on its stack; `groups`, `batches` = `JoinBuffer`, `BatchBuffer`; `states`, `stored` = state steps in memory and store; `since` = `since_checkpoint` | one action per control step and per await inside it, `Checkpoint`, `run_source`, `flush_all`, `flush_batches`, failures |
| `Manifests` | loading of extension manifests | `registry`, `pending` | operators used by `Startup` |
| `Startup` | the start of `run`, `serve` and `approve` | `input` = the flow as loaded so far; `indegree`, `ready`, `visited` = locals of `check_acyclic`; `stack`, `seen` = locals of `reach` | `apply_templates`, `validate`, `LoadManifest`, `Providers`, `assemble`, `Pop`, `Popped`, `assemble_nodes`, `Reach`, `Reached` |
| `Gateway` | the gateway | `routes`, `instances`, `round_robin` = fields of `Inner`; `actual` = last reports; `iteration` = the place every instance has in the order of the hash map; `request` = locals of a handler; `sent`, `handled`, `replies` = requests outside | `gateway`, `bus_dispatch`, `select_targets`, `forward_once`, `PassOn`, `Refused`, `TimesOut`, `Handles`; declarations and removals, `heartbeat`, `Dies`, `Starts` |
| `MC...` | | values for function-valued constants | |
| `ControlPlaneProofs`, `FlowRunProofs`, `ServeProofs`, `ApproveQueueProofs` (with `JsonFileStore`), `GatewayProofs`, `StdioProofs` (with `RemoteCalls`) | | theorems about the module each is named after, and their proofs | |
| `AgentProofs` | | theorems about `Relay` and `Supervisor` | |
| `GraphProofs` | | theorems about `Startup` (with `Manifests`) and `ControlNodes`, and the lemmas about `FlowGraph` they share | |

Abstractions that a reader should know:

* A plane queue is a set of numbered commands; the queue is always in the order of its numbers.
  Commands of one heartbeat are numbered in any order, because declarations are in a hash map.
* `ControlPlane` keeps of a supervisor the published state and the operations owed to it;
  a manager dropped by `reconcile` disappears from it at once, and what its supervisor still does is
  `Supervisor`'s `DropManager` and after. The plane is run with a state file; without one a restart
  also loses the declarations.
* `persist` is an action of its own because the code releases the lock between the change and the
  save; two saves write the same current declarations, so they are not told apart.
* In `Supervisor` the published flags `paused` and `healthy` are left out: nothing modelled reads them.
  An error of `try_wait`, which the code takes for an exit, does not occur.
* In `Relay`, topics are independent, a subscriber has one queue trigger for the topic and a stable id (its
  admin address), and every payload is published at most once; the next one published is always the first
  left (`Fresh`), since payloads are only compared. Which entries of `heard` came from the relay is
  kept with them (`from`), for the properties: the trigger cannot tell.
* In `FlowRun`, steps before the sinks can only fail; no step keeps state, so checkpoints save
  nothing (they are in `ControlNodes`); a save of the store is one step (its steps are in
  `JsonFileStore`). `on_error: fail` ends the process like a kill, because
  `run` returns before it flushes.
* In `Serve`, a walk is one step, and a schedule hit may come at any time; a trigger that is not in the
  flow's list has no task and no channel. A request exists from the moment its handler does, whose clone of the sender
  and whose connection the end of the stream waits for; a client that goes away takes its handler with it.

* In `Stdio` a kill takes effect at once, the store has one key, and a record is one row. The blocking
  and the asynchronous client are one text in two colours and one set of actions here, except for
  their mutexes: tokio's is granted in order of arrival (`Granted` takes the first of `waiting`), std's to any
  waiter. An answer the host cannot
  use (an error, another protocol, a missing capability) is one kind of answer. The rows of a source
  are those of the bus. The ghost variables `applied` and `read` only serve the refinement. An error
  ends a stream because `try_unfold` drops its state with it.
* In `JsonFileStore` and `ApproveQueue` there is one approve step, one sink that writes at once and one
  run id, whose own save at the start is left out. Of a file that several tasks write at once the model
  keeps whether it is empty, some entries' text, or torn.
* In `ControlNodes` a record is the set of source items that went into it, and a condition may hold or
  not; what `StatesCount` compares is how many records a state step has counted. The counters shown in
  reports are left out. The branches of a parallel step are polled by one task and interleave here at
  every step, which is finer than the code's awaits. The roots are sources; a trigger's task walks its records
  in the same way (`Serve` has the triggers). A flow is one the start accepts (`FlowGiven`); what is
  not asked of it there, that it has no cycle, none of the properties but `RunEnds` needs. A join balances a
  parallel (`Balances`) when it has the records of the parallel's branches and no others: each branch is one step
  that leads to the join and to nowhere else, and the join has no condition of its own, which would drop
  records before they get there.
* In `Startup` expressions, durations and imports are not parsed, a type is a name, and a step's
  configuration is what the checks look at.
* In `Gateway` headers other than the sticky one and bodies are passed through and left out; a request
  given up by a timeout may still be handled; the plane does not restart, as its routes are then read
  from the file again and its counters are zero. An insertion may change the order in which the hash map
  is walked. `Ordered` lists a set by a number each member has: candidates by their place in the map, or by
  their hash, which differ between instances.

Definitions named `...Without...`, `...Always` and the like, each marked "Mutant of", are variants
of the definition that follows them, with a plausible bug. No specification uses them; they show
that each property can fail.

## Runs

Passing runs:

| Run | Shows |
|---|---|
| `plane_unreliable` | one node, lost requests, responses and acks, a plane and an agent restart: no duplicate in a queue, no command executed twice, none leaves the queue but by its ack, and the set of managers still converges (though not always their states, see below) |
| `plane_converges` | two nodes, an instance that starts in an agent's config, two manager calls or one and a crash, lost heartbeats: it ends in its desired state, on its declared node only |
| `supervisor` | two commands, a shutdown and three faults in any order, hung processes included: one process, bounded restarts, no revival without a command; commands are taken and dropped supervisors end unless a process hangs; the published pause state follows the process |
| `relay` | one instance that publishes to the topic it subscribes to, one that only publishes, and the gateway: through losses, overflow of mailbox and channel, a trigger that ends, an instance or a plane restart, a trigger gets nothing from the relay twice and it in order; while the plane lives the floor skips no retained message, and an accepted message reaches the channel unless one of the exceptions named happens to it |
| `flow` | two resumes, an error, a key that occurs twice, and four routes (a sink that writes at once, two of them, an appended file, a rewritten file): every record reaches a sink, duplicates occur only where a mark is missing, and a marked key is never sent again |
| `control` | five flows with every control step, two sources in four of them, errors, retries, failing saves and flushes: no record disappears, a finished run leaves records in joins and in batches behind another batch only, buffers account for what came in, a join of all branches is left waiting only when a branch did not pass a record on as exactly one, state updates and checkpoints end in the store, the run ends |
| `approve` | two tasks park and mark, `sohara approve` takes, both are killed and restarted, a write fails half way: as long as no two tasks change the store at once the queue accounts for every park, saves are atomic, and what is taken is delivered unless the command is cut short |
| `startup` | every graph of four steps and a trigger with up to three edges, lists of manifests, and odd flows: what is built is sound, only cycles are refused as cycles, warnings are exact, no manifest replaces a registration |
| `gateway` | two requests, two routes, three instances, declarations, deaths and timeouts meanwhile: answers are truthful, round robin goes round, a key keeps its instance |
| `serve` | two requests, a message and a schedule hit for three trigger lists, bodies left unfinished, clients that go away, a pause and a resume, a failure, a shutdown: what was answered 202 is processed before serve returns without error, a failed task makes the run fail, unless a record is held at the gate every request that was read is answered, and unless a body is also left unfinished the shutdown ends |
| `stdio` | trigger, source, store, bus and sink over processes that crash, answer with errors, print stray lines or fail to start, in eight deployments: every call behaves like `RemoteCalls`, streams yield every row once and in order, calls return, and stop gets through to a trigger that is being pulled |

`serve_missed_wakeup`, which ends in a counterexample, is described under
[where code and docs disagree](#where-code-and-docs-disagree).

## Bounds

Every bound is a constant named `Max...` (in `Relay` also `RestartBound`) in the module that uses it, and counts something the
environment does (calls, losses, crashes, restarts), never something the code does; the exceptions
are `MaxSeq`, the commands a plane may number between two restarts, and `MaxOps`, the operations an
agent may owe a supervisor when it takes its next tick. In the runs with fairness `MaxSeq` is 20,
which these runs never reach, so it blocks no heartbeat; `MaxOps` says that a supervisor takes its
operations within a few heartbeats. The bounds end the system, so the configurations do not check
for deadlock. `MaxChanges` of `ControlPlane` counts manager calls and upsets (crashes, failed spawns,
refused posts) together: what matters to `Converges` is a change while another one is still being
worked off. `MaxUuids` of `ControlNodes` is the number of correlations a flow of the run can make up,
and is not reached.

Small is enough because the interactions are pairwise: two nodes are needed for an ack to meet a
foreign queue, two sources for a race on a key. Both configurations of the plane have one instance, so
a queue holds commands of one instance: `plane_converges` is about its moves between the nodes. Commands of
different instances meet in a queue only through their numbers, which the theorems about the queue cover
for any set of instances. A
restart budget of 2 has the boundary and one restart before it; one record key occurs twice
in a source. `relay` has three messages for a mailbox of two and a channel of one, so each overflows, also while
a pull is under way; one loss and one restart, of either side (`RestartBound` counts both). Responses have one
message, so that the batch limit bites; the run passes with `RELAY_BATCH = 2` as well, where a trigger ends or an
instance restarts amid a response. The two safety properties are proved for every number of messages, losses and restarts. `stdio` gives each deployment its own number of faults: two where one client is used, one
where the publisher and the stream run beside each other. Request ids wrap at 3 (`IDS`); at most one
request is under way, so two ids already tell it from the one before.

`approve` has two starts of the flow and two of the command, with two tasks, one record to approve and
one to deliver: a park can meet a mark, a failed write and a kill, a resumed flow parks the record a
second time before or after it was taken, and a take that was cut short is followed by another.
`Together = FALSE` keeps the command to the times when the flow is down (see below for what happens
otherwise). `startup` takes every graph over its five nodes with up to two edges and those of three
edges without self-loops, which includes cycles of length one to three, parallel
routes, triggers on either side and steps nobody reaches; manifests come in every ordered pair.
`gateway` has two requests, since a counter needs a second selection, three instances of which two are
declared at first, so that one can join, one change and one health event. The flows of `control` are
chosen so that every two control steps that can influence each other meet; in one of them a batch is
behind another by way of a switch, so that the flush meets them in either order, with and without records.

## Fairness

* `ControlPlane`: the loop of an agent ticks for ever and its tasks run (weak fairness); a heartbeat
  sent again and again is answered again and again (strong fairness on the answer, since each loss
  takes the request away). Crashes, losses of acks and manager calls are not fair.
* `Supervisor`: every await ends, except a request to a hung process, which has no timeout; the
  branches of the task's `select!` are picked at random when several are ready, hence strong fairness
  on each.
* `Relay`: the pull loop ticks, and a pull or response that is not lost is handled. That the queue trigger
  takes from its channel is not fair: its task may be paused, busy or gone.
* `Serve`: every task, handler and server runs while the process does; requests, their bodies, admin calls,
  failures and the signal are not fair. That the gate opens (`GateOpens`) and that clients finish their bodies
  or go away (`BodiesEnd`) are hypotheses of the properties that need them; each fails without.
* `ControlNodes`: the process keeps running (weak fairness of its next step); no task needs more,
  because sources end and every task that is not finished can take a step.
* `Stdio`: the host's tasks run, and a process that lives answers what it is asked. The host sets no
  deadline, so a process that never answers blocks its callers and the shutdown; calls, faults and the
  signal are not fair.
* `FlowRun`, `ApproveQueue`, `Startup` and `Gateway` state safety only and assume no fairness.

## Proofs

TLAPS proves, for every value of the constants that satisfies the assumptions of the modules:

| Module | Theorem | States |
|---|---|---|
| `ControlPlaneProofs` | `TypeCorrect` | `ControlPlane`'s type invariant |
| | `QueuesHaveNoDuplicates` | `QueueHasNoDuplicates` |
| | `DispatchOnlyMovesForward` | `ExecutesEachCommandOnce` |
| | `SingleNodeAtLeastOnce` | with one node and no plane restart, `CommandLeavesQueueExecuted` |
| `AgentProofs` | `SupervisorTypeCorrect` | `Supervisor`'s type invariant |
| | `OneProcessAtATime` | `NoProcessLeaked` |
| | `BudgetRespected` | `RestartBudget` |
| | `RevivedByCommandsOnly` | `OnlyCommandsRevive` |
| | `HeardOnceInOrder` | `RelayedOnceInOrder` |
| | `FloorSkipsNothing` | `FloorAccountsForMessages` |
| `ServeProofs` | `DrainedOnShutdown` | `AcceptedIsHandled` |
| `FlowRunProofs` | `NothingIsLost` | `NothingLost` |
| | `DuplicatesAreUnmarked` | if no two sources share a key, `DuplicatesOnlyUnmarked` |
| | `MarkedIsNeverResent` | if no two sources share a key, `MarkedNeverResent` |
| `ApproveQueueProofs` | `ApprovedReachesSink` | `ApprovedIsDelivered` |
| | `ParkedIsKept` | with `Together = FALSE`, `QueueAccountsForParks` |
| | `FileIsReplaced` | with `Together = FALSE`, `SavesAreAtomic` |
| `GatewayProofs` | `CallersAreToldTheTruth` | `AnswersTruthful` |
| | `KeysStay` | `KeyKeepsTarget` |
| | `RoundRobinGoesRound` | `SelectionSpreads` |
| `StdioProofs` | `CallsAreExact` | `CallsAtMostOnce`: `Stdio` implements `RemoteCalls`, step by step |
| | `StreamIsInOrder` | `RowsInOrder` |
| `GraphProofs` | `BuiltAsWalked` | `BuiltSoundly` |
| | `CycleOrTrigger` | `RefusedForCycle` |
| | `WarningsExact` | `WarnsExactly` |
| | `ManifestsOnlyAdd` | `RegistrationsStay` |
| | `UpdatesCounted` | `StatesCount` |
| | `ItemsAccounted` | `NothingVanishes` |
| | `BuffersBalance` | `BuffersAccount` |

With these, every safety invariant and every safety property of a step that a passing run checks is proved.

Each module proves that an inductive invariant holds in every state (`IInv` and the theorem `Invariance`, where
it is not spelled out in the theorems themselves; `StartInv` and `ControlInv` with `StartInvariance` and
`ControlInvariance` in `GraphProofs`), and that it implies the property. TLC has checked the conjuncts of
each on the run of its module before they were proved. The proof that a step
keeps it has a lemma for each conjunct and in it a step for each action. Why it takes more than the property:

* **`ControlPlane`.** That a queue has no two commands with one number is not inductive: a command enqueued
  takes the next number of its node, so no number in a queue may exceed the node's counter
  (`NumbersBounded`). That executed numbers grow needs facts about the response the agent is working
  through: its commands have distinct numbers (`HeldNumbersDistinct`) and all lie above `lastSeq`, except
  that the one being acknowledged equals it (`HeldCommandsAhead`). For the at-least-once theorem the held
  commands must moreover be those of the queue (`HeldAgreesWithQueue`), which is true only when no other
  node's ack reaches this queue and the plane does not restart: the theorem assumes both, and without the
  first it is false (see below).
* **`Supervisor`.** `NoProcessLeaked` is about two points of the task; `PointOfTask` says for every point
  which process and published state go with it. The budget needs `RespawnsCounted`: every respawn was counted
  in `attempts` first, and an attempt that is being made was below the limit. The budget proved is the
  code's: `max_restarts - 1` respawns, since an attempt is counted before it is compared.
* **`Relay`.** An instance and the plane each keep a cursor and each forgets it, so the property alone says
  nothing of the next pull. `EachHearsBelow` says that what an instance has heard, or is about to hear from
  a response under way, is in the order of the mailbox and at or below the plane's floor for it; a pull
  answers from above the floor. It needs that an instance asks again only when the last exchange is over
  (`OneExchange`) and that the plane accepts a payload once (`AcceptedOnce`), also across a restart that
  empties the mailbox. What the channel was given is tied to that by `ChannelFollowsRelay`: an entry from the
  relay names its place in what the relay has offered, these places grow along the channel, and what an
  instance published itself was put there before the relay could offer it, once. The second theorem adds `CursorsBelowFloor`, which is true until the first restart.
* **`Serve`.** `AcceptedIsHandled` speaks of the end. `AcceptedIsSomewhere` follows a payload answered 202
  from the channel to the task that holds it, `EndedIsDrained` says that an HTTP task ends only after its
  server has closed with nothing left in its channel and no handler left, reading or posting, and `JoinedHaveEnded` that the run is
  over only when every task is.
* **`FlowRun`.** That nothing is lost needs that marks are true (`MarksAreTrue`: what is marked, or about to
  be, was kept by a sink of the route) and that what a task is through with is settled (`ThroughIsSettled`),
  in every run, since a resumed one believes the marks of those before. For duplicates, what a task is about
  to send is not marked (`SendsAreFresh`), which is where `SourcesApart` is needed, and a sink has a key at
  most once for this process and once for each lost mark (`CopiesBounded`). Two sources that share a key
  break both properties (see below), so the hypothesis cannot be dropped.
* **`ApproveQueue`.** What is taken is followed to the sink by `TakenIsUnderWay`; that a mark may be believed,
  wherever it comes from, is `MarksAreSent`. The other two theorems need the agreement of four copies of the
  entries: memory, the snapshot of a save, the temporary file and the file. As long as one task at a time
  changes the store and the command keeps away from a running flow, the task in a save has the store's
  memory as its snapshot and the temporary file for itself (`SaveIsAlone`), the queue pushed is the one in
  memory (`LoadedIsCurrent`), and memory accounts for the parks not yet saved (`MemoryAccounts`).
  `Orderly` is part of the properties; `Together = FALSE` is a hypothesis, as both fail without it.
* **`Gateway`.** `ServedOK` ties where a request is to which of its targets have it: no others than the first
  so many as it was sent to. `KeyKeepsTarget` needs that a hashed selection starts at the least hash
  (`LeastHash`), and then that hashes differ. For `SelectionSpreads` the counter of a route is the number of
  its selections without a key (`CounterCounts`), and every first target is the one at that place of the
  candidates, in the order in which the map was walked at the time. That order is forgotten when the map
  changes, hence the quantifier of `SelectedInTurn`: there is a history of orders that explains every
  selection.
* **`Stdio`.** The refinement holds because of what is in the pipes. Between two requests there are stray
  lines at most; during one there is the request, or the answer in the making, or the answer, once
  (`Conversation`), and an answer with the id under way tells what happened to the call (`Answers`). A caller
  that waits for the mutex has had no effect (`Mutex`). Hence every step of `Stdio` is a step of
  `RemoteCalls` or leaves its variables unchanged. For the stream, what was yielded and what is buffered
  follow the rows of the bus, and the process's `last_id` counts exactly those, an answer under way apart
  (`Drawn`), unless the process is gone, and then the stream does not go on with a new one. It needs to
  know at which stages of serve and stream the calls `pull`, `start` and `stop` can be under way
  (`Streaming`).
* **`Startup`.** No induction over paths is used. "A path leads to" is defined by closed sets (`After`: what is in
  every set of nodes that no route leaves), and so each theorem needs one set only. While routes are removed
  (`KahnInv`), some set of nodes has gone: the count of every other node is the number of routes to it from
  nodes that have not gone, those with count zero have gone or are ready, once each, and no set of nodes that
  have gone has all of its members reached from within it (`NoLoop`). When nothing is ready and all nodes have
  gone, there is no cycle, since the nodes on one would be such a set (`CycleLoops`); when some have not, each of
  them is reached from one that has not, and then one of them is on a cycle (`LoopsCycle`: otherwise the one
  with the fewest others before it would be reached from one with still fewer). The routes of the first count are
  some of those a record may take (`ConfigInv`), those of the second are all of them (`GraphInv`).
  Of a search, `SearchInv` says that what is next to a seen node is seen or on the stack, and that nothing is
  there which is not reached; with the stack empty, what was seen is closed.
* **`ControlNodes`, states.** `RaceInv`: outside of a race at most one thread is amid the update of a state,
  and it has read what memory still holds. That the store ends with what memory has holds because the last
  checkpoint comes when no task is left (`TasksInv`): a save that was overtaken no longer exists then.
* **`ControlNodes`, records.** `AccountInv` is the property, for every phase but "failed"; that it is kept needs
  the shape of the threads (`ThreadsInv`): under the top frame of a stack there are walks only, so that popping
  it loses no record, and a branch hangs from threads that await it, so that those removed when a parallel is
  joined are exactly its branches and have ended. For the end of the run, `FlushInv` says that while batches
  are flushed every frame is at a step that a batch leads to (`BehindBatches`, again by closed sets).
* **`ControlNodes`, joins.** Of a join that balances a parallel, `JoinInv` says that for each correlation, unless
  a branch has gone astray with it, the records coming (on the top of a thread, at a branch or at the join)
  and those in the join's group together are a multiple of the number of branches (`Whole`), and that the group
  alone is smaller than that. A parallel adds one record per branch; a branch passes its record on as one or
  goes astray; the join takes one, and lets all go when it has one of each. When the run has finished nothing
  is coming, so the group is a multiple of a number it is smaller than: it is empty. No record of the
  parallel is without a correlation (`Correlates`), and nobody else leads to the branches or the join, since
  their routes have been counted (`incoming`).

The assumptions are those named in the modules and are evaluated by TLC in the runs: constants have the shape
they are used with, sets that are counted are finite (instances, sources, triggers, calls), `None` and the
gateway's statuses are no members of the sets they are told apart from, a publish, a send and a call of the store are never the same call,
hashes of one key differ between instances, and bounds are natural numbers. A start is given files that parse
(`FlowConfigs`, `ManifestFiles`: fields of the right types, nothing else). A flow that runs has been built:
ids are its steps' own, routes end at steps, roots are sources (what `BuiltSoundly` and the checks before it
establish), and a parallel has branches, which `build_parallel` asks (`sohara-builtins/src/control.rs:160`). Two theorems about `FlowRun` and two
about `ApproveQueue` state a further hypothesis, which the runs satisfy.

Only model-checked:

* `ManagedSetConverges`, `Converges`, `DroppedSupervisorEnds`, `CommandsTaken`, `StateFollowsProcess`,
  `AcceptedIsDelivered`, `ShutdownCompletes`, `RequestsAnswered`, `CallsReturn`, `StopCompletes` and
  `RunEnds`: liveness under fairness, which is out of the prover's reach.

`ResumeWakesEveryWaiter` is refuted, not proved (see below).

## Where code and docs disagree

`serve_missed_wakeup` is a run whose single property states what a comment of the code says, and which
TLC refutes: resuming is said to wake every waiter (`pause.rs:30`), but a task between its look at the
flag and its registration misses the resume and sleeps although the gate is open.

The passing properties carry their exceptions in their text (`CommandsTaken`, `DroppedSupervisorEnds`,
`AcceptedIsDelivered`, `FloorAccountsForMessages`, `NothingLost`, `ShutdownCompletes`, `RowsInOrder`,
`QueueAccountsForParks`, `SavesAreAtomic`, `ApprovedIsDelivered`, `NothingVanishes`, `StatesCount`,
`BuffersAccount`, `RefusedForCycle`) or in the configuration (`AckLoss = FALSE`, one node, `Together = FALSE`). Each
exception is something the code does. Those which a document, a comment or a message of the code
contradicts, or which a reader would not expect:

Plane and agent

* After a lost ack the command stays queued, is skipped by number without an ack (`agent.rs:101`), and
  blocks its own repetition (`reconcile.rs:97`); the design document
  (`docs/design/distributed-plane-and-dashboard.md:70`) says the state converges even if commands are
  lost. `Converges` fails with `AckLoss = TRUE`.
* Numbers are counted per node but an ack, which carries no node, removes its number from every node's
  queue (`registry.rs:187`); the comment above it says "at-least-once delivery". With two nodes and an
  instance on each, `CommandLeavesQueueExecuted` fails: a command of the second is removed before it
  was delivered.
* A restarted plane numbers commands from 1, below what the agent skips (`registry.rs:36`), so
  `Converges` also fails in `plane_unreliable`'s configuration with `AckLoss = FALSE`.
* A declaration repeated with another spec keeps the old process (`agent.rs:121`); `docs/usage.md:126`
  says the process is replaced.
* `max_restarts` attempts (`config.rs:103`) are one restart fewer (`process.rs:253`, `policy.rs:12`):
  `RestartBudget` states the smaller number.
* `shutdown` may return on a published state older than the stop it has just sent (`instance.rs:156`),
  when a start is queued before it.
* A probe or a pause request to a process that accepts it and never answers has no timeout
  (`sohara-agent/src/lib.rs:22`) and stops the supervision loop; `instance.rs:76` says it "honors
  lifecycle commands". `CommandsTaken` without its last disjunct fails.

Relay and gateway

* After a plane restart a topic's numbers start at 1 while subscribers ask from their old cursors
  (`relay_api.rs:70`), so new messages are skipped; `docs/usage.md:152` says the tail of the mailbox is
  replayed. `AcceptedIsDelivered` without its last disjunct fails.
* An instance that publishes to a topic it subscribes to gets its message at once from its own bus
  (`relay.rs:99`) and again by its pull, the first in no order with the others of the relay. `docs/usage.md:149` tells of both
  ways but not of the second copy, and `relay_api.rs:47` of "at-most-once per cursor". `RelayedOnceInOrder`
  names this as the one repetition there is.
* What a pull brings is offered to the local bus with the result ignored (`relay.rs:177`), the bus drops
  what finds its channel full or without a receiver (`bus.rs:48`), and the cursor moves on: an instance that is
  paused long enough loses messages the mailbox still has. `docs/usage.md:152` names only the mailbox's limit.
  `AcceptedIsDelivered` without `missed` in its exception fails.
* Instances subscribed to one topic each get every message; `docs/usage.md:142` says they compete.
* A route goes to every instance last reported as running (`gateway.rs:159`), whether or not its node
  has been heard of since; the design document (`:184`) says a lost agent is taken out of the gateway.
* When all candidates fail the answer is 502 (`gateway.rs:91`), the design document (`:126`) says 503.
  503 is the answer when there is no candidate.
* A route declared with the path `/` matches nothing (`gateway.rs:122`).

Serving

* A handler reads its body without a timeout (`http.rs:117`) and holds a sender of its trigger's channel
  meanwhile, so serve does not return while a client leaves a body unfinished; nor does it while a record is held
  at the pause gate. `docs/usage.md:32` speaks of a graceful drain without either condition. `ShutdownCompletes`
  without `BodiesEnd`, or without `GateOpens`, fails.
* A stopped queue trigger may end with payloads in its channel (`queue.rs:45`); `docs/usage.md:32` says
  serve drains on shutdown, which `AcceptedIsHandled` shows for HTTP only.
* When the stop of an external trigger fails, serve returns the error while the stream's task still runs
  (`serve.rs:133`): until the process ends it can start a new extension process, on which
  `trigger.start` was never called and which counts rows from the first again. `RowsInOrder` without its
  condition fails.

Delivery, store and approval

* A file sink buffers until the flush (`file.rs:248`) while its records are marked at once
  (`walker.rs:49`): a kill in between, or a failure that ends the run before its flush, loses them;
  `docs/design/redesign-and-roadmap.md:329` says a killed run resumes without loss. `NothingLost`
  without its exception fails.
* All sinks behind one record share its key (`persist.rs:168`), so the second one is skipped as
  delivered; the README (`:99`) says "at-least-once delivery".
* Two source tasks with one key both check before either marks (`walker.rs:40`), so with a key shared
  between the sources `DuplicatesOnlyUnmarked` fails.
* "every save rewrites the file atomically" (`sohara-persistence/src/lib.rs:56`) holds for one save at a
  time: two share one temporary name and write it with the lock released, so an older snapshot or a
  mixture may end under the file's name. `SavesAreAtomic` without `Orderly` fails.
* Two records parked at once both load the queue before either saves it (`persist.rs:109`), and one
  is lost though it was reported as waiting.
* `sohara approve` deletes the queue before it injects its records (`serve.rs:200`): when it is killed or
  an injection fails, the rest is lost. Called while the flow is up (`Together = TRUE`) it and the flow
  each keep their own copy of the entries and undo each other's changes.
* A run with `--resume` takes up the saved value of a state step only if the step is configured with a
  `state:` (`persist.rs`, `initial_states`).

Control steps and graph

* Batches are flushed in the order of a hash map (`runner.rs:84`): with one batch behind another, what
  the first emits stays in the second if that one was flushed before; the comment (`runner.rs:23`) says
  batch buffers are flushed. `NothingVanishes` without its exception for such batches (`BehindBatches`) fails.
* Two records amid the same `state` update lose one of the counts (`control.rs:132`), and until the end
  of the run a checkpoint may put an older value into the store.
* `JoinMode::Any` is said to "Release the first record per correlation" (`sohara-core/src/control.rs:20`)
  and releases every record.
* A join holds a record without correlation, or whose counterpart was dropped, for ever; nothing reports
  it at the end of the run.
* The condition of a `loop` is evaluated on a record that does not change (`control.rs:60`): it holds
  every time or never.
* Edges from a `switch`, a `parallel` or a `loop` with a body are never taken, but count among the
  branches a join behind them waits for.
* `run` warns that triggers "are ignored in 'run' mode" (`sohara-runtime/src/lib.rs:71`), but a flow with
  an edge from a trigger is refused as "flow contains a cycle" (`routes.rs:40`), and `sohara approve`
  therefore cannot be used with it. `RefusedForCycle` names the case.
* A trigger type of an extension hides a built-in one of the same name.

## Not modelled

Expression evaluation, transforms, formats, HTTP and database I/O, the JavaScript binding, the
dashboard, events, history, statistics, the reading of configuration files and the command line's
output: pure functions or I/O without state that other components depend on. Time is abstract: backoff
lengths, poll counts and heartbeat intervals appear as steps that may come in any order their code
allows. Two supervisors of one id (an instance removed and declared again while the dropped supervisor
sleeps in a backoff, `agent.rs:136`) would need two generations of `Supervisor` in one model;
`Supervisor` shows that the older one ends and terminates its process. Uploads of flow files to the
plane, and the store in memory, are single assignments.

## Plan

The modules were written and proved in the order of what depends on what: plane and agents, the supervisor,
the relay, serving, a flow's run and its store, the approve queue, the gateway, extensions, the start and the
walk through the graph. All of it is done: every module above is checked by a run, and every safety property of
a passing run is proved.

What could come next, none of which is begun:

1. Two generations of a supervisor in one model, for an instance that is removed and declared again while the
   older one sleeps (`agent.rs:136`), composed with `ControlPlane`'s `reconcile`.
2. A composition of `Startup` and `ControlNodes`, in which `FlowGiven` would be a theorem about what a start has
   built instead of an assumption on the flows given.
3. The liveness properties, if a prover for fairness and ENABLED becomes available.
