---------------------------- MODULE ControlNodes ----------------------------
(***************************************************************************)
(* The walk of records through a flow's graph (sohara-runtime control.rs,  *)
(* walker.rs, executor.rs, buffers.rs, runner.rs, persist.rs): a task per  *)
(* source, the branches of a parallel step interleaved within it, the      *)
(* buffers of join and batch steps and the states of state steps shared by *)
(* all of them, and the flush at the end of the run.                       *)
(*                                                                         *)
(* Every task is a stack of what it has still to do.  A payload is known   *)
(* only by the source items that went into it, so that every condition may *)
(* hold or not; the counters are left out, a step that ends the walk of a  *)
(* record being what they count.  FlowRun has the sinks and their marks.   *)
(***************************************************************************)
EXTENDS FlowGraph

CONSTANTS
  Flows,            \* flows, with their roots, whether they have a store, and after
                    \* how many deliveries they save (0: at the end only)
  Items,            \* bound: items each source yields
  MaxUuids,         \* bound: correlations made up
  MaxErrors         \* bound: saves and flushes that fail

\* A flow whose graph could be built: its steps have ids of their own, its routes lead to
\* steps, its roots are sources, and a parallel has branches.
FlowGiven(f) ==
  /\ f.steps \in Seq(StepConfigs) /\ f.edges \in Seq(EdgeConfigs) /\ f.triggers \in Seq(STRING)
  /\ \A i, j \in DOMAIN f.steps : f.steps[i].id = f.steps[j].id => i = j
  /\ \A id \in StepIds(f) : \A k \in DOMAIN wire_routes(f)[id] : wire_routes(f)[id][k].to \in StepIds(f)
  /\ f.roots \in Seq(StepIds(f)) /\ \A i \in DOMAIN f.roots : Step(f, f.roots[i]).kind = "source"
  /\ \A id \in StepIds(f) : Step(f, id).kind = "parallel" => Step(f, id).targets # <<>>
  /\ f.store \in BOOLEAN /\ f.every \in Nat

ASSUME ControlAssumption ==
  /\ \A f \in Flows : FlowGiven(f) /\ \A i \in DOMAIN f.roots : Items[f.roots[i]] \in Nat
  /\ MaxUuids \in Nat /\ MaxErrors \in Nat

VARIABLES
  config,       \* the flow's roots, whether it has a store, and its checkpoint interval
  graph,        \* the node of every step
  threads,      \* per running task or branch, the frames it has still to work off
  pulled,       \* per source, items pulled
  groups,       \* per join and correlation, the records that wait
  batches,      \* per batch, the records it holds and whether its window has begun
  states, stored,  \* per state step, its value in memory and in the store
  since,        \* since_checkpoint
  phase,        \* "running", "flushing", "finished", "failed"
  unflushed,    \* batches flush_batches has not come to
  uuids, errors,   \* what the bounds count
  ended,        \* items with a record that was delivered, parked, counted or dropped
  strayed,      \* steps and correlations: a record did not go on from there as exactly one
  arrived, emitted,  \* per join and batch, records that came in and that went on
  updates,      \* per state step, records it has counted
  raced,        \* two walks were amid an update of one state
  unsaved       \* state steps whose last save failed

runVars == <<config, graph, pulled, phase, unflushed>>
bufferVars == <<groups, batches, arrived, emitted>>
stateVars == <<states, stored, since, updates, raced, unsaved, errors>>
endVars == <<ended, strayed>>
vars == <<runVars, threads, bufferVars, stateVars, endVars, uuids>>

\* The nodes of the flow, as assemble_nodes makes them.
Nodes(f) ==
  LET routes == wire_routes(f)
      incoming == count_incoming(routes)
  IN [id \in StepIds(f) |->
       LET s == Step(f, id) IN
       [kind |-> s.kind, when |-> s.when, on_error |-> s.on_error, targets |-> s.targets,
        max_iterations |-> s.max_iterations, mode |-> s.mode, n |-> s.n, size |-> s.size,
        within |-> s.within, routes |-> routes[id], incoming |-> incoming[id]]]

OfKind(kind) == {id \in DOMAIN graph : graph[id].kind = kind}

\* A record: the items that went into it, and its correlation (0: none).
Record(from, corr) == [from |-> from, corr |-> corr]

WalkTo(r, id) == [op |-> "walk", rec |-> r, at |-> id]
Error == <<[op |-> "error"]>>

top(t) == Head(threads[t])
At(t, op) == threads[t] # <<>> /\ top(t).op = op
Walking(t, kind) == At(t, "walk") /\ graph[top(t).at].kind = kind

\* The thread goes on with the frames in place of its top one.
Push(frames, t) == threads' = [threads EXCEPT ![t] = frames \o Tail(@)]

\* The same for a record that is walked on; with nowhere to go its walk has ended.
WalkOn(t, r, frames) ==
  /\ Push(frames, t)
  /\ ended' = IF frames = <<>> THEN ended \cup r.from ELSE ended
  /\ strayed' = IF Len(frames) = 1 THEN strayed ELSE strayed \cup {<<top(t).at, r.corr>>}

-----------------------------------------------------------------------------
(* route *)

\* k records alike, one after the other: each is walked along every route without a
\* condition, and those with one that holds.
Repeated(r, id, k) ==
  LET routes == graph[id].routes
      Route(m) == routes[((m - 1) % Len(routes)) + 1]
      all == 1..k * Len(routes)
      Frames(off) == LET on == Rising(all \ off) IN [q \in DOMAIN on |-> WalkTo(r, Route(on[q]).to)]
  IN {Frames(off) : off \in SUBSET {m \in all : Route(m).when}}

route(r, id) == Repeated(r, id, 1)

-----------------------------------------------------------------------------
(* walk: one action per kind of node. *)

\* A condition of the node does not hold, or fails.
WhenFails(t) ==
  /\ At(t, "walk") /\ graph[top(t).at].when
  /\ WalkOn(t, top(t).rec, <<>>)
  /\ UNCHANGED <<runVars, bufferVars, stateVars, uuids>>

\* The record is delivered, after which it may be time for a checkpoint.
SinkSends(t) ==
  /\ Walking(t, "sink")
  /\ ended' = ended \cup top(t).rec.from
  /\ IF config.every = 0 THEN Push(<<>>, t) /\ UNCHANGED since
     ELSE /\ since' = since + 1
          /\ Push(IF since + 1 >= config.every THEN <<[op |-> "checkpoint", seen |-> states]>> ELSE <<>>, t)
  /\ UNCHANGED <<runVars, bufferVars, states, stored, updates, raced, unsaved, errors, strayed, uuids>>

\* It is a duplicate, or the sink fails: counted.
SinkEnds(t) ==
  /\ Walking(t, "sink")
  /\ Push(<<>>, t) /\ ended' = ended \cup top(t).rec.from
  /\ UNCHANGED <<runVars, bufferVars, stateVars, strayed, uuids>>

\* apply_transform: passed on, filtered, or expanded to two.
Transforms(t) ==
  /\ Walking(t, "transform")
  /\ \E k \in 0..2 : \E frames \in Repeated(top(t).rec, top(t).at, k) : WalkOn(t, top(t).rec, frames)
  /\ UNCHANGED <<runVars, bufferVars, stateVars, uuids>>

\* It fails, after its retries if it has any: with continue the record is counted, and
\* otherwise the error ends the task.
TransformFails(t) ==
  /\ Walking(t, "transform")
  /\ IF graph[top(t).at].on_error = "continue" THEN WalkOn(t, top(t).rec, <<>>)
     ELSE threads' = [threads EXCEPT ![t] = Error] /\ UNCHANGED endVars
  /\ UNCHANGED <<runVars, bufferVars, stateVars, uuids>>

\* source and delay pass the record on.
PassesOn(t) ==
  /\ Walking(t, "source") \/ Walking(t, "delay")
  /\ \E frames \in route(top(t).rec, top(t).at) : WalkOn(t, top(t).rec, frames)
  /\ UNCHANGED <<runVars, bufferVars, stateVars, uuids>>

\* The first case that holds, or the default.
Switch(t) ==
  /\ Walking(t, "switch")
  /\ \E i \in DOMAIN graph[top(t).at].targets :
       WalkOn(t, top(t).rec, <<WalkTo(top(t).rec, graph[top(t).at].targets[i])>>)
  /\ UNCHANGED <<runVars, bufferVars, stateVars, uuids>>

\* As many items as the array has, at most max_iterations.
Foreach(t) ==
  /\ Walking(t, "foreach")
  /\ \E k \in 0..graph[top(t).at].max_iterations :
       \E frames \in Repeated(top(t).rec, top(t).at, k) : WalkOn(t, top(t).rec, frames)
  /\ UNCHANGED <<runVars, bufferVars, stateVars, uuids>>

\* The condition is evaluated on the record and the state of the loop step itself,
\* neither of which changes: it holds max_iterations times or not at all.
Loop(t) ==
  /\ Walking(t, "loop")
  /\ LET n == graph[top(t).at] IN
     \E k \in {0, n.max_iterations} :
       IF n.targets # <<>> THEN WalkOn(t, top(t).rec, [i \in 1..k |-> WalkTo(top(t).rec, n.targets[1])])
       ELSE \E frames \in Repeated(top(t).rec, top(t).at, k) : WalkOn(t, top(t).rec, frames)
  /\ UNCHANGED <<runVars, bufferVars, stateVars, uuids>>

\* Parked if there is a store, which fails or not; routed through without.
Approve(t) ==
  /\ Walking(t, "approve")
  /\ IF config.store THEN WalkOn(t, top(t).rec, <<>>)
     ELSE \E frames \in route(top(t).rec, top(t).at) : WalkOn(t, top(t).rec, frames)
  /\ UNCHANGED <<runVars, bufferVars, stateVars, uuids>>

-----------------------------------------------------------------------------
(* parallel: a thread per branch *)

Fresh == uuids < MaxUuids /\ uuids' = uuids + 1

\* The correlation the branches share: the record's, or a new one.
Correlated(r) == IF r.corr # 0 THEN r ELSE Record(r.from, uuids + 1)

Branches(t) == {b \in DOMAIN threads : Len(b) > Len(t) /\ SubSeq(b, 1, Len(t)) = t}

\* Mutant of Spawned: a correlation for every branch.
SpawnedApart(t, r, targets) ==
  [b \in DOMAIN threads \cup {Append(t, i) : i \in DOMAIN targets} |->
    IF b = t THEN <<[op |-> "await"]>> \o Tail(threads[t])
    ELSE IF b \in DOMAIN threads THEN threads[b]
    ELSE <<WalkTo(Record(r.from, b[Len(b)]), targets[b[Len(b)]])>>]

Spawned(t, r, targets) ==
  [b \in DOMAIN threads \cup {Append(t, i) : i \in DOMAIN targets} |->
    IF b = t THEN <<[op |-> "await"]>> \o Tail(threads[t])
    ELSE IF b \in DOMAIN threads THEN threads[b]
    ELSE <<WalkTo(r, targets[b[Len(b)]])>>]

Parallel(t) ==
  /\ Walking(t, "parallel")
  /\ IF top(t).rec.corr # 0 THEN UNCHANGED uuids ELSE Fresh
  /\ threads' = Spawned(t, Correlated(top(t).rec), graph[top(t).at].targets)
  /\ UNCHANGED <<runVars, bufferVars, stateVars, endVars>>

Without(gone) == [b \in DOMAIN threads \ gone |-> threads[b]]

\* Mutant of Joined: the errors of branches are not looked at.
JoinedAll(t) ==
  /\ At(t, "await")
  /\ \A b \in Branches(t) : threads[b] = <<>>
  /\ threads' = [Without(Branches(t)) EXCEPT ![t] = Tail(@)]
  /\ UNCHANGED <<runVars, bufferVars, stateVars, endVars, uuids>>

\* try_join_all: every branch has ended, or one has failed and the others are dropped.
Joined(t) ==
  /\ At(t, "await")
  /\ \/ /\ \A b \in Branches(t) : threads[b] = <<>>
        /\ threads' = [Without(Branches(t)) EXCEPT ![t] = Tail(@)]
     \/ /\ \E b \in Branches(t) : Len(b) = Len(t) + 1 /\ threads[b] = Error
        /\ threads' = [Without(Branches(t)) EXCEPT ![t] = Error]
  /\ UNCHANGED <<runVars, bufferVars, stateVars, endVars, uuids>>

-----------------------------------------------------------------------------
(* join and batch: the buffer is locked while the record goes in and the full group *)
(* comes out.                                                                       *)

Merged(records) == Record(UNION {records[i].from : i \in DOMAIN records}, records[1].corr)

Ready(n, group) ==
  CASE n.mode = "any" -> TRUE
    [] n.mode = "all" -> Len(group) >= n.incoming /\ Len(group) >= 1
    [] n.mode = "n" -> Len(group) >= n.n

\* What a join keeps of a group with one more record.
Left(n, group) == IF Ready(n, group) THEN <<>> ELSE group

apply_join(t) ==
  /\ Walking(t, "join")
  /\ LET id == top(t).at
         r == top(t).rec
         corr == IF r.corr # 0 THEN r.corr ELSE uuids + 1
         group == Append(groups[id][corr], r)
     IN /\ IF r.corr # 0 THEN UNCHANGED uuids ELSE Fresh
        /\ groups' = [groups EXCEPT ![id][corr] = Left(graph[id], group)]
        /\ arrived' = [arrived EXCEPT ![id] = @ + 1]
        /\ IF Ready(graph[id], group)
           THEN /\ emitted' = [emitted EXCEPT ![id] = @ + Len(group)]
                /\ \E frames \in route(Merged(group), id) : WalkOn(t, Merged(group), frames)
           ELSE Push(<<>>, t) /\ UNCHANGED <<emitted, endVars>>
  /\ UNCHANGED <<runVars, batches, stateVars>>

\* emit_batch: one record of all of them, without a correlation.
Emitted(records) == Record(UNION {records[i].from : i \in DOMAIN records}, 0)

EmptyBatch == [records |-> <<>>, since |-> FALSE]

\* Mutant of apply_batch: a full batch goes on without the record that filled it.
apply_batch_late(t) ==
  /\ Walking(t, "batch")
  /\ LET id == top(t).at
         held == batches[id].records
     IN /\ arrived' = [arrived EXCEPT ![id] = @ + 1]
        /\ \/ /\ Len(held) + 1 >= graph[id].size
              /\ batches' = [batches EXCEPT ![id] = EmptyBatch]
              /\ emitted' = [emitted EXCEPT ![id] = @ + Len(held) + 1]
              /\ \E frames \in route(Emitted(held), id) : WalkOn(t, Emitted(held), frames)
           \/ /\ Len(held) + 1 < graph[id].size
              /\ batches' = [batches EXCEPT ![id] = [records |-> Append(held, top(t).rec), since |-> TRUE]]
              /\ Push(<<>>, t) /\ UNCHANGED <<emitted, endVars>>
  /\ UNCHANGED <<runVars, groups, stateVars, uuids>>

\* Full, or its window over: the whole batch goes on.  Otherwise the record stays.
apply_batch(t) ==
  /\ Walking(t, "batch")
  /\ LET id == top(t).at
         records == Append(batches[id].records, top(t).rec)
         size_hit == graph[id].size # 0 /\ Len(records) >= graph[id].size
         may_hit == graph[id].within /\ batches[id].since
     IN /\ arrived' = [arrived EXCEPT ![id] = @ + 1]
        /\ \/ /\ size_hit \/ may_hit
              /\ batches' = [batches EXCEPT ![id] = EmptyBatch]
              /\ emitted' = [emitted EXCEPT ![id] = @ + Len(records)]
              /\ \E frames \in route(Emitted(records), id) : WalkOn(t, Emitted(records), frames)
           \/ /\ ~size_hit
              /\ batches' = [batches EXCEPT ![id] = [records |-> records, since |-> TRUE]]
              /\ Push(<<>>, t) /\ UNCHANGED <<emitted, endVars>>
  /\ UNCHANGED <<runVars, groups, stateVars, uuids>>

-----------------------------------------------------------------------------
(* state: read, written and saved in steps of their own; the store writes at once. *)

Amid(id) == {u \in DOMAIN threads : At(u, "write") /\ top(u).at = id}

\* eval_value and state_value; an expression that fails ends the record's walk.
apply_state(t) ==
  /\ Walking(t, "state")
  /\ \/ /\ Push(<<[op |-> "write", rec |-> top(t).rec, at |-> top(t).at, seen |-> states[top(t).at]]>>, t)
        /\ raced' = (raced \/ Amid(top(t).at) # {})
        /\ UNCHANGED endVars
     \/ WalkOn(t, top(t).rec, <<>>) /\ UNCHANGED raced
  /\ UNCHANGED <<runVars, bufferVars, states, stored, since, updates, unsaved, errors, uuids>>

\* update_state inserts the value, one more than the one read ...
update_state(t) ==
  /\ At(t, "write")
  /\ states' = [states EXCEPT ![top(t).at] = top(t).seen + 1]
  /\ updates' = [updates EXCEPT ![top(t).at] = @ + 1]
  /\ Push(<<[top(t) EXCEPT !.op = "save", !.seen = @ + 1]>>, t)
  /\ UNCHANGED <<runVars, bufferVars, stored, since, raced, unsaved, errors, endVars, uuids>>

\* The saves of a set of states; what cannot be saved is logged.
SavesAll(values) ==
  IF ~config.store THEN UNCHANGED <<stored, unsaved, errors>>
  ELSE \E bad \in SUBSET DOMAIN values :
         /\ errors + Cardinality(bad) <= MaxErrors /\ errors' = errors + Cardinality(bad)
         /\ stored' = [id \in DOMAIN stored |-> IF id \in DOMAIN values \ bad THEN values[id] ELSE stored[id]]
         /\ unsaved' = (unsaved \ DOMAIN values) \cup bad

\* ... and saves it, with the lock released; then the record goes on.
SaveState(t) ==
  /\ At(t, "save")
  /\ SavesAll([id \in {top(t).at} |-> top(t).seen])
  /\ \E frames \in route(top(t).rec, top(t).at) : WalkOn(t, top(t).rec, frames)
  /\ UNCHANGED <<runVars, bufferVars, states, since, updates, raced, uuids>>

\* maybe_checkpoint: the states it has cloned are saved.
Checkpoint(t) ==
  /\ At(t, "checkpoint")
  /\ SavesAll(top(t).seen)
  /\ since' = IF config.store THEN 0 ELSE since
  /\ Push(<<>>, t)
  /\ UNCHANGED <<runVars, bufferVars, states, updates, raced, endVars, uuids>>

-----------------------------------------------------------------------------
(* The run *)

\* An item of the source is walked from the source, or is an error and counted.
run_source(s) ==
  /\ phase = "running"
  /\ threads[<<s>>] = <<>> /\ pulled[s] < Items[s]
  /\ pulled' = [pulled EXCEPT ![s] = @ + 1]
  /\ LET item == <<s, pulled[s] + 1>> IN
     \/ threads' = [threads EXCEPT ![<<s>>] = <<WalkTo(Record({item}, 0), s)>>] /\ UNCHANGED endVars
     \/ ended' = ended \cup {item} /\ UNCHANGED <<threads, strayed>>
  /\ UNCHANGED <<config, graph, phase, unflushed, bufferVars, stateVars, uuids>>

Done(s) == threads[<<s>>] = <<>> /\ pulled[s] = Items[s]

\* The tasks are awaited in the order of the roots: the first that failed, the ones
\* before it done, fails the run; the process ends with it.
RunFails ==
  /\ phase = "running"
  /\ \E i \in DOMAIN config.roots :
       threads[<<config.roots[i]>>] = Error /\ \A k \in 1..i - 1 : Done(config.roots[k])
  /\ phase' = "failed"
  /\ UNCHANGED <<config, graph, pulled, unflushed, threads, bufferVars, stateVars, endVars, uuids>>

\* Every source is done: flush_all, a thread of its own here.
flush_all ==
  /\ phase = "running"
  /\ \A i \in DOMAIN config.roots : Done(config.roots[i])
  /\ phase' = "flushing"
  /\ unflushed' = OfKind("batch")
  /\ threads' = [t \in {<<"flush">>} |-> <<>>]
  /\ UNCHANGED <<config, graph, pulled, bufferVars, stateVars, endVars, uuids>>

\* flush_batches comes to the batches in the order of a hash map.
flush_batches ==
  /\ phase = "flushing"
  /\ threads[<<"flush">>] = <<>>
  /\ \E id \in unflushed :
       LET records == batches[id].records IN
       /\ unflushed' = unflushed \ {id}
       /\ batches' = [batches EXCEPT ![id].records = <<>>]
       /\ emitted' = [emitted EXCEPT ![id] = @ + Len(records)]
       /\ IF records = <<>> THEN UNCHANGED <<threads, endVars>>
          ELSE \E frames \in route(Emitted(records), id) :
                 /\ threads' = [threads EXCEPT ![<<"flush">>] = frames]
                 /\ ended' = IF frames = <<>> THEN ended \cup Emitted(records).from ELSE ended
                 /\ UNCHANGED strayed
  /\ UNCHANGED <<config, graph, pulled, phase, groups, arrived, stateVars, uuids>>

\* Mutant of FlushEnds: no checkpoint at the end.
FlushOnly ==
  /\ phase = "flushing" /\ threads[<<"flush">>] = <<>> /\ unflushed = {}
  /\ phase' = "finished"
  /\ UNCHANGED <<config, graph, pulled, unflushed, threads, bufferVars, stateVars, endVars, uuids>>

\* The sinks are flushed, every state is saved, and the run has finished.
FlushEnds ==
  /\ phase = "flushing" /\ threads[<<"flush">>] = <<>> /\ unflushed = {}
  /\ SavesAll(states)
  /\ since' = IF config.store THEN 0 ELSE since
  /\ phase' = "finished"
  /\ UNCHANGED <<config, graph, pulled, unflushed, threads, bufferVars, states, updates, raced, endVars, uuids>>

\* A record of a flushed batch, or the flush of a sink, fails.
FlushFails ==
  /\ phase = "flushing"
  /\ \/ threads[<<"flush">>] = Error /\ UNCHANGED errors
     \/ /\ threads[<<"flush">>] = <<>> /\ unflushed = {}
        /\ errors < MaxErrors /\ errors' = errors + 1
  /\ phase' = "failed"
  /\ UNCHANGED <<config, graph, pulled, unflushed, threads, bufferVars, states, stored, since, updates, raced, unsaved, endVars, uuids>>

-----------------------------------------------------------------------------
Init ==
  /\ \E f \in Flows :
       /\ config = [roots |-> f.roots, store |-> f.store, every |-> f.every]
       /\ graph = Nodes(f)
  /\ threads = [t \in {<<config.roots[i]>> : i \in DOMAIN config.roots} |-> <<>>]
  /\ pulled = [s \in ToSet(config.roots) |-> 0]
  /\ groups = [id \in OfKind("join") |-> [c \in 1..MaxUuids |-> <<>>]]
  /\ batches = [id \in OfKind("batch") |-> EmptyBatch]
  /\ states = [id \in OfKind("state") |-> 0] /\ stored = states
  /\ since = 0 /\ phase = "running" /\ unflushed = {}
  /\ uuids = 0 /\ errors = 0
  /\ ended = {} /\ strayed = {}
  /\ arrived = [id \in OfKind("join") \cup OfKind("batch") |-> 0] /\ emitted = arrived
  /\ updates = states /\ raced = FALSE /\ unsaved = {}

walk(t) ==
  \/ WhenFails(t) \/ SinkSends(t) \/ SinkEnds(t) \/ Transforms(t) \/ TransformFails(t)
  \/ PassesOn(t) \/ Switch(t) \/ Foreach(t) \/ Loop(t) \/ Approve(t)
  \/ Parallel(t) \/ Joined(t) \/ apply_join(t) \/ apply_batch(t)
  \/ apply_state(t) \/ update_state(t) \/ SaveState(t) \/ Checkpoint(t)

Next ==
  \/ phase \in {"running", "flushing"} /\ \E t \in DOMAIN threads : walk(t)
  \/ \E s \in DOMAIN pulled : run_source(s)
  \/ RunFails \/ flush_all \/ flush_batches \/ FlushEnds \/ FlushFails

\* The runtime polls whatever can go on.
Spec == Init /\ [][Next]_vars /\ WF_vars(Next)

-----------------------------------------------------------------------------
InFlight == UNION {IF "rec" \in DOMAIN f THEN f.rec.from ELSE {} : f \in UNION {ToSet(threads[t]) : t \in DOMAIN threads}}
InGroups == UNION {UNION {UNION {r.from : r \in ToSet(groups[id][c])} : c \in 1..MaxUuids} : id \in DOMAIN groups}
InBatches == UNION {UNION {r.from : r \in ToSet(batches[id].records)} : id \in DOMAIN batches}
Pulled == UNION {{s} \X (1..pulled[s]) : s \in DOMAIN pulled}

Failed == \E t \in DOMAIN threads : threads[t] = Error

\* Where records may be walked to from a step, and the steps they may come to from a batch.
Onward(id) == {graph[id].routes[k].to : k \in DOMAIN graph[id].routes}
BehindBatches ==
  {id \in DOMAIN graph : \A C \in SUBSET DOMAIN graph : (\A a \in OfKind("batch") \cup C : Onward(a) \subseteq C) => id \in C}

\* runner.rs, control.rs: as long as no step has failed the run, every item pulled has
\* been delivered, counted, parked or dropped by a condition, or some record that has it
\* is under way or in a buffer; once the run has finished, no task has failed and only
\* joins still hold any, and batches that another batch leads to.
NothingVanishes ==
  /\ phase # "failed" /\ ~Failed => Pulled = ended \cup InFlight \cup InGroups \cup InBatches
  /\ phase = "finished" =>
       /\ ~Failed /\ InFlight = {}
       /\ \A id \in DOMAIN batches : batches[id].records # <<>> => id \in BehindBatches

\* The join gets what the branches of a parallel pass on and nothing from elsewhere, and
\* has no condition of its own.
Balances(p, id) ==
  /\ graph[id].mode = "all" /\ ~graph[id].when
  /\ graph[id].incoming = Len(graph[p].targets)
  /\ \A b \in ToSet(graph[p].targets) :
       /\ graph[b].kind \in {"transform", "delay", "state", "approve", "foreach"}
       /\ graph[b].incoming = 1 /\ graph[b].routes = <<[to |-> id, when |-> FALSE]>>

\* The records a join holds, by their correlations and places.
Held(id) == UNION {{c} \X (DOMAIN groups[id][c]) : c \in DOMAIN groups[id]}

\* apply_join, apply_batch, flush_batches: what came into a buffer has gone on or is
\* still there, none of it twice; and when a run has finished, a join of all branches of
\* a parallel holds a group only if some branch did not pass a record of its correlation
\* on as exactly one: it dropped, filtered or expanded it, parked it or counted an error.
BuffersAccount ==
  /\ \A id \in DOMAIN groups : arrived[id] = emitted[id] + Cardinality(Held(id))
  /\ \A id \in DOMAIN batches : arrived[id] = emitted[id] + Len(batches[id].records)
  /\ phase = "finished" =>
       \A p \in OfKind("parallel"), id \in DOMAIN groups, c \in 1..MaxUuids :
         Balances(p, id) /\ groups[id][c] # <<>> => \E b \in ToSet(graph[p].targets) : <<b, c>> \in strayed

\* apply_state, checkpoint: as long as no two records are amid an update of one state,
\* none of them is lost; and however the saves of updates and checkpoints interleave,
\* once the run has finished the store has what memory has.
StatesCount ==
  /\ ~raced => states = updates
  /\ phase = "finished" /\ config.store => \A id \in DOMAIN states \ unsaved : stored[id] = states[id]

\* A run of sources that end comes to its end, finished or failed.
RunEnds == <>(phase \in {"finished", "failed"})
=============================================================================
