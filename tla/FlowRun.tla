------------------------------- MODULE FlowRun ------------------------------
(***************************************************************************)
(* One run of a flow with a state store (sohara-runtime: runner.rs,        *)
(* walker.rs, persist.rs; sohara-builtins file.rs): every source is pumped *)
(* by a task of its own; a record is walked to each sink of its route in   *)
(* turn, where it is skipped if its delivered key is in the store, and     *)
(* otherwise sent and then marked.  At the end the sinks are flushed.  The *)
(* process may die at any point and be run again with --resume, which      *)
(* keeps the run id and so the marks, and reads the sources from the start.*)
(*                                                                         *)
(* Transforms and control steps stand between source and sink only as      *)
(* what may fail; records of one source reach the sinks one at a time.     *)
(***************************************************************************)
EXTENDS Integers, Sequences, FiniteSets, SequencesExt

CONSTANTS
  Sources,     \* roots of the flow
  Records,     \* records the sources may yield
  Keys,        \* delivered keys (idempotency_key, or the hash of the payload)
  delivered_key,  \* [Records -> Keys]
  Input,       \* [Sources -> Seq(Records)]
  Sinks,       \* sink steps
  Routes,      \* routes a flow may have: the sinks in the order they are walked to
  Buffered,    \* sinks that keep what they are sent until flushed (sink.file)
  Appends,     \* buffered sinks with append: true; the others truncate
  MaxRestarts, \* bound: runs after the first
  MaxErrors    \* bound: failed steps, sends, marks and flushes

ASSUME FlowAssumption ==
  /\ IsFiniteSet(Sources)
  /\ delivered_key \in [Records -> Keys]
  /\ Input \in [Sources -> Seq(Records)]
  /\ Routes \subseteq Seq(Sinks) \ {<<>>}
  /\ Appends \subseteq Buffered /\ Buffered \subseteq Sinks
  /\ MaxRestarts \in Nat /\ MaxErrors \in Nat

VARIABLES
  route,       \* the flow's route
  delivered,   \* the store's entries in memory: delivered keys of this run id
  stored,      \* the store's file: the entries at its last successful save
  output,      \* per sink, what it has written out
  buffer,      \* per sink, what it was sent and has not written
  pc,          \* per source task: "pull", "walk", "send", "mark", "done"
  at,          \* per source task, records pulled
  hop,         \* per source task, the sink of the route it is at
  phase,       \* "running", "finished", "down"
  failed,      \* per sink, keys whose send failed in this run, or their step did
  unmarked,    \* per key, sends of earlier processes whose mark is not in the file
  restarts, errors  \* what the bounds count

taskVars == <<pc, at, hop>>
vars == <<route, delivered, stored, output, buffer, pc, at, hop, phase, failed, unmarked, restarts, errors>>

record(t) == Input[t][at[t]]
key(t) == delivered_key[record(t)]
sink(t) == route[hop[t]]

Error == errors < MaxErrors /\ errors' = errors + 1

\* Go on with the next sink of the route, or with the next record.
Advance(t) ==
  /\ pc' = [pc EXCEPT ![t] = IF hop[t] < Len(route) THEN "walk" ELSE "pull"]
  /\ hop' = [hop EXCEPT ![t] = IF @ < Len(route) THEN @ + 1 ELSE 1]
  /\ UNCHANGED at

-----------------------------------------------------------------------------
(* run_source: pull a record and walk it. *)

run_source(t) ==
  /\ phase = "running"
  /\ pc[t] = "pull"
  /\ IF at[t] < Len(Input[t])
     THEN at' = [at EXCEPT ![t] = @ + 1] /\ pc' = [pc EXCEPT ![t] = "walk"]
     ELSE pc' = [pc EXCEPT ![t] = "done"] /\ UNCHANGED at
  /\ UNCHANGED <<route, delivered, stored, output, buffer, hop, phase, failed, unmarked, restarts, errors>>

\* A step before the sink fails: with on_error continue the record is dropped
\* and counted.
StepFails(t) ==
  /\ phase = "running"
  /\ pc[t] = "walk"
  /\ Error
  /\ failed' = [failed EXCEPT ![sink(t)] = @ \cup {key(t)}]
  /\ Advance(t)
  /\ UNCHANGED <<route, delivered, stored, output, buffer, phase, unmarked, restarts>>

\* Mutants of is_delivered: the store is not asked; the key is that of the
\* record before.
NeverDelivered(t) == FALSE
DeliveredBefore(t) == delivered_key[Input[t][IF at[t] > 1 THEN at[t] - 1 ELSE 1]] \in delivered

\* The key names the record, and neither the sink nor the step.
is_delivered(t) == key(t) \in delivered

\* walk, at a sink: a duplicate is counted and left out, anything else is sent.
walk(t) ==
  /\ phase = "running"
  /\ pc[t] = "walk"
  /\ IF is_delivered(t) THEN Advance(t)
     ELSE pc' = [pc EXCEPT ![t] = "send"] /\ UNCHANGED <<at, hop>>
  /\ UNCHANGED <<route, delivered, stored, output, buffer, phase, failed, unmarked, restarts, errors>>

\* sink.send succeeds.
send(t) ==
  /\ phase = "running"
  /\ pc[t] = "send"
  /\ IF sink(t) \in Buffered
     THEN buffer' = [buffer EXCEPT ![sink(t)] = Append(@, record(t))] /\ UNCHANGED output
     ELSE output' = [output EXCEPT ![sink(t)] = Append(@, record(t))] /\ UNCHANGED buffer
  /\ pc' = [pc EXCEPT ![t] = "mark"]
  /\ UNCHANGED <<route, delivered, stored, at, hop, phase, failed, unmarked, restarts, errors>>

\* Mutant of SendFails: a failed send is marked like one that succeeded.
SendFailsMarks(t) ==
  /\ phase = "running"
  /\ pc[t] = "send"
  /\ Error
  /\ pc' = [pc EXCEPT ![t] = "mark"]
  /\ UNCHANGED <<route, delivered, stored, output, buffer, at, hop, phase, failed, unmarked, restarts>>

\* sink.send fails: the error is counted and the record goes on unmarked.
SendFails(t) ==
  /\ phase = "running"
  /\ pc[t] = "send"
  /\ Error
  /\ failed' = [failed EXCEPT ![sink(t)] = @ \cup {key(t)}]
  /\ Advance(t)
  /\ UNCHANGED <<route, delivered, stored, output, buffer, phase, unmarked, restarts>>

\* The key enters the store, which rewrites its file with every entry it has.
mark_delivered(t) ==
  /\ phase = "running"
  /\ pc[t] = "mark"
  /\ delivered' = delivered \cup {key(t)}
  /\ stored' = delivered'
  /\ Advance(t)
  /\ UNCHANGED <<route, output, buffer, phase, failed, unmarked, restarts, errors>>

\* The file cannot be written: logged, and the record goes on.  The key stays in
\* memory, and the next save that succeeds writes it too.
MarkFails(t) ==
  /\ phase = "running"
  /\ pc[t] = "mark"
  /\ Error
  /\ delivered' = delivered \cup {key(t)}
  /\ Advance(t)
  /\ UNCHANGED <<route, stored, output, buffer, phase, failed, unmarked, restarts>>

-----------------------------------------------------------------------------
(* The end of the run, the end of the process, the next run. *)

\* FileSink::flush of a buffer that is not empty rewrites the file, or appends.
Flushed(s) ==
  IF buffer[s] = <<>> THEN output[s]
  ELSE IF s \in Appends THEN output[s] \o buffer[s] ELSE buffer[s]

\* All sources are done: flush every sink.
flush_all ==
  /\ phase = "running"
  /\ \A t \in Sources : pc[t] = "done"
  /\ output' = [s \in Sinks |-> Flushed(s)]
  /\ buffer' = [s \in Sinks |-> <<>>]
  /\ phase' = "finished"
  /\ UNCHANGED <<route, delivered, stored, taskVars, failed, unmarked, restarts, errors>>

\* A flush fails, or the process dies amid the flushes: some sinks have written,
\* a file opened without append may be left empty, and what was not written is gone.
FlushFails ==
  /\ phase = "running"
  /\ \A t \in Sources : pc[t] = "done"
  /\ Error
  /\ \E written \in SUBSET Sinks, torn \in SUBSET {s \in Buffered \ Appends : buffer[s] # <<>>} :
       output' = [s \in Sinks |-> IF s \in torn THEN <<>>
                                  ELSE IF s \in written THEN Flushed(s) ELSE output[s]]
  /\ buffer' = [s \in Sinks |-> <<>>]
  /\ phase' = "down"
  /\ UNCHANGED <<route, delivered, stored, taskVars, failed, unmarked, restarts>>

\* The process is gone: killed, or ended by a step that failed with on_error
\* fail, which returns from run before the sinks are flushed.
Down ==
  /\ phase = "running"
  /\ phase' = "down"
  /\ buffer' = [s \in Sinks |-> <<>>]
  /\ UNCHANGED <<route, delivered, stored, output, taskVars, failed, unmarked, restarts, errors>>

\* run --resume, after a crash or again after a run that finished: the new
\* process has the marks of the file.
Resume ==
  /\ phase \in {"down", "finished"}
  /\ restarts < MaxRestarts
  /\ restarts' = restarts + 1
  /\ phase' = "running"
  /\ pc' = [t \in Sources |-> "pull"]
  /\ at' = [t \in Sources |-> 0]
  /\ hop' = [t \in Sources |-> 1]
  /\ failed' = [s \in Sinks |-> {}]
  /\ delivered' = stored
  /\ unmarked' = [k \in Keys |-> unmarked[k]
       + Cardinality({t \in Sources : pc[t] = "mark" /\ key(t) = k})
       + (IF k \in delivered \ stored THEN 1 ELSE 0)]
  /\ UNCHANGED <<route, stored, output, buffer, errors>>

-----------------------------------------------------------------------------
Init ==
  /\ route \in Routes
  /\ delivered = {} /\ stored = {}
  /\ output = [s \in Sinks |-> <<>>]
  /\ buffer = [s \in Sinks |-> <<>>]
  /\ pc = [t \in Sources |-> "pull"]
  /\ at = [t \in Sources |-> 0]
  /\ hop = [t \in Sources |-> 1]
  /\ phase = "running"
  /\ failed = [s \in Sinks |-> {}]
  /\ unmarked = [k \in Keys |-> 0]
  /\ restarts = 0 /\ errors = 0

SourceTask(t) ==
  run_source(t) \/ StepFails(t) \/ walk(t) \/ send(t) \/ SendFails(t) \/ mark_delivered(t) \/ MarkFails(t)

Next ==
  \/ \E t \in Sources : SourceTask(t)
  \/ flush_all \/ FlushFails
  \/ Down
  \/ Resume

Spec == Init /\ [][Next]_vars

-----------------------------------------------------------------------------
\* The keys of what a sink has written, and how often it has written one, or holds one.
WrittenKeys(s) == {delivered_key[output[s][i]] : i \in 1..Len(output[s])}
Copies(s, k) == Cardinality({i \in 1..Len(output[s]) : delivered_key[output[s][i]] = k})
Held(s, k) == Cardinality({i \in 1..Len(buffer[s]) : delivered_key[buffer[s][i]] = k})

\* The sink has written the record, or this run counted an error for it there.
AccountedFor(r, s) == delivered_key[r] \in WrittenKeys(s) \cup failed[s]

\* However often the process died before, once a run finishes, every record of every
\* source is accounted for at some sink of its route; a sink that keeps what it was
\* sent until it is flushed is held to that in the first run only.
NothingLost ==
  phase = "finished" =>
    \A t \in Sources : \A i \in 1..Len(Input[t]) : \E h \in 1..Len(route) :
      AccountedFor(Input[t][i], route[h]) \/ (route[h] \in Buffered /\ restarts > 0)

\* persist.rs: a key is written a second time only because an earlier process died
\* after the send and before the mark was in the file.
DuplicatesOnlyUnmarked ==
  \A s \in Sinks, k \in Keys : Copies(s, k) <= 1 + unmarked[k]

\* is_delivered: once a key is marked, no sink is given a record with that key
\* again, in this run or in a resumed one: what writes at once writes none, what
\* buffers only moves what it had.
MarkedNeverResent ==
  [][\A s \in Sinks : \A k \in delivered :
       Copies(s, k)' + Held(s, k)' <= Copies(s, k) + Held(s, k)]_vars
=============================================================================
