--------------------------- MODULE FlowRunProofs ----------------------------
(***************************************************************************)
(* For any sources, records, keys, sinks and routes, and any number of     *)
(* crashes and errors: no record of a run that finishes is lost; and, for  *)
(* sources that share no key, a key that is marked is never sent again and *)
(* a key is written once more only for a send whose mark was not kept.     *)
(***************************************************************************)
EXTENDS FlowRun, FiniteSetTheorems, TLAPS

-----------------------------------------------------------------------------
(* The inductive invariant. *)

Walking == {"walk", "send", "mark"}

TypeOK ==
  /\ route \in Seq(Sinks) /\ Len(route) > 0
  /\ delivered \subseteq Keys /\ stored \subseteq delivered
  /\ output \in [Sinks -> Seq(Records)] /\ buffer \in [Sinks -> Seq(Records)]
  /\ pc \in [Sources -> Walking \cup {"pull", "done"}]
  /\ at \in [Sources -> Nat] /\ hop \in [Sources -> Nat]
  /\ phase \in {"running", "finished", "down"}
  /\ failed \in [Sinks -> SUBSET Keys]
  /\ unmarked \in [Keys -> Nat]
  /\ restarts \in Nat

\* A task that walks has a record and a sink; one that does not is at the first sink.
TaskOK(t) ==
  /\ at[t] \in 0..Len(Input[t]) /\ hop[t] \in 1..Len(route)
  /\ pc[t] \in Walking => at[t] > 0
  /\ pc[t] \notin Walking => hop[t] = 1
  /\ pc[t] = "done" => at[t] = Len(Input[t])
TasksOK == \A t \in Sources : TaskOK(t)

KeysOf(q) == {delivered_key[q[i]] : i \in 1..Len(q)}

\* The sink has the key, written or in its buffer, or it buffers and a process has ended.
Kept(k, s) == k \in KeysOf(output[s]) \cup KeysOf(buffer[s]) \/ (s \in Buffered /\ (restarts > 0 \/ phase = "down"))

KeptSomewhere(k) == \E h \in 1..Len(route) : Kept(k, route[h])
FailedSomewhere(k) == \E h \in 1..Len(route) : k \in failed[route[h]]

\* Only sinks that buffer have a buffer, and only while the process runs; in the first
\* run they have written nothing before they are flushed.
BuffersOK ==
  /\ \A s \in Sinks : s \notin Buffered \/ phase # "running" => buffer[s] = <<>>
  /\ restarts = 0 /\ phase = "running" => \A s \in Buffered : output[s] = <<>>

\* What is about to be marked was sent, and what is marked is kept.
MarksAreTrue ==
  /\ phase = "running" => \A t \in Sources : pc[t] = "mark" => Kept(key(t), sink(t))
  /\ \A k \in delivered : KeptSomewhere(k)

\* The task is through with its i-th record, at one sink at least.
Through(t, i) == i < at[t] \/ (i = at[t] /\ (pc[t] \notin Walking \/ hop[t] > 1))
ThroughIsSettled ==
  \A t \in Sources : \A i \in 1..at[t] :
    Through(t, i) => KeptSomewhere(delivered_key[Input[t][i]]) \/ FailedSomewhere(delivered_key[Input[t][i]])

FinishedIsDone == phase = "finished" => \A t \in Sources : pc[t] = "done"

IInv == TypeOK /\ TasksOK /\ BuffersOK /\ MarksAreTrue /\ ThroughIsSettled /\ FinishedIsDone

-----------------------------------------------------------------------------
(* Keys of sequences. *)

\* Writing a record keeps the keys written and adds its own.
LEMMA KeysOfAppend ==
  ASSUME NEW q \in Seq(Records), NEW r \in Records
  PROVE  KeysOf(q) \subseteq KeysOf(Append(q, r)) /\ delivered_key[r] \in KeysOf(Append(q, r))
<1>1. Append(q, r) \in Seq(Records) /\ Len(Append(q, r)) = Len(q) + 1 /\ Append(q, r)[Len(q) + 1] = r
      /\ \A i \in 1..Len(q) : Append(q, r)[i] = q[i]
  OBVIOUS
<1>2. Len(q) \in Nat
  OBVIOUS
<1>. QED BY <1>1, <1>2 DEF KeysOf

\* A flush keeps the keys of the output and of the buffer.
LEMMA KeysOfConcat ==
  ASSUME NEW q \in Seq(Records), NEW r \in Seq(Records)
  PROVE  KeysOf(q) \cup KeysOf(r) \subseteq KeysOf(q \o r)
<1>1. Len(q \o r) = Len(q) + Len(r) /\ Len(q) \in Nat /\ Len(r) \in Nat
  OBVIOUS
<1>2. \A i \in 1..Len(q) : i \in 1..Len(q \o r) /\ (q \o r)[i] = q[i]
  BY <1>1
<1>3. \A i \in 1..Len(r) : (Len(q) + i) \in 1..Len(q \o r) /\ (q \o r)[Len(q) + i] = r[i]
  BY <1>1
<1>4. ASSUME NEW k \in KeysOf(q) PROVE k \in KeysOf(q \o r)
  BY <1>2 DEF KeysOf
<1>5. ASSUME NEW k \in KeysOf(r) PROVE k \in KeysOf(q \o r)
  <2>1. PICK i \in 1..Len(r) : k = delivered_key[r[i]]
    BY DEF KeysOf
  <2>. QED BY <1>3, <2>1 DEF KeysOf
<1>. QED BY <1>4, <1>5

\* Nothing written has no keys.
LEMMA KeysOfEmpty == KeysOf(<<>>) = {}
BY DEF KeysOf

-----------------------------------------------------------------------------
(* One lemma per part of the invariant. *)

\* The record, the key and the sink of a task that walks.
LEMMA WalkingHas ==
  ASSUME TypeOK, TasksOK, NEW t \in Sources, pc[t] \in Walking
  PROVE  record(t) \in Records /\ key(t) \in Keys /\ sink(t) \in Sinks
<1>1. Input[t] \in Seq(Records) /\ at[t] \in 1..Len(Input[t])
  BY FlowAssumption DEF TasksOK, TaskOK, TypeOK
<1>2. record(t) \in Records
  BY <1>1 DEF record
<1>3. route \in Seq(Sinks) /\ hop[t] \in 1..Len(route)
  BY DEF TypeOK, TasksOK, TaskOK
<1>. QED BY <1>2, <1>3, FlowAssumption DEF key, sink

\* What going on with the next sink or record does to the task.
LEMMA AdvanceSpec ==
  ASSUME TypeOK, TasksOK, NEW t \in Sources, pc[t] \in Walking, Advance(t), route' = route
  PROVE  /\ at' = at /\ pc' \in [Sources -> Walking \cup {"pull", "done"}] /\ hop' \in [Sources -> Nat]
         /\ \A u \in Sources \ {t} : pc'[u] = pc[u] /\ hop'[u] = hop[u]
         /\ TaskOK(t)'
         /\ pc'[t] = "walk" \/ pc'[t] = "pull"
<1>1. at[t] \in 0..Len(Input[t]) /\ hop[t] \in 1..Len(route) /\ at[t] > 0 /\ Len(route) \in Nat
  BY DEF TypeOK, TasksOK, TaskOK
<1>2. at' = at /\ pc' \in [Sources -> Walking \cup {"pull", "done"}] /\ hop' \in [Sources -> Nat]
  BY <1>1 DEF Advance, TypeOK, Walking
<1>3. \A u \in Sources \ {t} : pc'[u] = pc[u] /\ hop'[u] = hop[u]
  BY DEF Advance, TypeOK
<1>4. /\ pc'[t] = IF hop[t] < Len(route) THEN "walk" ELSE "pull"
      /\ hop'[t] = IF hop[t] < Len(route) THEN hop[t] + 1 ELSE 1
  BY DEF Advance, TypeOK
<1>5. TaskOK(t)'
  BY <1>1, <1>2, <1>4 DEF TaskOK, Walking
<1>. QED BY <1>2, <1>3, <1>4, <1>5

\* Steps keep the types, and each task where it may be.
LEMMA TypeStep == TypeOK /\ TasksOK /\ [Next]_vars => TypeOK' /\ TasksOK'
<1> SUFFICES ASSUME TypeOK, TasksOK, [Next]_vars PROVE TypeOK' /\ TasksOK'
  OBVIOUS
<1> USE DEF Walking
<1>1. ASSUME NEW t \in Sources, run_source(t) PROVE TypeOK' /\ TasksOK'
  <2>1. UNCHANGED <<route, delivered, stored, output, buffer, hop, phase, failed, unmarked, restarts>>
    BY <1>1 DEF run_source
  <2>2. pc' \in [Sources -> Walking \cup {"pull", "done"}] /\ at' \in [Sources -> Nat]
    <3>1. CASE at' = [at EXCEPT ![t] = @ + 1] /\ pc' = [pc EXCEPT ![t] = "walk"]
      BY <3>1 DEF TypeOK
    <3>2. CASE at' = at /\ pc' = [pc EXCEPT ![t] = "done"]
      BY <3>2 DEF TypeOK
    <3>. QED BY <1>1, <3>1, <3>2 DEF run_source
  <2>3. TypeOK'
    BY <2>1, <2>2 DEF TypeOK
  <2>4. ASSUME NEW u \in Sources PROVE TaskOK(u)'
    <3>1. CASE u # t
      <4>1. at'[u] = at[u] /\ pc'[u] = pc[u]
        BY <1>1, <3>1 DEF run_source, TypeOK
      <4>. QED BY <2>1, <4>1 DEF TasksOK, TaskOK
    <3>2. CASE u = t
      <4>1. at[t] \in 0..Len(Input[t]) /\ hop[t] = 1 /\ Len(Input[t]) \in Nat /\ hop[t] \in 1..Len(route)
        <5>1. Input[t] \in Seq(Records) /\ pc[t] = "pull" /\ TaskOK(t)
          BY <1>1, FlowAssumption DEF run_source, TasksOK
        <5>. QED BY <5>1 DEF TaskOK
      <4>2. CASE at[t] < Len(Input[t])
        <5>1. at'[t] = at[t] + 1 /\ pc'[t] = "walk"
          BY <1>1, <4>2 DEF run_source, TypeOK
        <5>. QED BY <2>1, <3>2, <4>1, <4>2, <5>1 DEF TaskOK
      <4>3. CASE ~(at[t] < Len(Input[t]))
        <5>1. at'[t] = at[t] /\ pc'[t] = "done"
          BY <1>1, <4>3 DEF run_source, TypeOK
        <5>. QED BY <2>1, <3>2, <4>1, <4>3, <5>1 DEF TaskOK
      <4>. QED BY <4>2, <4>3
    <3>. QED BY <3>1, <3>2
  <2>. QED BY <2>3, <2>4 DEF TasksOK
<1>2. ASSUME NEW t \in Sources, Advance(t), pc[t] \in Walking, route' = route,
             UNCHANGED <<output, buffer, phase, unmarked, restarts>>,
             delivered' \subseteq Keys, stored' \subseteq delivered', failed' \in [Sinks -> SUBSET Keys]
      PROVE  TypeOK' /\ TasksOK'
  <2>1. TypeOK'
    BY <1>2, AdvanceSpec DEF TypeOK
  <2>2. ASSUME NEW u \in Sources \ {t} PROVE TaskOK(u)'
    BY <1>2, AdvanceSpec DEF TasksOK, TaskOK
  <2>. QED BY <1>2, <2>1, <2>2, AdvanceSpec DEF TasksOK
<1>3. ASSUME NEW t \in Sources, StepFails(t) \/ SendFails(t) PROVE TypeOK' /\ TasksOK'
  <2>1. pc[t] \in Walking /\ Advance(t)
        /\ UNCHANGED <<route, delivered, stored, output, buffer, phase, unmarked, restarts>>
    BY <1>3 DEF StepFails, SendFails
  <2>2. failed' \in [Sinks -> SUBSET Keys]
    <3>1. failed' = [failed EXCEPT ![sink(t)] = @ \cup {key(t)}]
      BY <1>3 DEF StepFails, SendFails
    <3>2. key(t) \in Keys
      BY <2>1, WalkingHas
    <3>. QED BY <3>1, <3>2 DEF TypeOK
  <2>. QED BY <1>2, <2>1, <2>2 DEF TypeOK
<1>4. ASSUME NEW t \in Sources, walk(t) PROVE TypeOK' /\ TasksOK'
  <2>1. UNCHANGED <<route, delivered, stored, output, buffer, phase, failed, unmarked, restarts>> /\ pc[t] = "walk"
    BY <1>4 DEF walk
  <2>2. CASE Advance(t)
    BY <1>2, <2>1, <2>2 DEF TypeOK
  <2>3. CASE pc' = [pc EXCEPT ![t] = "send"] /\ UNCHANGED <<at, hop>>
    BY <2>1, <2>3 DEF TypeOK, TasksOK, TaskOK
  <2>. QED BY <1>4, <2>2, <2>3 DEF walk
<1>5. ASSUME NEW t \in Sources, send(t) PROVE TypeOK' /\ TasksOK'
  <2>1. UNCHANGED <<route, delivered, stored, at, hop, phase, failed, unmarked, restarts>> /\ pc[t] = "send"
        /\ pc' = [pc EXCEPT ![t] = "mark"]
    BY <1>5 DEF send
  <2>2. output' \in [Sinks -> Seq(Records)] /\ buffer' \in [Sinks -> Seq(Records)]
    <3>1. record(t) \in Records /\ sink(t) \in Sinks
      BY <2>1, WalkingHas
    <3>2. output \in [Sinks -> Seq(Records)] /\ buffer \in [Sinks -> Seq(Records)]
      BY DEF TypeOK
    <3>3. Append(output[sink(t)], record(t)) \in Seq(Records) /\ Append(buffer[sink(t)], record(t)) \in Seq(Records)
      BY <3>1, <3>2
    <3>. QED BY <1>5, <3>2, <3>3 DEF send
  <2>. QED BY <2>1, <2>2 DEF TypeOK, TasksOK, TaskOK
<1>6. ASSUME NEW t \in Sources, mark_delivered(t) \/ MarkFails(t) PROVE TypeOK' /\ TasksOK'
  <2>1. pc[t] \in Walking /\ Advance(t) /\ UNCHANGED <<route, output, buffer, phase, failed, unmarked, restarts>>
        /\ delivered' = delivered \cup {key(t)} /\ (stored' = delivered' \/ stored' = stored)
    BY <1>6 DEF mark_delivered, MarkFails
  <2>2. key(t) \in Keys
    BY <2>1, WalkingHas
  <2>. QED BY <1>2, <2>1, <2>2 DEF TypeOK
<1>7. CASE flush_all \/ FlushFails \/ Down
  <2>1. UNCHANGED <<route, delivered, stored, pc, at, hop, failed, unmarked, restarts>> /\ phase' \in {"finished", "down"}
        /\ buffer' = [s \in Sinks |-> <<>>]
    BY <1>7 DEF flush_all, FlushFails, Down, taskVars
  <2>2. ASSUME NEW s \in Sinks PROVE Flushed(s) \in Seq(Records) /\ output[s] \in Seq(Records)
    <3>1. output[s] \in Seq(Records) /\ buffer[s] \in Seq(Records)
      BY DEF TypeOK
    <3>2. output[s] \o buffer[s] \in Seq(Records)
      BY <3>1
    <3>. QED BY <3>1, <3>2 DEF Flushed
  <2>3. output' \in [Sinks -> Seq(Records)]
    <3>1. CASE flush_all
      BY <2>2, <3>1 DEF flush_all
    <3>2. CASE FlushFails
      BY <2>2, <3>2 DEF FlushFails
    <3>3. CASE Down
      BY <3>3 DEF Down, TypeOK
    <3>. QED BY <1>7, <3>1, <3>2, <3>3
  <2>4. buffer' \in [Sinks -> Seq(Records)]
    BY <2>1
  <2>. QED BY <2>1, <2>3, <2>4 DEF TypeOK, TasksOK, TaskOK
<1>8. CASE Resume
  <2>1. unmarked' \in [Keys -> Nat]
    <3>1. ASSUME NEW k \in Keys PROVE Cardinality({t \in Sources : pc[t] = "mark" /\ key(t) = k}) \in Nat
      <4>1. IsFiniteSet({t \in Sources : pc[t] = "mark" /\ key(t) = k})
        BY FlowAssumption, FS_Subset
      <4>. QED BY <4>1, FS_CardinalityType
    <3>2. ASSUME NEW k \in Keys
          PROVE  unmarked[k] + Cardinality({t \in Sources : pc[t] = "mark" /\ key(t) = k})
                   + (IF k \in delivered \ stored THEN 1 ELSE 0) \in Nat
      <4>1. unmarked[k] \in Nat
        BY DEF TypeOK
      <4>. QED BY <3>1, <4>1
    <3>. QED BY <1>8, <3>2 DEF Resume
  <2>2. TypeOK'
    BY <1>8, <2>1 DEF Resume, TypeOK
  <2>3. \A t \in Sources : Len(Input[t]) \in Nat
    BY FlowAssumption
  <2>. QED BY <1>8, <2>2, <2>3 DEF Resume, TypeOK, TasksOK, TaskOK
<1>9. CASE UNCHANGED vars
  BY <1>9 DEF vars, TypeOK, TasksOK, TaskOK
<1>. QED BY <1>1, <1>3, <1>4, <1>5, <1>6, <1>7, <1>8, <1>9 DEF Next, SourceTask

\* Buffers are emptied by the flush or by the end of the process.
LEMMA BuffersStep == TypeOK /\ TasksOK /\ BuffersOK /\ [Next]_vars => BuffersOK'
<1> SUFFICES ASSUME TypeOK, TasksOK, BuffersOK, [Next]_vars PROVE BuffersOK'
  OBVIOUS
<1>1. ASSUME NEW t \in Sources, SourceTask(t), ~send(t) PROVE UNCHANGED <<output, buffer, phase, restarts>>
  BY <1>1 DEF SourceTask, run_source, StepFails, walk, SendFails, mark_delivered, MarkFails
<1>2. ASSUME NEW t \in Sources, send(t) PROVE BuffersOK'
  <2>1. sink(t) \in Sinks /\ phase = "running" /\ phase' = "running" /\ restarts' = restarts
    BY <1>2, WalkingHas DEF send, Walking
  <2>2. CASE sink(t) \in Buffered
    <3>1. output' = output /\ \A s \in Sinks \ {sink(t)} : buffer'[s] = buffer[s]
      BY <1>2, <2>2 DEF send, TypeOK
    <3>. QED BY <2>1, <2>2, <3>1 DEF BuffersOK
  <2>3. CASE sink(t) \notin Buffered
    <3>1. buffer' = buffer /\ \A s \in Sinks \ {sink(t)} : output'[s] = output[s]
      BY <1>2, <2>3 DEF send, TypeOK
    <3>. QED BY <2>1, <2>3, <3>1, FlowAssumption DEF BuffersOK
  <2>. QED BY <2>2, <2>3
<1>3. CASE flush_all \/ FlushFails \/ Down
  <2>1. phase' # "running" /\ buffer' = [s \in Sinks |-> <<>>]
    BY <1>3 DEF flush_all, FlushFails, Down
  <2>. QED BY <2>1 DEF BuffersOK
<1>4. CASE Resume
  <2>1. restarts' # 0 /\ buffer' = buffer /\ phase # "running"
    BY <1>4 DEF Resume, TypeOK
  <2>. QED BY <2>1 DEF BuffersOK
<1>5. CASE UNCHANGED <<output, buffer, phase, restarts>>
  BY <1>5 DEF BuffersOK
<1>. QED BY <1>1, <1>2, <1>3, <1>4, <1>5 DEF Next, vars

\* A sink keeps what it has: a flush writes it, and what a flush drops it may drop.
LEMMA KeptStays ==
  ASSUME TypeOK, TasksOK, BuffersOK, [Next]_vars, NEW s \in Sinks, NEW k, Kept(k, s)
  PROVE  Kept(k, s)'
<1>0. output[s] \in Seq(Records) /\ buffer[s] \in Seq(Records) /\ restarts \in Nat
  BY DEF TypeOK
<1>1. ASSUME NEW t \in Sources, SourceTask(t), ~send(t) PROVE UNCHANGED <<output, buffer, phase, restarts>>
  BY <1>1 DEF SourceTask, run_source, StepFails, walk, SendFails, mark_delivered, MarkFails
<1>2. ASSUME NEW t \in Sources, send(t) PROVE Kept(k, s)'
  <2>1. record(t) \in Records /\ UNCHANGED <<phase, restarts>>
    BY <1>2, WalkingHas DEF send, Walking
  <2>2. output'[s] \in {output[s], Append(output[s], record(t))}
    BY <1>2 DEF send, TypeOK
  <2>3. buffer'[s] \in {buffer[s], Append(buffer[s], record(t))}
    BY <1>2 DEF send, TypeOK
  <2>4. KeysOf(output[s]) \subseteq KeysOf(output'[s]) /\ KeysOf(buffer[s]) \subseteq KeysOf(buffer'[s])
    BY <1>0, <2>1, <2>2, <2>3, KeysOfAppend
  <2>. QED BY <2>1, <2>4 DEF Kept
<1>3. CASE flush_all
  <2>1. output'[s] = Flushed(s) /\ restarts' = restarts /\ phase = "running" /\ phase' = "finished"
    BY <1>3 DEF flush_all
  <2>2. CASE restarts > 0 /\ s \in Buffered
    BY <2>1, <2>2 DEF Kept
  <2>3. CASE s \notin Buffered \/ ~(restarts > 0)
    <3>1. k \in KeysOf(output[s]) \cup KeysOf(buffer[s])
      BY <2>1, <2>3 DEF Kept
    <3>2. s \notin Buffered => buffer[s] = <<>>
      BY DEF BuffersOK
    <3>3. s \in Buffered => output[s] = <<>>
      BY <1>0, <2>1, <2>3 DEF BuffersOK
    <3>4. k \in KeysOf(Flushed(s))
      <4>1. CASE buffer[s] = <<>>
        BY <3>1, <4>1, KeysOfEmpty DEF Flushed
      <4>2. CASE buffer[s] # <<>> /\ s \in Appends
        BY <1>0, <3>1, <4>2, KeysOfConcat DEF Flushed
      <4>3. CASE buffer[s] # <<>> /\ s \notin Appends
        <5>1. KeysOf(output[s]) = {}
          BY <3>2, <3>3, <4>3, KeysOfEmpty
        <5>. QED BY <3>1, <4>3, <5>1 DEF Flushed
      <4>. QED BY <4>1, <4>2, <4>3
    <3>. QED BY <2>1, <3>4 DEF Kept
  <2>. QED BY <2>2, <2>3
<1>4. CASE FlushFails \/ Down
  <2>1. phase = "running" /\ phase' = "down"
    BY <1>4 DEF FlushFails, Down
  <2>2. CASE s \in Buffered
    BY <2>1, <2>2 DEF Kept
  <2>3. CASE s \notin Buffered
    <3>1. buffer[s] = <<>>
      BY <2>3 DEF BuffersOK
    <3>2. output'[s] = output[s]
      <4>1. CASE FlushFails
        BY <2>3, <3>1, <4>1 DEF FlushFails, Flushed
      <4>2. CASE Down
        BY <4>2 DEF Down
      <4>. QED BY <1>4, <4>1, <4>2
    <3>3. k \in KeysOf(output[s])
      BY <2>1, <2>3, <3>1, KeysOfEmpty DEF Kept
    <3>. QED BY <3>2, <3>3 DEF Kept
  <2>. QED BY <2>2, <2>3
<1>5. CASE Resume
  <2>1. UNCHANGED <<output, buffer>> /\ restarts' > 0
    BY <1>0, <1>5 DEF Resume
  <2>. QED BY <2>1 DEF Kept
<1>6. CASE UNCHANGED <<output, buffer, phase, restarts>>
  BY <1>6 DEF Kept
<1>. QED BY <1>1, <1>2, <1>3, <1>4, <1>5, <1>6 DEF Next, vars

\* What some sink has kept, or a process has dropped with its buffer, stays so.
LEMMA SomewhereStays ==
  ASSUME TypeOK, TasksOK, BuffersOK, [Next]_vars
  PROVE  /\ route' = route
         /\ \A k : KeptSomewhere(k) => KeptSomewhere(k)'
         /\ ~Resume => \A k : FailedSomewhere(k) => FailedSomewhere(k)'
<1>1. route' = route
  BY DEF Next, SourceTask, run_source, StepFails, walk, send, SendFails, mark_delivered, MarkFails, flush_all,
     FlushFails, Down, Resume, vars
<1>2. \A h \in 1..Len(route) : route[h] \in Sinks
  BY DEF TypeOK
<1>3. ASSUME NEW k, KeptSomewhere(k) PROVE KeptSomewhere(k)'
  <2>1. PICK h \in 1..Len(route) : Kept(k, route[h])
    BY <1>3 DEF KeptSomewhere
  <2>2. \A s \in Sinks : Kept(k, s) => Kept(k, s)'
    BY KeptStays
  <2>3. route[h] \in Sinks /\ route'[h] = route[h]
    BY <1>1, <1>2
  <2>. QED BY <1>1, <2>1, <2>2, <2>3 DEF KeptSomewhere, Kept
<1>4. ASSUME ~Resume, NEW s \in Sinks PROVE failed[s] \subseteq failed'[s]
  <2>1. ASSUME NEW t \in Sources, StepFails(t) \/ SendFails(t) PROVE failed[s] \subseteq failed'[s]
    BY <2>1 DEF StepFails, SendFails, TypeOK
  <2>2. ASSUME NEW t \in Sources, SourceTask(t), ~(StepFails(t) \/ SendFails(t)) PROVE failed' = failed
    BY <2>2 DEF SourceTask, run_source, walk, send, mark_delivered, MarkFails
  <2>3. CASE flush_all \/ FlushFails \/ Down \/ UNCHANGED vars
    BY <2>3 DEF flush_all, FlushFails, Down, vars
  <2>. QED BY <1>4, <2>1, <2>2, <2>3 DEF Next
<1>5. ASSUME ~Resume, NEW k, FailedSomewhere(k) PROVE FailedSomewhere(k)'
  BY <1>1, <1>2, <1>4, <1>5 DEF FailedSomewhere
<1>. QED BY <1>1, <1>3, <1>5

\* Only what was sent is marked.
LEMMA MarksStep ==
  TypeOK /\ TasksOK /\ BuffersOK /\ MarksAreTrue /\ [Next]_vars => MarksAreTrue'
<1> SUFFICES ASSUME TypeOK, TasksOK, BuffersOK, MarksAreTrue, [Next]_vars PROVE MarksAreTrue'
  OBVIOUS
<1>0. route' = route /\ (\A k : KeptSomewhere(k) => KeptSomewhere(k)') /\ \A k \in delivered : KeptSomewhere(k)
  BY SomewhereStays DEF MarksAreTrue
<1>1. \A k \in delivered' : KeptSomewhere(k)'
  <2>1. ASSUME NEW t \in Sources, mark_delivered(t) \/ MarkFails(t) PROVE KeptSomewhere(key(t))
    <3>1. Kept(key(t), sink(t)) /\ hop[t] \in 1..Len(route)
      BY <2>1 DEF mark_delivered, MarkFails, MarksAreTrue, TasksOK, TaskOK
    <3>. QED BY <3>1 DEF KeptSomewhere, sink
  <2>2. ASSUME NEW t \in Sources, mark_delivered(t) \/ MarkFails(t) PROVE delivered' = delivered \cup {key(t)}
    BY <2>2 DEF mark_delivered, MarkFails
  <2>3. ASSUME NEW t \in Sources, SourceTask(t), ~(mark_delivered(t) \/ MarkFails(t)) PROVE delivered' = delivered
    BY <2>3 DEF SourceTask, run_source, StepFails, walk, send, SendFails
  <2>4. flush_all \/ FlushFails \/ Down \/ Resume \/ UNCHANGED vars => delivered' \subseteq delivered
    BY DEF flush_all, FlushFails, Down, Resume, vars, TypeOK
  <2>. QED BY <1>0, <2>1, <2>2, <2>3, <2>4 DEF Next
<1>2. ASSUME phase' = "running", NEW u \in Sources, pc'[u] = "mark" PROVE Kept(key(u), sink(u))'
  <2>1. \A k : \A s \in Sinks : Kept(k, s) => Kept(k, s)'
    BY KeptStays
  <2>2. CASE phase = "running" /\ pc[u] = "mark" /\ at'[u] = at[u] /\ hop'[u] = hop[u]
    <3>1. Kept(key(u), sink(u)) /\ sink(u) \in Sinks
      BY <2>2, WalkingHas DEF MarksAreTrue, Walking
    <3>2. key(u)' = key(u) /\ sink(u)' = sink(u)
      BY <1>0, <2>2 DEF key, record, sink
    <3>. QED BY <2>1, <3>1, <3>2 DEF Kept
  <2>3. ASSUME send(u) PROVE Kept(key(u), sink(u))'
    <3>1. key(u)' = key(u) /\ sink(u)' = sink(u)
      BY <2>3 DEF send, key, record, sink
    <3>2. record(u) \in Records /\ sink(u) \in Sinks /\ key(u) = delivered_key[record(u)]
      BY <2>3, WalkingHas DEF send, Walking, key
    <3>3. output[sink(u)] \in Seq(Records) /\ buffer[sink(u)] \in Seq(Records)
      BY <3>2 DEF TypeOK
    <3>4. \/ buffer'[sink(u)] = Append(buffer[sink(u)], record(u))
          \/ output'[sink(u)] = Append(output[sink(u)], record(u))
      BY <2>3, <3>2 DEF send, TypeOK
    <3>5. key(u) \in KeysOf(output'[sink(u)]) \cup KeysOf(buffer'[sink(u)])
      BY <3>2, <3>3, <3>4, KeysOfAppend
    <3>. QED BY <3>1, <3>5 DEF Kept
  <2>4. ASSUME NEW t \in Sources, SourceTask(t), ~send(u)
        PROVE  phase = "running" /\ pc[u] = "mark" /\ at'[u] = at[u] /\ hop'[u] = hop[u]
    <3>1. phase = "running"
      BY <2>4 DEF SourceTask, run_source, StepFails, walk, send, SendFails, mark_delivered, MarkFails
    <3>2. CASE u # t
      BY <1>2, <2>4, <3>2 DEF SourceTask, run_source, StepFails, walk, send, SendFails, mark_delivered, MarkFails,
         Advance, TypeOK
    <3>3. CASE u = t
      BY <1>2, <2>4, <3>3 DEF SourceTask, run_source, StepFails, walk, SendFails, mark_delivered, MarkFails,
         Advance, TypeOK
    <3>. QED BY <3>1, <3>2, <3>3
  <2>5. ~(flush_all \/ FlushFails \/ Down \/ Resume)
    BY <1>2 DEF flush_all, FlushFails, Down, Resume
  <2>6. CASE UNCHANGED vars
    BY <1>2, <2>2, <2>6 DEF vars
  <2>. QED BY <2>2, <2>3, <2>4, <2>5, <2>6 DEF Next
<1>3. MarksAreTrue' <=> /\ phase' = "running" => \A t \in Sources : pc'[t] = "mark" => Kept(key(t), sink(t))'
                        /\ \A k \in delivered' : KeptSomewhere(k)'
  BY DEF MarksAreTrue
<1>. QED BY <1>1, <1>2, <1>3

\* A task leaves no record behind that no sink has kept and none has refused.
LEMMA ThroughStep ==
  TypeOK /\ TasksOK /\ BuffersOK /\ MarksAreTrue /\ ThroughIsSettled /\ [Next]_vars => ThroughIsSettled'
<1> SUFFICES ASSUME TypeOK, TasksOK, BuffersOK, MarksAreTrue, ThroughIsSettled, [Next]_vars PROVE ThroughIsSettled'
  OBVIOUS
<1> DEFINE Settled(k) == KeptSomewhere(k) \/ FailedSomewhere(k)
           KeyAt(t, i) == delivered_key[Input[t][i]]
<1>0. /\ route' = route /\ (\A k : KeptSomewhere(k) => KeptSomewhere(k)')
      /\ ~Resume => \A k : Settled(k) => Settled(k)'
  BY SomewhereStays
\* Records the task was through with before.
<1>1. ASSUME ~Resume, NEW t \in Sources, NEW i \in 1..at[t], Through(t, i) PROVE Settled(KeyAt(t, i))'
  <2>1. Settled(KeyAt(t, i))
    BY <1>1 DEF ThroughIsSettled
  <2>. QED BY <1>0, <1>1, <2>1
\* The record a task goes on from.
<1>2. ASSUME NEW t \in Sources, StepFails(t) \/ SendFails(t), NEW k, k = key(t) PROVE FailedSomewhere(k)'
  <2>1. hop[t] \in 1..Len(route) /\ sink(t) \in Sinks
    BY <1>2, WalkingHas DEF StepFails, SendFails, Walking, TasksOK, TaskOK
  <2>2. k \in failed'[sink(t)]
    BY <1>2, <2>1 DEF StepFails, SendFails, TypeOK
  <2>. QED BY <1>0, <2>1, <2>2 DEF FailedSomewhere, sink
<1>3. ASSUME NEW t \in Sources, walk(t), is_delivered(t), NEW k, k = key(t) PROVE KeptSomewhere(k)'
  BY <1>0, <1>3 DEF is_delivered, MarksAreTrue
<1>4. ASSUME NEW t \in Sources, mark_delivered(t) \/ MarkFails(t), NEW k, k = key(t) PROVE KeptSomewhere(k)'
  <2>1. Kept(key(t), sink(t)) /\ hop[t] \in 1..Len(route)
    BY <1>4 DEF mark_delivered, MarkFails, MarksAreTrue, TasksOK, TaskOK
  <2>2. KeptSomewhere(k)
    BY <1>4, <2>1 DEF KeptSomewhere, sink
  <2>. QED BY <1>0, <2>2
<1>5. ASSUME NEW t \in Sources, SourceTask(t), Advance(t), pc[t] \in Walking, NEW k, k = key(t) PROVE Settled(k)'
  <2>1. pc'[t] \notin {"send", "mark"}
    BY <1>5 DEF Advance, TypeOK
  <2>2. walk(t) => is_delivered(t)
    BY <2>1 DEF walk, TypeOK
  <2>3. ~send(t) /\ ~run_source(t)
    BY <1>5, <2>1 DEF send, run_source, TypeOK, Walking
  <2>. QED BY <1>2, <1>3, <1>4, <1>5, <2>2, <2>3 DEF SourceTask
<1> SUFFICES ASSUME NEW u \in Sources, NEW i \in 1..at'[u], Through(u, i)' PROVE Settled(KeyAt(u, i))'
  BY DEF ThroughIsSettled
<1>6. ASSUME ~Resume, at'[u] = at[u], Through(u, i) PROVE Settled(KeyAt(u, i))'
  BY <1>1, <1>6
<1>7. CASE Resume
  BY <1>7 DEF Resume
<1>8. CASE flush_all \/ FlushFails \/ Down \/ UNCHANGED vars
  <2>1. UNCHANGED <<pc, at, hop>> /\ ~Resume
    BY <1>8 DEF flush_all, FlushFails, Down, Resume, vars, taskVars, TypeOK
  <2>. QED BY <1>6, <2>1 DEF Through
<1>9. ASSUME NEW t \in Sources, SourceTask(t) PROVE Settled(KeyAt(u, i))'
  <2>0. ~Resume
    BY <1>9 DEF SourceTask, run_source, StepFails, walk, send, SendFails, mark_delivered, MarkFails, Resume
  <2>1. CASE u # t
    <3>1. pc'[u] = pc[u] /\ at'[u] = at[u] /\ hop'[u] = hop[u]
      BY <1>9, <2>1 DEF SourceTask, run_source, StepFails, walk, send, SendFails, mark_delivered, MarkFails,
         Advance, TypeOK
    <3>. QED BY <1>6, <2>0, <3>1 DEF Through
  <2>2. CASE u = t /\ run_source(t)
    <3>1. at[t] \in Nat /\ at'[t] \in {at[t], at[t] + 1} /\ hop' = hop /\ pc[t] = "pull"
      BY <2>2 DEF run_source, TypeOK
    <3>2. hop[t] = 1
      BY <3>1 DEF TasksOK, TaskOK, Walking
    <3>3. at'[t] = at[t] + 1 => pc'[t] \in Walking
      BY <2>2, <3>1 DEF run_source, TypeOK, Walking
    <3>4. i \in 1..at[t] /\ Through(t, i)
      BY <2>2, <3>1, <3>2, <3>3 DEF Through, Walking
    <3>. QED BY <1>1, <2>0, <2>2, <3>4
  <2>3. CASE u = t /\ (send(t) \/ (walk(t) /\ ~is_delivered(t)))
    <3>1. UNCHANGED <<at, hop>> /\ pc[t] \in Walking /\ pc'[t] \in Walking
      BY <2>3 DEF send, walk, TypeOK, Walking
    <3>. QED BY <1>6, <2>0, <2>3, <3>1 DEF Through
  <2>4. CASE u = t /\ Advance(t) /\ pc[t] \in Walking
    <3>1. at' = at /\ at[t] \in Nat
      BY <2>4 DEF Advance, TypeOK
    <3>2. CASE i < at[t]
      BY <1>6, <2>0, <2>4, <3>1, <3>2 DEF Through
    <3>3. CASE i = at[t]
      <4>1. KeyAt(u, i) = key(t)
        BY <2>4, <3>3 DEF key, record
      <4>. QED BY <1>5, <1>9, <2>4, <4>1
    <3>. QED BY <2>4, <3>1, <3>2, <3>3
  <2>5. run_source(t) \/ send(t) \/ (walk(t) /\ ~is_delivered(t)) \/ (Advance(t) /\ pc[t] \in Walking)
    BY <1>9 DEF SourceTask, StepFails, walk, SendFails, mark_delivered, MarkFails, Walking
  <2>. QED BY <2>1, <2>2, <2>3, <2>4, <2>5
<1>. QED BY <1>7, <1>8, <1>9 DEF Next

\* A run finishes only after all its tasks.
LEMMA FinishedStep == TypeOK /\ FinishedIsDone /\ [Next]_vars => FinishedIsDone'
<1> SUFFICES ASSUME TypeOK, FinishedIsDone, [Next]_vars PROVE FinishedIsDone'
  OBVIOUS
<1>1. ASSUME NEW t \in Sources, SourceTask(t) PROVE phase' = "running"
  BY <1>1 DEF SourceTask, run_source, StepFails, walk, send, SendFails, mark_delivered, MarkFails
<1>2. CASE flush_all
  BY <1>2 DEF flush_all, taskVars, FinishedIsDone
<1>3. CASE FlushFails \/ Down \/ Resume
  BY <1>3 DEF FlushFails, Down, Resume, FinishedIsDone
<1>4. CASE UNCHANGED vars
  BY <1>4 DEF vars, FinishedIsDone
<1>. QED BY <1>1, <1>2, <1>3, <1>4 DEF Next, FinishedIsDone

\* Init establishes the inductive invariant.
LEMMA InitHolds == Init => IInv
<1> SUFFICES ASSUME Init PROVE IInv
  OBVIOUS
<1>1. route \in Seq(Sinks) /\ Len(route) > 0
  BY FlowAssumption DEF Init
<1>2. TypeOK
  BY <1>1 DEF Init, TypeOK, Walking
<1>3. \A t \in Sources : Len(Input[t]) \in Nat
  BY FlowAssumption
<1>4. TasksOK
  BY <1>1, <1>3 DEF Init, TasksOK, TaskOK, Walking
<1>5. BuffersOK /\ MarksAreTrue /\ ThroughIsSettled /\ FinishedIsDone
  BY FlowAssumption DEF Init, BuffersOK, MarksAreTrue, ThroughIsSettled, FinishedIsDone
<1>. QED BY <1>2, <1>4, <1>5 DEF IInv

-----------------------------------------------------------------------------
(* Nothing is lost. *)

\* The inductive invariant holds in every state.
THEOREM Invariance == Spec => []IInv
<1>1. IInv /\ [Next]_vars => IInv'
  BY TypeStep, BuffersStep, MarksStep, ThroughStep, FinishedStep DEF IInv
<1>. QED BY <1>1, InitHolds, PTL DEF Spec

\* However often the process died before, once a run finishes, every record of every
\* source is written by some sink of its route or counted as an error there; a sink
\* that buffers is held to that in the first run only.
THEOREM NothingIsLost == Spec => []NothingLost
<1>1. IInv => NothingLost
  <2> SUFFICES ASSUME IInv, phase = "finished", NEW t \in Sources, NEW i \in 1..Len(Input[t])
               PROVE  \E h \in 1..Len(route) :
                        AccountedFor(Input[t][i], route[h]) \/ (route[h] \in Buffered /\ restarts > 0)
    BY DEF NothingLost
  <2> DEFINE k == delivered_key[Input[t][i]]
  <2>1. pc[t] = "done" /\ at[t] = Len(Input[t]) /\ at[t] \in Nat
    BY DEF IInv, FinishedIsDone, TasksOK, TaskOK, TypeOK
  <2>2. Through(t, i) /\ i \in 1..at[t]
    BY <2>1 DEF Through, Walking
  <2>3. KeptSomewhere(k) \/ FailedSomewhere(k)
    BY <2>2 DEF IInv, ThroughIsSettled
  <2>4. ASSUME NEW h \in 1..Len(route), Kept(k, route[h])
        PROVE  AccountedFor(Input[t][i], route[h]) \/ (route[h] \in Buffered /\ restarts > 0)
    <3>1. buffer[route[h]] = <<>>
      BY DEF IInv, TypeOK, BuffersOK
    <3>. QED BY <2>4, <3>1, KeysOfEmpty DEF Kept, AccountedFor, WrittenKeys, KeysOf
  <2>5. ASSUME NEW h \in 1..Len(route), k \in failed[route[h]] PROVE AccountedFor(Input[t][i], route[h])
    BY <2>5 DEF AccountedFor
  <2>. QED BY <2>3, <2>4, <2>5 DEF KeptSomewhere, FailedSomewhere
<1>. QED BY <1>1, Invariance, PTL

-----------------------------------------------------------------------------
(* Duplicates, for sources that share no key.  (Two tasks with records of one key   *)
(* may both find it unmarked and both send it.)                                     *)

SourcesApart ==
  \A t, u \in Sources : \A i \in 1..Len(Input[t]), j \in 1..Len(Input[u]) :
    delivered_key[Input[t][i]] = delivered_key[Input[u][j]] => t = u

\* What a task is about to send is not marked.
SendsAreFresh == phase = "running" => \A t \in Sources : pc[t] = "send" => key(t) \notin delivered

\* A send of the key that this process has marked, or is about to.
Sent(k) == k \in delivered \/ \E t \in Sources : pc[t] = "mark" /\ key(t) = k

\* A sink has a key once for this process, and once for every lost mark of earlier ones.
CopiesBounded ==
  \A s \in Sinks, k \in Keys : Copies(s, k) + Held(s, k) <= unmarked[k] + (IF Sent(k) THEN 1 ELSE 0)

DInv == IInv /\ SendsAreFresh /\ CopiesBounded

\* Where a key is in a sequence of records, and how often.
PlacesOf(q, k) == {i \in 1..Len(q) : delivered_key[q[i]] = k}
CountOf(q, k) == Cardinality(PlacesOf(q, k))

\* How often a key is in a sequence is a number.
LEMMA CountType ==
  ASSUME NEW q \in Seq(Records), NEW k
  PROVE  IsFiniteSet(PlacesOf(q, k)) /\ CountOf(q, k) \in Nat
<1>1. IsFiniteSet(1..Len(q)) /\ PlacesOf(q, k) \in SUBSET (1..Len(q))
  <2>1. Len(q) \in Int /\ 1 \in Int
    OBVIOUS
  <2>. QED BY <2>1, FS_Interval DEF PlacesOf
<1>2. IsFiniteSet(PlacesOf(q, k))
  BY <1>1, FS_Subset
<1>. QED BY <1>2, FS_CardinalityType DEF CountOf

\* An empty sequence has no key.
LEMMA CountEmpty == \A k : CountOf(<<>>, k) = 0
<1>1. \A k : PlacesOf(<<>>, k) = {}
  BY DEF PlacesOf
<1>. QED BY <1>1, FS_EmptySet DEF CountOf

\* A record adds one to its key and nothing to the others.
LEMMA CountAppend ==
  ASSUME NEW q \in Seq(Records), NEW r \in Records, NEW k
  PROVE  CountOf(Append(q, r), k) = CountOf(q, k) + (IF delivered_key[r] = k THEN 1 ELSE 0)
<1> DEFINE n == Len(q) + 1
<1>1. /\ Len(q) \in Nat /\ Len(Append(q, r)) = n /\ Append(q, r)[n] = r
      /\ \A i \in 1..Len(q) : Append(q, r)[i] = q[i]
  OBVIOUS
<1>2. CASE delivered_key[r] = k
  <2>1. PlacesOf(Append(q, r), k) = PlacesOf(q, k) \cup {n} /\ n \notin PlacesOf(q, k)
    <3>1. PICK l \in Nat : l = Len(q) /\ n = l + 1
      BY <1>1
    <3>2. 1..(l + 1) = (1..l) \cup {l + 1} /\ l + 1 \notin 1..l
      BY <3>1
    <3>. QED BY <1>1, <1>2, <3>1, <3>2 DEF PlacesOf
  <2>2. Cardinality(PlacesOf(q, k) \cup {n}) = Cardinality(PlacesOf(q, k)) + 1
    BY <2>1, CountType, FS_AddElement
  <2>. QED BY <1>2, <2>1, <2>2 DEF CountOf
<1>3. CASE delivered_key[r] # k
  <2>1. PlacesOf(Append(q, r), k) = PlacesOf(q, k)
    BY <1>1, <1>3 DEF PlacesOf
  <2>. QED BY <1>3, <2>1, CountType DEF CountOf
<1>. QED BY <1>2, <1>3

\* A flush adds up the output and the buffer.
LEMMA CountConcat ==
  ASSUME NEW q \in Seq(Records), NEW r \in Seq(Records), NEW k
  PROVE  CountOf(q \o r, k) <= CountOf(q, k) + CountOf(r, k)
<1> DEFINE S == PlacesOf(q, k)
           T == PlacesOf(r, k)
           U == {i \in PlacesOf(q \o r, k) : i > Len(q)}
           f == [i \in T |-> Len(q) + i]
<1>1. /\ Len(q) \in Nat /\ Len(r) \in Nat /\ Len(q \o r) = Len(q) + Len(r)
      /\ \A i \in 1..Len(q \o r) : (q \o r)[i] = IF i <= Len(q) THEN q[i] ELSE r[i - Len(q)]
  OBVIOUS
<1>2. PlacesOf(q \o r, k) = S \cup U
  BY <1>1 DEF PlacesOf
<1>3. f \in Surjection(T, U)
  <2>1. ASSUME NEW i \in T PROVE f[i] \in U
    <3>1. i \in 1..Len(r) /\ delivered_key[r[i]] = k
      BY DEF PlacesOf
    <3>2. (Len(q) + i) \in 1..Len(q \o r) /\ Len(q) + i > Len(q) /\ (Len(q) + i) - Len(q) = i
      BY <1>1, <3>1
    <3>3. (q \o r)[Len(q) + i] = r[i]
      BY <1>1, <3>1, <3>2
    <3>. QED BY <3>1, <3>2, <3>3 DEF PlacesOf
  <2>2. ASSUME NEW j \in U PROVE \E i \in T : f[i] = j
    <3>1. j \in 1..Len(q \o r) /\ j > Len(q) /\ delivered_key[(q \o r)[j]] = k
      BY DEF PlacesOf
    <3>2. (j - Len(q)) \in 1..Len(r) /\ (q \o r)[j] = r[j - Len(q)] /\ Len(q) + (j - Len(q)) = j
      BY <1>1, <3>1
    <3>3. (j - Len(q)) \in T
      BY <3>1, <3>2 DEF PlacesOf
    <3>. QED BY <3>2, <3>3
  <2>. QED BY <2>1, <2>2 DEF Surjection
<1>4. IsFiniteSet(S) /\ IsFiniteSet(T) /\ Cardinality(S) \in Nat /\ Cardinality(T) \in Nat
  BY CountType DEF CountOf
<1> HIDE DEF S, T, U, f
<1>5. IsFiniteSet(U) /\ Cardinality(U) <= Cardinality(T)
  BY <1>3, <1>4, FS_Surjection
<1>6. Cardinality(S \cup U) = Cardinality(S) + Cardinality(U) - Cardinality(S \cap U)
  BY <1>4, <1>5, FS_Union
<1>7. Cardinality(U) \in Nat /\ Cardinality(S \cap U) \in Nat
  <2>1. IsFiniteSet(S \cap U)
    BY <1>4, FS_Subset
  <2>. QED BY <1>5, <2>1, FS_CardinalityType
<1>8. Cardinality(S \cup U) <= Cardinality(S) + Cardinality(T)
  BY <1>4, <1>5, <1>6, <1>7
<1>. QED BY <1>2, <1>8 DEF CountOf, S, T

\* Copies and Held are such counts, before and after a step.
LEMMA CopiesAreCounts ==
  ASSUME NEW s, NEW k
  PROVE  /\ Copies(s, k) = CountOf(output[s], k) /\ Held(s, k) = CountOf(buffer[s], k)
         /\ Copies(s, k)' = CountOf(output'[s], k) /\ Held(s, k)' = CountOf(buffer'[s], k)
BY DEF Copies, Held, CountOf, PlacesOf

\* Only a send gives a sink more of a key, and only of the record's own.
LEMMA CountsStep ==
  ASSUME TypeOK, TasksOK, BuffersOK, [Next]_vars, NEW s \in Sinks, NEW k \in Keys
  PROVE  /\ Copies(s, k) \in Nat /\ Held(s, k) \in Nat /\ Copies(s, k)' \in Nat /\ Held(s, k)' \in Nat
         /\ \/ Copies(s, k)' + Held(s, k)' <= Copies(s, k) + Held(s, k)
            \/ /\ Copies(s, k)' + Held(s, k)' = Copies(s, k) + Held(s, k) + 1
               /\ \E t \in Sources : send(t) /\ key(t) = k
<1> DEFINE out == output[s]
           buf == buffer[s]
<1>1. out \in Seq(Records) /\ buf \in Seq(Records) /\ output'[s] \in Seq(Records) /\ buffer'[s] \in Seq(Records)
  BY TypeStep DEF TypeOK
<1>2. /\ CountOf(out, k) \in Nat /\ CountOf(buf, k) \in Nat
      /\ CountOf(output'[s], k) \in Nat /\ CountOf(buffer'[s], k) \in Nat
  BY <1>1, CountType
<1> HIDE DEF out, buf
<1> SUFFICES \/ CountOf(output'[s], k) + CountOf(buffer'[s], k) <= CountOf(out, k) + CountOf(buf, k)
             \/ /\ CountOf(output'[s], k) + CountOf(buffer'[s], k) = CountOf(out, k) + CountOf(buf, k) + 1
                /\ \E t \in Sources : send(t) /\ key(t) = k
  BY <1>2, CopiesAreCounts DEF out, buf
<1>3. ASSUME NEW t \in Sources, send(t)
      PROVE  \/ CountOf(output'[s], k) + CountOf(buffer'[s], k) <= CountOf(out, k) + CountOf(buf, k)
             \/ /\ CountOf(output'[s], k) + CountOf(buffer'[s], k) = CountOf(out, k) + CountOf(buf, k) + 1
                /\ key(t) = k
  <2>1. record(t) \in Records /\ sink(t) \in Sinks
    BY <1>3, WalkingHas DEF send, Walking
  <2>2. \/ output'[s] = out /\ buffer'[s] = buf
        \/ output'[s] = Append(out, record(t)) /\ buffer'[s] = buf
        \/ output'[s] = out /\ buffer'[s] = Append(buf, record(t))
    BY <1>3, <2>1 DEF send, TypeOK, out, buf
  <2>3. /\ CountOf(Append(out, record(t)), k) = CountOf(out, k) + (IF key(t) = k THEN 1 ELSE 0)
        /\ CountOf(Append(buf, record(t)), k) = CountOf(buf, k) + (IF key(t) = k THEN 1 ELSE 0)
    BY <1>1, <2>1, CountAppend DEF key
  <2> DEFINE a == CountOf(out, k)
             b == CountOf(buf, k)
             more == IF key(t) = k THEN 1 ELSE 0
  <2>4. \/ CountOf(output'[s], k) = a /\ CountOf(buffer'[s], k) = b
        \/ CountOf(output'[s], k) = a + more /\ CountOf(buffer'[s], k) = b
        \/ CountOf(output'[s], k) = a /\ CountOf(buffer'[s], k) = b + more
    BY <2>2, <2>3, Zenon
  <2>5. a \in Nat /\ b \in Nat
    BY <1>2
  <2> HIDE DEF a, b
  <2>6. \/ CountOf(output'[s], k) + CountOf(buffer'[s], k) <= a + b
        \/ CountOf(output'[s], k) + CountOf(buffer'[s], k) = a + b + 1 /\ key(t) = k
    BY <2>4, <2>5
  <2>. QED BY <2>6 DEF a, b
<1>4. CASE flush_all \/ FlushFails \/ Down
  <2>1. CountOf(buffer'[s], k) = 0
    BY <1>4, CountEmpty DEF flush_all, FlushFails, Down
  <2>2. output'[s] \in {<<>>, out, out \o buf, buf}
    <3>1. Flushed(s) \in {out, out \o buf, buf}
      BY DEF Flushed, out, buf
    <3>2. CASE flush_all
      BY <3>1, <3>2 DEF flush_all
    <3>3. CASE FlushFails
      BY <3>1, <3>3 DEF FlushFails, out
    <3>4. CASE Down
      BY <3>4 DEF Down, out
    <3>. QED BY <1>4, <3>2, <3>3, <3>4
  <2>3. CountOf(out \o buf, k) <= CountOf(out, k) + CountOf(buf, k) /\ CountOf(<<>>, k) = 0
    BY <1>1, CountConcat, CountEmpty
  <2> DEFINE a == CountOf(out, k)
             b == CountOf(buf, k)
             c == CountOf(output'[s], k)
  <2>4. c = 0 \/ c = a \/ c = b \/ c = CountOf(out \o buf, k)
    BY <2>2, <2>3, Zenon
  <2>5. a \in Nat /\ b \in Nat /\ c \in Nat /\ CountOf(out \o buf, k) <= a + b
    BY <1>2, <2>3
  <2> HIDE DEF a, b, c
  <2>6. c + 0 <= a + b
    BY <2>4, <2>5
  <2>. QED BY <2>1, <2>6, Zenon DEF a, b, c
<1>5. ASSUME NEW t \in Sources, SourceTask(t), ~send(t) PROVE UNCHANGED <<output, buffer>>
  BY <1>5 DEF SourceTask, run_source, StepFails, walk, SendFails, mark_delivered, MarkFails
<1>6. CASE UNCHANGED <<output, buffer>>
  BY <1>2, <1>6 DEF out, buf
<1>. QED BY <1>3, <1>4, <1>5, <1>6 DEF Next, Resume, vars

\* Tasks of different sources never have records of one key.
LEMMA KeysApart ==
  ASSUME SourcesApart, TypeOK, TasksOK, NEW t \in Sources, NEW u \in Sources,
         pc[t] \in Walking, pc[u] \in Walking, key(t) = key(u)
  PROVE  t = u
<1>1. at[t] \in 1..Len(Input[t]) /\ at[u] \in 1..Len(Input[u])
  BY DEF TypeOK, TasksOK, TaskOK
<1>. QED BY <1>1 DEF SourcesApart, key, record

\* What a step of one task does to another.
LEMMA OtherTasks ==
  ASSUME TypeOK, NEW t \in Sources, SourceTask(t), NEW u \in Sources, u # t
  PROVE  pc'[u] = pc[u] /\ at'[u] = at[u] /\ key(u)' = key(u)
<1>1. pc'[u] = pc[u] /\ at'[u] = at[u]
  BY DEF SourceTask, run_source, StepFails, walk, send, SendFails, mark_delivered, MarkFails, Advance, TypeOK
<1>. QED BY <1>1 DEF key, record

\* A key that a task is about to send is not marked by another task meanwhile.
LEMMA FreshStep ==
  ASSUME SourcesApart, TypeOK, TasksOK, SendsAreFresh, [Next]_vars
  PROVE  SendsAreFresh'
<1> SUFFICES ASSUME phase' = "running", NEW u \in Sources, pc'[u] = "send"
             PROVE  key(u)' \notin delivered'
  BY DEF SendsAreFresh
<1>1. ASSUME NEW t \in Sources, SourceTask(t) PROVE key(u)' \notin delivered'
  <2>0. phase = "running"
    BY <1>1 DEF SourceTask, run_source, StepFails, walk, send, SendFails, mark_delivered, MarkFails
  <2>1. CASE t = u
    <3>1. walk(u) /\ ~is_delivered(u)
      BY <1>1, <2>1 DEF SourceTask, run_source, StepFails, walk, send, SendFails, mark_delivered, MarkFails, Advance, TypeOK
    <3>. QED BY <3>1 DEF walk, is_delivered, key, record
  <2>2. CASE t # u
    <3>1. pc[u] = "send" /\ key(u)' = key(u)
      BY <1>1, <2>2, OtherTasks
    <3>2. key(u) \notin delivered
      BY <2>0, <3>1 DEF SendsAreFresh
    <3>3. CASE mark_delivered(t) \/ MarkFails(t)
      <4>1. delivered' = delivered \cup {key(t)} /\ pc[t] = "mark"
        BY <3>3 DEF mark_delivered, MarkFails
      <4>2. key(t) # key(u)
        BY <2>2, <3>1, <4>1, KeysApart DEF Walking
      <4>. QED BY <3>1, <3>2, <4>1, <4>2
    <3>4. CASE ~(mark_delivered(t) \/ MarkFails(t))
      <4>1. delivered' = delivered
        BY <1>1, <3>4 DEF SourceTask, run_source, StepFails, walk, send, SendFails
      <4>. QED BY <3>1, <3>2, <4>1
    <3>. QED BY <3>3, <3>4
  <2>. QED BY <2>1, <2>2
<1>2. CASE flush_all \/ FlushFails \/ Down \/ Resume
  BY <1>2 DEF flush_all, FlushFails, Down, Resume
<1>3. CASE UNCHANGED vars
  BY <1>3 DEF vars, SendsAreFresh, key, record
<1>. QED BY <1>1, <1>2, <1>3 DEF Next

\* A sink gets a key again only after a mark of it was lost.
LEMMA CopiesBoundedStep ==
  ASSUME SourcesApart, TypeOK, TasksOK, BuffersOK, SendsAreFresh, CopiesBounded, [Next]_vars
  PROVE  CopiesBounded'
<1> SUFFICES ASSUME NEW s \in Sinks, NEW k \in Keys
             PROVE  Copies(s, k)' + Held(s, k)' <= unmarked'[k] + (IF Sent(k)' THEN 1 ELSE 0)
  BY DEF CopiesBounded
<1> DEFINE old == Copies(s, k) + Held(s, k)
           now == Copies(s, k)' + Held(s, k)'
<1>1. old \in Nat /\ now \in Nat /\ (now <= old \/ (now = old + 1 /\ \E t \in Sources : send(t) /\ key(t) = k))
  BY CountsStep
<1>2. old <= unmarked[k] + (IF Sent(k) THEN 1 ELSE 0) /\ unmarked[k] \in Nat
  BY DEF CopiesBounded, TypeOK
<1> HIDE DEF old, now
<1> SUFFICES now <= unmarked'[k] + (IF Sent(k)' THEN 1 ELSE 0)
  BY DEF now
<1>3. ASSUME NEW t \in Sources, SourceTask(t)
      PROVE  unmarked' = unmarked /\ (Sent(k) => Sent(k)')
  <2>1. unmarked' = unmarked
    BY <1>3 DEF SourceTask, run_source, StepFails, walk, send, SendFails, mark_delivered, MarkFails
  <2>2. delivered \subseteq delivered'
    BY <1>3 DEF SourceTask, run_source, StepFails, walk, send, SendFails, mark_delivered, MarkFails
  <2>3. ASSUME NEW u \in Sources, pc[u] = "mark", key(u) = k PROVE Sent(k)'
    <3>1. CASE u # t
      BY <1>3, <2>3, <3>1, OtherTasks DEF Sent
    <3>2. CASE u = t
      <4>1. mark_delivered(t) \/ MarkFails(t)
        BY <1>3, <2>3, <3>2 DEF SourceTask, run_source, StepFails, walk, send, SendFails
      <4>2. k \in delivered'
        BY <2>3, <3>2, <4>1 DEF mark_delivered, MarkFails
      <4>. QED BY <4>2 DEF Sent
    <3>. QED BY <3>1, <3>2
  <2>. QED BY <2>1, <2>2, <2>3 DEF Sent
<1>4. ASSUME NEW t \in Sources, send(t), key(t) = k PROVE ~Sent(k) /\ Sent(k)'
  <2>1. pc[t] = "send" /\ k \notin delivered /\ pc'[t] = "mark" /\ key(t)' = k
    BY <1>4 DEF send, SendsAreFresh, TypeOK, key, record
  <2>2. ASSUME NEW u \in Sources, pc[u] = "mark", key(u) = k PROVE FALSE
    BY <1>4, <2>1, <2>2, KeysApart DEF Walking
  <2>. QED BY <2>1, <2>2 DEF Sent
<1>5. ASSUME NEW t \in Sources, SourceTask(t) PROVE now <= unmarked'[k] + (IF Sent(k)' THEN 1 ELSE 0)
  <2>1. CASE now <= old
    BY <1>1, <1>2, <1>3, <1>5, <2>1
  <2>2. CASE now = old + 1 /\ \E u \in Sources : send(u) /\ key(u) = k
    <3>1. ~Sent(k) /\ Sent(k)'
      BY <1>4, <2>2
    <3>. QED BY <1>1, <1>2, <1>3, <1>5, <2>2, <3>1
  <2>. QED BY <1>1, <2>1, <2>2
<1>6. CASE flush_all \/ FlushFails \/ Down \/ UNCHANGED vars
  <2>1. UNCHANGED <<delivered, unmarked, pc, at>> /\ \A t \in Sources : ~send(t)
    BY <1>6 DEF flush_all, FlushFails, Down, vars, taskVars, send, TypeOK
  <2>2. Sent(k)' <=> Sent(k)
    BY <2>1 DEF Sent, key, record
  <2>. QED BY <1>1, <1>2, <2>1, <2>2
<1>7. CASE Resume
  <2> DEFINE M == {t \in Sources : pc[t] = "mark" /\ key(t) = k}
  <2>0. now <= old
    BY <1>1, <1>7 DEF Resume, send
  <2>1. IsFiniteSet(M) /\ Cardinality(M) \in Nat /\ (Cardinality(M) = 0 => M = {})
    <3>1. IsFiniteSet(M)
      BY FlowAssumption, FS_Subset
    <3>. QED BY <3>1, FS_CardinalityType, FS_EmptySet
  <2>2. unmarked'[k] = unmarked[k] + Cardinality(M) + (IF k \in delivered \ stored THEN 1 ELSE 0)
    BY <1>7 DEF Resume
  <2>3. k \in stored => Sent(k)'
    BY <1>7 DEF Resume, Sent
  <2>4. Sent(k) => k \in delivered \/ M # {}
    BY DEF Sent
  <2> HIDE DEF M
  <2>5. CASE ~Sent(k)
    BY <1>1, <1>2, <2>0, <2>1, <2>2, <2>5
  <2>6. CASE M # {}
    BY <1>1, <1>2, <2>0, <2>1, <2>2, <2>6
  <2>7. CASE k \in delivered
    BY <1>1, <1>2, <2>0, <2>1, <2>2, <2>3, <2>7
  <2>. QED BY <2>4, <2>5, <2>6, <2>7
<1>. QED BY <1>5, <1>6, <1>7 DEF Next

\* The invariant of duplicates holds initially, and is inductive.
LEMMA DuplicatesInvariance ==
  ASSUME SourcesApart
  PROVE  Spec => []DInv
<1>1. Init => DInv
  <2> SUFFICES ASSUME Init PROVE DInv
    OBVIOUS
  <2>1. SendsAreFresh
    BY DEF Init, SendsAreFresh
  <2>2. ASSUME NEW s \in Sinks, NEW k \in Keys PROVE Copies(s, k) = 0 /\ Held(s, k) = 0 /\ unmarked[k] = 0
    BY CopiesAreCounts, CountEmpty DEF Init
  <2>3. CopiesBounded
    BY <2>2 DEF CopiesBounded
  <2>. QED BY <2>1, <2>3, InitHolds DEF DInv
<1>2. DInv /\ [Next]_vars => DInv'
  <2> SUFFICES ASSUME DInv, [Next]_vars PROVE DInv'
    OBVIOUS
  <2>1. IInv'
    BY TypeStep, BuffersStep, MarksStep, ThroughStep, FinishedStep DEF DInv, IInv
  <2>2. SendsAreFresh' /\ CopiesBounded'
    BY FreshStep, CopiesBoundedStep DEF DInv, IInv
  <2>. QED BY <2>1, <2>2 DEF DInv
<1>. QED BY <1>1, <1>2, PTL DEF Spec

\* persist.rs: a sink writes a key a second time only because an earlier process died
\* after the send and before the mark was in the file.
THEOREM DuplicatesAreUnmarked ==
  ASSUME SourcesApart
  PROVE  Spec => []DuplicatesOnlyUnmarked
<1>1. DInv => DuplicatesOnlyUnmarked
  <2> SUFFICES ASSUME DInv, NEW s \in Sinks, NEW k \in Keys PROVE Copies(s, k) <= 1 + unmarked[k]
    BY DEF DuplicatesOnlyUnmarked
  <2>1. output[s] \in Seq(Records) /\ buffer[s] \in Seq(Records) /\ unmarked[k] \in Nat
    BY DEF DInv, IInv, TypeOK
  <2>2. Copies(s, k) \in Nat /\ Held(s, k) \in Nat
    BY <2>1, CopiesAreCounts, CountType
  <2>3. Copies(s, k) + Held(s, k) <= unmarked[k] + (IF Sent(k) THEN 1 ELSE 0)
    BY DEF DInv, CopiesBounded
  <2>. QED BY <2>1, <2>2, <2>3
<1>. QED BY <1>1, DuplicatesInvariance, PTL

\* is_delivered: once a key is marked, no sink is given a record with that key again,
\* in this process or in a resumed one.
THEOREM MarkedIsNeverResent ==
  ASSUME SourcesApart
  PROVE  Spec => MarkedNeverResent
<1>1. DInv /\ [Next]_vars => [\A s \in Sinks : \A k \in delivered :
         Copies(s, k)' + Held(s, k)' <= Copies(s, k) + Held(s, k)]_vars
  <2> SUFFICES ASSUME DInv, [Next]_vars, NEW s \in Sinks, NEW k \in delivered
               PROVE  Copies(s, k)' + Held(s, k)' <= Copies(s, k) + Held(s, k)
    OBVIOUS
  <2>1. k \in Keys
    BY DEF DInv, IInv, TypeOK
  <2>2. ASSUME NEW t \in Sources, send(t), key(t) = k PROVE FALSE
    BY <2>2 DEF send, DInv, SendsAreFresh
  <2>. QED BY <2>1, <2>2, CountsStep DEF DInv, IInv
<1>. QED BY <1>1, DuplicatesInvariance, PTL DEF Spec, MarkedNeverResent
=============================================================================
