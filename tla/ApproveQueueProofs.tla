------------------------- MODULE ApproveQueueProofs -------------------------
(***************************************************************************)
(* For any records, tasks, crashes and failing writes: what an approve has *)
(* taken reaches the sink; and, as long as one task at a time changes the  *)
(* store and `sohara approve` is not called while the flow is up, every    *)
(* save replaces the file in one step by what its process has in memory,   *)
(* and the file's queue accounts for every record that was parked.         *)
(***************************************************************************)
EXTENDS ApproveQueue, FiniteSetTheorems, TLAPS

-----------------------------------------------------------------------------
(* The inductive invariant: what always holds. *)

Steps == {"idle", "snapshot", "create", "write", "rename", "ok", "failed"}
Opens == {"none", "tmp", "file", "gone"}
Contents == [is : {"absent", "empty", "torn", "json"}, data : Entries]
Saves == [step : Steps, data : Entries, open : Opens]

AtSink == {"check", "send", "mark", "marking"}
WorkerPlaces == AtSink \cup {"off", "pull", "park", "push", "parking"}
ApproverPlaces == AtSink \cup {"off", "take", "delete", "taking", "inject"}

TypeOK ==
  /\ entries \in [Procs -> Entries]
  /\ file \in Contents /\ tmp \in Contents
  /\ save \in [Tasks -> Saves]
  /\ up \subseteq Procs /\ todo \subseteq Records
  /\ pc \in [Tasks -> WorkerPlaces \cup ApproverPlaces]
  /\ rec \in [Tasks -> Records \cup {None}]
  /\ held \in [Tasks -> Seq(Records)]
  /\ output \subseteq Records /\ failed \subseteq Records
  /\ parks \in [Records -> Nat] /\ acks \in [Records -> Nat] /\ takes \in [Records -> Nat]
  /\ aborted \in BOOLEAN /\ raced \in BOOLEAN

\* Each task is where a task of its process may be, has a record where it needs one,
\* and is in a save only where it waits for one.
TaskOK(t) ==
  /\ pc[t] \in IF t = approver THEN ApproverPlaces ELSE WorkerPlaces
  /\ pc[t] \in AtSink \cup {"park", "push", "parking"} => rec[t] \in Records
  /\ ProcOf[t] \notin up => pc[t] = "off"
  /\ pc[t] \notin {"parking", "marking", "taking"} => save[t] = Idle
  /\ pc[t] \in {"parking", "marking", "taking"} => save[t].step # "idle"
TasksOK == (\A t \in Tasks : TaskOK(t)) /\ (pc[approver] = "off" => "approve" \notin up)

\* Whatever the files, the processes and the saves have as marked is at the sink.
MarksAreSent ==
  /\ \A p \in Procs : entries[p].marks \subseteq output
  /\ file.data.marks \subseteq output /\ tmp.data.marks \subseteq output
  /\ \A t \in Tasks : save[t].data.marks \subseteq output
  /\ \A t \in Tasks : pc[t] = "mark" => rec[t] \in output

\* What an approve has taken is at the sink, or still before it.
TakenIsUnderWay ==
  ~aborted => \A r \in Records : takes[r] > 0 =>
    \/ r \in output \cup failed
    \/ pc[approver] \in AtSink \cup {"inject"} /\ \E i \in 1..Len(held[approver]) : held[approver][i] = r
    \/ pc[approver] \in {"check", "send"} /\ rec[approver] = r

-----------------------------------------------------------------------------
(* The inductive invariant: what holds as long as one task at a time changes the   *)
(* store and the processes are not up together.                                    *)

OneChange ==
  /\ ~({"flow", "approve"} \subseteq up)
  /\ \A t, u \in Tasks : Changing(t) /\ Changing(u) => t = u

\* A save has what its process has in memory, and the temporary file is its own.
SaveIsAlone(t) ==
  /\ save[t].step \in {"create", "write", "rename"} => save[t].data = store(t)
  /\ save[t].step = "write" => save[t].open = "tmp" /\ tmp = Empty
  /\ save[t].step = "rename" => tmp = Text(save[t].data)
  /\ save[t].step = "ok" => file.data = store(t)

\* The queue a task is about to save again is the one in memory.
LoadedIsCurrent == \A t \in Tasks : pc[t] = "push" => held[t] = store(t).queue

\* The approver has taken, and not yet counted as taken, what was the file's queue.
ApproverQueue ==
  /\ pc[approver] \in AtSink \cup {"take", "inject"} => store(approver).queue = file.data.queue
  /\ pc[approver] = "delete" => held[approver] = file.data.queue
  /\ pc[approver] = "taking" => store(approver).queue = <<>>
  /\ pc[approver] = "taking" /\ save[approver].step # "ok" => held[approver] = file.data.queue

TakenBy(r) == takes[r] + (IF pc[approver] = "taking" /\ save[approver].step = "ok" THEN Count(held[approver], r) ELSE 0)
Parking(r) == IF \E t \in Tasks : pc[t] = "parking" /\ rec[t] = r THEN 1 ELSE 0

\* The flow's memory accounts for what was parked, the record under way included.
MemoryAccounts ==
  "flow" \in up => \A r \in Records :
    /\ acks[r] + Parking(r) <= takes[r] + Count(entries["flow"].queue, r)
    /\ takes[r] + Count(entries["flow"].queue, r) <= parks[r]

Alone == OneChange /\ (\A t \in Tasks : SaveIsAlone(t)) /\ LoadedIsCurrent /\ ApproverQueue /\ MemoryAccounts

IInv ==
  /\ TypeOK /\ TasksOK /\ MarksAreSent /\ TakenIsUnderWay
  /\ ~Together /\ Orderly => Alone /\ QueueAccountsForParks

-----------------------------------------------------------------------------
(* Shapes. *)

\* The constants, and what a store and its file may contain.
LEMMA Shapes ==
  /\ Procs = {"flow", "approve"} /\ ProcOf \in [Tasks -> Procs]
  /\ approver \in Tasks /\ ProcOf[approver] = "approve" /\ (\A t \in Tasks \ {approver} : ProcOf[t] = "flow")
  /\ NoEntries \in Entries /\ Idle \in Saves /\ Idle.step = "idle"
  /\ Absent \in Contents /\ Empty \in Contents /\ Torn \in Contents
  /\ \A data \in Entries : Text(data) \in Contents /\ Text(data).data = data
  /\ \A data \in Entries : Text(data) # Absent
<1>1. NoEntries \in Entries
  BY DEF NoEntries, Entries
<1>2. Idle \in Saves /\ Idle.step = "idle"
  BY <1>1 DEF Idle, Saves, Steps, Opens
<1>3. Absent \in Contents /\ Empty \in Contents /\ Torn \in Contents
  BY <1>1 DEF Absent, Empty, Torn, Contents
<1>4. \A data \in Entries : Text(data) \in Contents /\ Text(data).data = data
  BY DEF Text, Contents
<1>5. \A data \in Entries : Text(data) # Absent
  <2>1. Absent.is = "absent" /\ \A data : Text(data).is = "json"
    BY DEF Text, Absent
  <2>. QED BY <2>1
<1>. QED BY <1>1, <1>2, <1>3, <1>4, <1>5, ApproveAssumption, StoreAssumption

\* What the beginning of a save does.
LEMMA BeginSpec ==
  ASSUME TypeOK, NEW t \in Tasks, NEW changed \in Entries, Begin(t, changed)
  PROVE  /\ entries' \in [Procs -> Entries] /\ entries'[ProcOf[t]] = changed
         /\ \A p \in Procs \ {ProcOf[t]} : entries'[p] = entries[p]
         /\ save' \in [Tasks -> Saves] /\ save'[t].step = "snapshot" /\ save'[t].data = NoEntries
         /\ \A u \in Tasks \ {t} : save'[u] = save[u]
         /\ UNCHANGED <<file, tmp, errors>> /\ save[t] = Idle
<1>1. entries' \in [Procs -> Entries] /\ entries'[ProcOf[t]] = changed
      /\ \A p \in Procs \ {ProcOf[t]} : entries'[p] = entries[p]
  BY Shapes DEF Begin, TypeOK
<1>2. save'[t] = [Idle EXCEPT !.step = "snapshot"] /\ \A u \in Tasks \ {t} : save'[u] = save[u]
  BY DEF Begin, TypeOK
<1>3. [Idle EXCEPT !.step = "snapshot"] = [step |-> "snapshot", data |-> NoEntries, open |-> "none"]
  BY DEF Idle
<1>4. save' \in [Tasks -> Saves]
  BY Shapes DEF Begin, TypeOK, Saves, Steps
<1>. QED BY <1>1, <1>2, <1>3, <1>4 DEF Begin

\* What the steps of a save do to the saves: it goes on, the others keep their step and
\* their data, and a rename at most changes what name their open file has.
LEMMA PersistSaves ==
  ASSUME TypeOK, NEW t \in Tasks, persist(t)
  PROVE  /\ entries' = entries /\ save' \in [Tasks -> Saves]
         /\ \A u \in Tasks \ {t} : save'[u].step = save[u].step /\ save'[u].data = save[u].data
         /\ \A u \in Tasks \ {t} : save[u] = Idle => save'[u] = Idle
         /\ save[t].step # "idle" /\ save'[t].step # "idle"
         /\ save'[t].data = IF save[t].step = "snapshot" THEN entries[ProcOf[t]] ELSE save[t].data
         /\ save[t].step = "snapshot" => save'[t].step = "create" /\ UNCHANGED <<file, tmp>>
         /\ save[t].step = "create" => save'[t].step = "write" /\ save'[t].open = "tmp" /\ tmp' = Empty /\ file' = file
         /\ save[t].step = "write" => save'[t].step \in {"rename", "failed"}
         /\ save[t].step = "rename" => save'[t].step \in {"ok", "failed"}
         /\ save[t].step \in {"snapshot", "create", "write", "rename"}
<1>0. save \in [Tasks -> Saves] /\ entries \in [Procs -> Entries] /\ ProcOf[t] \in Procs
  BY Shapes DEF TypeOK
<1>a. save[t] \in Saves /\ "create" \in Steps /\ "write" \in Steps /\ "rename" \in Steps /\ "failed" \in Steps
      /\ "ok" \in Steps /\ "tmp" \in Opens /\ "none" \in Opens /\ entries[ProcOf[t]] \in Entries
  BY <1>0 DEF Steps, Opens
<1>b. ASSUME NEW s \in Saves, save' = [save EXCEPT ![t] = s]
      PROVE  /\ save' \in [Tasks -> Saves] /\ save'[t] = s
             /\ \A u \in Tasks \ {t} : save'[u] = save[u]
  BY <1>0, <1>b
<1>c. PICK x \in Saves : x = save[t]
  BY <1>a
<1>1. CASE Snapshot(t)
  <2> DEFINE s == [x EXCEPT !.step = "create", !.data = entries[ProcOf[t]]]
  <2>1. s \in Saves /\ s.step = "create" /\ s.data = entries[ProcOf[t]]
    BY <1>a DEF Saves
  <2>2. save' = [save EXCEPT ![t] = s]
    BY <1>0, <1>1, <1>c DEF Snapshot
  <2> HIDE DEF s
  <2>. QED BY <1>1, <1>b, <1>c, <2>1, <2>2 DEF Snapshot
<1>2. CASE Create(t)
  <2> DEFINE s == [x EXCEPT !.step = "write", !.open = "tmp"]
  <2>1. s \in Saves /\ s.step = "write" /\ s.open = "tmp" /\ s.data = x.data
    BY <1>a DEF Saves
  <2>2. save' = [save EXCEPT ![t] = s]
    BY <1>0, <1>2, <1>c DEF Create
  <2> HIDE DEF s
  <2>. QED BY <1>2, <1>b, <1>c, <2>1, <2>2 DEF Create
<1>3. CASE Write(t) \/ WriteFails(t)
  <2>1. PICK step \in {"rename", "failed"} : save' = [save EXCEPT ![t].step = step, ![t].open = "none"]
    BY <1>3 DEF Write, WriteFails
  <2> DEFINE s == [x EXCEPT !.step = step, !.open = "none"]
  <2>2. s \in Saves /\ s.step = step /\ s.data = x.data
    BY <1>a DEF Saves
  <2>3. save' = [save EXCEPT ![t] = s]
    BY <1>0, <1>c, <2>1
  <2>4. save[t].step = "write" /\ entries' = entries
    BY <1>3 DEF Write, WriteFails
  <2> HIDE DEF s
  <2>. QED BY <1>b, <1>c, <2>2, <2>3, <2>4
<1>4. CASE Rename(t)
  <2>0. save[t].step = "rename" /\ entries' = entries
    BY <1>4 DEF Rename
  <2>1. CASE save' = [save EXCEPT ![t].step = "failed"]
    <3> DEFINE s == [x EXCEPT !.step = "failed"]
    <3>1. s \in Saves /\ s.step = "failed" /\ s.data = x.data
      BY <1>a DEF Saves
    <3>2. save' = [save EXCEPT ![t] = s]
      BY <1>0, <1>c, <2>1
    <3> HIDE DEF s
    <3>. QED BY <1>b, <1>c, <2>0, <3>1, <3>2
  <2>2. CASE save' = Renamed(t, save)
    <3> DEFINE next(open) == CASE open = "tmp" -> "file" [] open = "file" -> "gone" [] OTHER -> open
    <3>1. /\ save' = [u \in Tasks |-> save'[u]]
          /\ save'[t] = [x EXCEPT !.step = "ok"]
          /\ \A u \in Tasks \ {t} : save'[u] = [save[u] EXCEPT !.open = next(save[u].open)]
      BY <1>c, <2>2 DEF Renamed
    <3>2. \A u \in Tasks : next(save[u].open) \in Opens /\ (save[u].open = "none" => next(save[u].open) = "none")
      BY <1>0 DEF Saves, Opens
    <3> HIDE DEF next
    <3>3. save'[t] \in Saves /\ save'[t].step = "ok" /\ save'[t].data = x.data
      BY <1>a, <3>1 DEF Saves
    <3>4. ASSUME NEW u \in Tasks \ {t}
          PROVE  /\ save'[u] \in Saves /\ save'[u].step = save[u].step /\ save'[u].data = save[u].data
                 /\ save[u] = Idle => save'[u] = Idle
      <4>1. PICK y \in Saves : y = save[u]
        BY <1>0
      <4>2. PICK o \in Opens : o = next(save[u].open)
        BY <3>2
      <4> DEFINE s == [y EXCEPT !.open = o]
      <4>3. s \in Saves /\ s.step = y.step /\ s.data = y.data /\ (y.open = o => s = y)
        BY DEF Saves
      <4>4. save'[u] = s
        BY <3>1, <4>1, <4>2
      <4>5. Idle.open = "none"
        BY DEF Idle
      <4> HIDE DEF s
      <4>. QED BY <3>2, <4>1, <4>2, <4>3, <4>4, <4>5
    <3>5. save' \in [Tasks -> Saves]
      BY <3>1, <3>3, <3>4
    <3>. QED BY <1>c, <2>0, <3>3, <3>4, <3>5
  <2>. QED BY <1>4, <2>1, <2>2 DEF Rename
<1>. QED BY <1>1, <1>2, <1>3, <1>4 DEF persist

\* The files keep their shape.
LEMMA PersistFiles ==
  ASSUME TypeOK, NEW t \in Tasks, persist(t)
  PROVE  /\ file' \in Contents /\ tmp' \in Contents
         /\ file'.data \in {file.data, tmp.data, save[t].data, NoEntries}
         /\ tmp'.data \in {tmp.data, save[t].data, NoEntries}
<1>0. /\ file \in Contents /\ tmp \in Contents /\ save[t].data \in Entries
      /\ Empty.data = NoEntries /\ Torn.data = NoEntries /\ Absent.data = NoEntries
  BY DEF TypeOK, Saves, Empty, Torn, Absent
<1>1. \A content : Overlaid(content, save[t].data) \subseteq {Text(save[t].data), Torn}
  BY DEF Overlaid
<1>2. Text(save[t].data) \in Contents /\ Text(save[t].data).data = save[t].data
  BY <1>0, Shapes
<1>3. CASE Write(t)
  <2>1. /\ file' \in {file, Text(save[t].data), Torn}
        /\ tmp' \in {tmp, Text(save[t].data), Torn}
    BY <1>1, <1>3 DEF Write
  <2>. QED BY <1>0, <1>2, <2>1, Shapes
<1>4. CASE WriteFails(t)
  <2>1. file' \in {file, Torn} /\ tmp' \in {tmp, Torn}
    BY <1>4 DEF WriteFails
  <2>. QED BY <1>0, <2>1, Shapes
<1>5. CASE Snapshot(t) \/ Create(t) \/ Rename(t)
  <2>1. file' \in {file, tmp} /\ tmp' \in {tmp, Empty, Absent}
    BY <1>5 DEF Snapshot, Create, Rename
  <2>. QED BY <1>0, <2>1, Shapes
<1>. QED BY <1>3, <1>4, <1>5 DEF persist

\* The three changes of the store.
LEMMA ChangeSpec ==
  ASSUME TypeOK, TasksOK, NEW t \in Tasks, mark_delivered(t) \/ Push(t) \/ (t = approver /\ Delete)
  PROVE  /\ entries' \in [Procs -> Entries] /\ \A p \in Procs \ {ProcOf[t]} : entries'[p] = entries[p]
         /\ save' \in [Tasks -> Saves] /\ save'[t].step = "snapshot" /\ save'[t].data = NoEntries
         /\ \A u \in Tasks \ {t} : save'[u] = save[u]
         /\ UNCHANGED <<file, tmp, errors>> /\ save[t] = Idle
         /\ mark_delivered(t) => /\ store(t)'.queue = store(t).queue
                                 /\ store(t)'.marks = store(t).marks \cup {rec[t]} /\ rec[t] \in Records
         /\ Push(t) => /\ store(t)'.queue = Append(held[t], rec[t]) /\ rec[t] \in Records
                       /\ store(t)'.marks = store(t).marks
         /\ t = approver /\ Delete => store(t)'.queue = <<>> /\ store(t)'.marks = store(t).marks
<1>1. PICK e \in Entries : e = store(t)
  BY Shapes DEF TypeOK, store
<1>2. (mark_delivered(t) \/ Push(t)) => rec[t] \in Records
  BY DEF mark_delivered, Push, TasksOK, TaskOK, AtSink
<1>3. held[t] \in Seq(Records)
  BY DEF TypeOK
<1>4. CASE mark_delivered(t)
  <2> DEFINE c == [e EXCEPT !.marks = @ \cup {rec[t]}]
  <2>1. c \in Entries /\ c.queue = e.queue /\ c.marks = e.marks \cup {rec[t]}
    BY <1>2, <1>4 DEF Entries
  <2>2. Begin(t, c) /\ pc[t] = "mark"
    BY <1>1, <1>4 DEF mark_delivered
  <2> HIDE DEF c
  <2>3. ~Push(t) /\ ~(t = approver /\ Delete)
    BY <2>2 DEF Push, Delete
  <2>. QED BY <1>1, <1>2, <1>4, <2>1, <2>2, <2>3, BeginSpec DEF store
<1>5. CASE Push(t)
  <2> DEFINE c == [e EXCEPT !.queue = Append(held[t], rec[t])]
  <2>0. Append(held[t], rec[t]) \in Seq(Records)
    BY <1>2, <1>3, <1>5
  <2>1. c \in Entries /\ c.queue = Append(held[t], rec[t]) /\ c.marks = e.marks
    BY <2>0 DEF Entries
  <2>2. Begin(t, c) /\ pc[t] = "push"
    BY <1>1, <1>5 DEF Push
  <2> HIDE DEF c
  <2>3. ~mark_delivered(t) /\ ~(t = approver /\ Delete)
    BY <2>2 DEF mark_delivered, Delete
  <2>. QED BY <1>1, <1>2, <1>5, <2>1, <2>2, <2>3, BeginSpec DEF store
<1>6. CASE t = approver /\ Delete
  <2> DEFINE c == [e EXCEPT !.queue = <<>>]
  <2>0. <<>> \in Seq(Records)
    OBVIOUS
  <2>1. c \in Entries /\ c.queue = <<>> /\ c.marks = e.marks
    <3>1. PICK q \in Seq(Records) : q = <<>>
      BY <2>0
    <3>2. [e EXCEPT !.queue = q] \in Entries /\ [e EXCEPT !.queue = q].queue = q /\ [e EXCEPT !.queue = q].marks = e.marks
      BY DEF Entries
    <3>. QED BY <3>1, <3>2
  <2>2. Begin(t, c) /\ pc[t] = "delete"
    BY <1>1, <1>6 DEF Delete
  <2> HIDE DEF c
  <2>3. ~mark_delivered(t) /\ ~Push(t)
    BY <2>2 DEF mark_delivered, Push
  <2>. QED BY <1>1, <1>6, <2>1, <2>2, <2>3, BeginSpec DEF store
<1>. QED BY <1>4, <1>5, <1>6

\* The return of a save.
LEMMA EndedSpec ==
  ASSUME TypeOK, NEW t \in Tasks, Ended(t)
  PROVE  /\ save' \in [Tasks -> Saves] /\ save'[t] = Idle /\ \A u \in Tasks \ {t} : save'[u] = save[u]
         /\ UNCHANGED <<entries, file, tmp>> /\ save[t].step \in {"ok", "failed"}
BY Shapes DEF Ended, TypeOK

\* How often a record is in a queue is a number, above zero only if it is there.
LEMMA CountType ==
  ASSUME NEW q \in Seq(Records), NEW r
  PROVE  Count(q, r) \in Nat /\ (Count(q, r) > 0 => \E i \in 1..Len(q) : q[i] = r)
<1> DEFINE S == {i \in 1..Len(q) : q[i] = r}
<1>1. IsFiniteSet(S)
  <2>1. 1 \in Int /\ Len(q) \in Int
    OBVIOUS
  <2>2. IsFiniteSet(1..Len(q)) /\ S \in SUBSET (1..Len(q))
    BY <2>1, FS_Interval
  <2>. QED BY <2>2, FS_Subset
<1>2. Cardinality(S) \in Nat /\ (S = {} => Cardinality(S) = 0)
  BY <1>1, FS_CardinalityType, FS_EmptySet
<1>. QED BY <1>2 DEF Count

\* A push adds one of its record and none of the others.
LEMMA CountAppend ==
  ASSUME NEW q \in Seq(Records), NEW x \in Records, NEW r
  PROVE  Count(Append(q, x), r) = Count(q, r) + (IF x = r THEN 1 ELSE 0)
<1> DEFINE n == Len(q) + 1
           S == {i \in 1..Len(q) : q[i] = r}
           T == {i \in 1..Len(Append(q, x)) : Append(q, x)[i] = r}
<1>1. /\ Len(q) \in Nat /\ Len(Append(q, x)) = n /\ Append(q, x)[n] = x
      /\ \A i \in 1..Len(q) : Append(q, x)[i] = q[i]
  OBVIOUS
<1>2. IsFiniteSet(S) /\ Cardinality(S) \in Nat /\ n \notin S
  <2>1. 1 \in Int /\ Len(q) \in Int
    OBVIOUS
  <2>2. IsFiniteSet(1..Len(q)) /\ S \in SUBSET (1..Len(q))
    BY <2>1, FS_Interval
  <2>. QED BY <1>1, <2>2, FS_Subset, FS_CardinalityType
<1>3. T = IF x = r THEN S \cup {n} ELSE S
  BY <1>1
<1>4. Cardinality(S \cup {n}) = Cardinality(S) + 1
  BY <1>2, FS_AddElement
<1> HIDE DEF S, T
<1>5. Cardinality(T) = Cardinality(S) + (IF x = r THEN 1 ELSE 0)
  BY <1>2, <1>3, <1>4
<1>. QED BY <1>5 DEF Count, S, T

\* An empty queue has no record.
LEMMA CountEmpty == \A r : Count(<<>>, r) = 0
<1>1. \A r : {i \in 1..Len(<<>>) : <<>>[i] = r} = {}
  OBVIOUS
<1>. QED BY <1>1, FS_EmptySet DEF Count

-----------------------------------------------------------------------------
(* The shapes and the tasks. *)

\* Steps keep the types.
LEMMA TypeStep == TypeOK /\ TasksOK /\ [Next]_vars => TypeOK'
<1> SUFFICES ASSUME TypeOK, TasksOK, [Next]_vars PROVE TypeOK'
  OBVIOUS
<1> DEFINE Places == WorkerPlaces \cup ApproverPlaces
<1>p. \A w \in {"check", "send", "mark", "marking", "off", "pull", "park", "push", "parking", "take", "delete", "taking", "inject"} : w \in Places
  BY DEF AtSink, WorkerPlaces, ApproverPlaces
<1>g. ASSUME NEW t \in Tasks, NEW w \in Places, Goto(t, w) PROVE pc' \in [Tasks -> Places]
  BY <1>g DEF Goto, TypeOK
<1>f. ASSUME NEW t \in Tasks, Following(t)
      PROVE  pc' \in [Tasks -> Places] /\ rec' \in [Tasks -> Records \cup {None}]
  BY <1>f, <1>g, <1>p DEF Following, TypeOK
<1>r. ASSUME Returns
      PROVE  pc' \in [Tasks -> Places] /\ rec' \in [Tasks -> Records \cup {None}]
             /\ held' \in [Tasks -> Seq(Records)] /\ up' \subseteq Procs
  BY <1>r, <1>g, <1>p, Shapes DEF Returns, TypeOK
<1> HIDE DEF Places
<1>1. ASSUME NEW t \in Tasks, is_delivered(t) \/ send(t) \/ SendFails(t) PROVE TypeOK'
  <2>1. UNCHANGED <<entries, file, tmp, save, up, todo, held, parks, acks, takes, aborted, raced>>
    BY <1>1 DEF is_delivered, send, SendFails, storeVars, ghostVars
  <2>2. rec[t] \in Records
    BY <1>1 DEF is_delivered, send, SendFails, TasksOK, TaskOK, AtSink
  <2>3. output' \subseteq Records /\ failed' \subseteq Records
    BY <1>1, <2>2 DEF is_delivered, send, SendFails, TypeOK
  <2>4. pc' \in [Tasks -> Places] /\ rec' \in [Tasks -> Records \cup {None}]
    <3>1. CASE Following(t)
      BY <1>f, <3>1
    <3>2. CASE Goto(t, "send") /\ rec' = rec
      BY <1>g, <1>p, <3>2 DEF TypeOK
    <3>3. CASE Goto(t, "mark") /\ rec' = rec
      BY <1>g, <1>p, <3>3 DEF TypeOK
    <3>. QED BY <1>1, <3>1, <3>2, <3>3 DEF is_delivered, send, SendFails
  <2>. QED BY <2>1, <2>3, <2>4 DEF TypeOK, Places
<1>2. ASSUME NEW t \in Tasks, mark_delivered(t) \/ Push(t) PROVE TypeOK'
  <2>1. UNCHANGED <<up, todo, rec, output, failed, acks, takes, aborted>>
    BY <1>2 DEF mark_delivered, Push
  <2>2. entries' \in [Procs -> Entries] /\ save' \in [Tasks -> Saves] /\ UNCHANGED <<file, tmp>> /\ rec[t] \in Records
    BY <1>2, ChangeSpec
  <2>3. pc' \in [Tasks -> Places]
    BY <1>2, <1>g, <1>p DEF mark_delivered, Push
  <2>4. held' \in [Tasks -> Seq(Records)]
    <3>1. <<>> \in Seq(Records)
      OBVIOUS
    <3>. QED BY <1>2, <3>1 DEF mark_delivered, Push, TypeOK
  <2>5. parks' \in [Records -> Nat] /\ raced' \in BOOLEAN
    <3>1. CASE mark_delivered(t)
      BY <3>1 DEF mark_delivered, Races, TypeOK
    <3>2. CASE Push(t)
      BY <2>2, <3>2 DEF Push, Inc, TypeOK
    <3>. QED BY <1>2, <3>1, <3>2
  <2>. QED BY <2>1, <2>2, <2>3, <2>4, <2>5 DEF TypeOK, Places
<1>3. ASSUME NEW t \in Tasks, Marked(t) \/ Parked(t) PROVE TypeOK'
  <2>1. UNCHANGED <<up, todo, held, output, parks, takes, aborted, raced>> /\ Ended(t) /\ Following(t)
    BY <1>3 DEF Marked, Parked, ghostVars
  <2>2. entries' = entries /\ save' \in [Tasks -> Saves] /\ UNCHANGED <<file, tmp>>
    BY <2>1, EndedSpec
  <2>3. pc' \in [Tasks -> Places] /\ rec' \in [Tasks -> Records \cup {None}]
    BY <1>f, <2>1
  <2>4. rec[t] \in Records
    BY <1>3 DEF Marked, Parked, TasksOK, TaskOK, AtSink
  <2>5. acks' \in [Records -> Nat] /\ failed' \subseteq Records
    BY <1>3, <2>4 DEF Marked, Parked, Inc, ghostVars, TypeOK
  <2>. QED BY <2>1, <2>2, <2>3, <2>5 DEF TypeOK, Places
<1>4. ASSUME NEW t \in Tasks, Pull(t) PROVE TypeOK'
  <2>1. UNCHANGED <<entries, file, tmp, save, up, held, output, failed, parks, acks, takes, aborted, raced>>
    BY <1>4 DEF Pull, storeVars, ghostVars
  <2>2. PICK r \in todo : todo' = todo \ {r} /\ rec' = [rec EXCEPT ![t] = r] /\ (Goto(t, "park") \/ Goto(t, "check"))
    BY <1>4 DEF Pull
  <2>3. pc' \in [Tasks -> Places]
    BY <1>g, <1>p, <2>2
  <2>. QED BY <2>1, <2>2, <2>3 DEF TypeOK, Places
<1>5. ASSUME NEW t \in Tasks, park_approve(t) PROVE TypeOK'
  <2>1. UNCHANGED <<entries, file, tmp, save, up, todo, rec, output, failed, parks, acks, takes, aborted>>
    BY <1>5 DEF park_approve, storeVars
  <2>2. held' \in [Tasks -> Seq(Records)] /\ raced' \in BOOLEAN
    BY <1>5, Shapes DEF park_approve, Races, TypeOK, store, Entries
  <2>3. pc' \in [Tasks -> Places]
    BY <1>5, <1>g, <1>p DEF park_approve
  <2>. QED BY <2>1, <2>2, <2>3 DEF TypeOK, Places
<1>6. ASSUME NEW t \in Tasks, persist(t), UNCHANGED flowVars PROVE TypeOK'
  BY <1>6, PersistSaves, PersistFiles DEF TypeOK, flowVars, ghostVars
<1>7. CASE take_approve_queue
  <2>1. UNCHANGED <<entries, file, tmp, save, up, todo, rec, output, failed, parks, acks, takes, aborted, raced>>
    BY <1>7 DEF take_approve_queue, storeVars, ghostVars
  <2>2. held' \in [Tasks -> Seq(Records)]
    BY <1>7, Shapes DEF take_approve_queue, TypeOK, store, Entries
  <2>3. pc' \in [Tasks -> Places]
    BY <1>7, <1>g, <1>p, Shapes DEF take_approve_queue
  <2>. QED BY <2>1, <2>2, <2>3 DEF TypeOK, Places
<1>8. CASE Delete
  <2>1. UNCHANGED <<up, todo, rec, held, output, failed, parks, acks, takes, aborted, raced>>
    BY <1>8 DEF Delete, ghostVars
  <2>2. entries' \in [Procs -> Entries] /\ save' \in [Tasks -> Saves] /\ UNCHANGED <<file, tmp>>
    BY <1>8, ChangeSpec, Shapes
  <2>3. pc' \in [Tasks -> Places]
    BY <1>8, <1>g, <1>p, Shapes DEF Delete
  <2>. QED BY <2>1, <2>2, <2>3 DEF TypeOK, Places
<1>9. CASE Taken
  <2>1. UNCHANGED <<todo, output, failed, parks, acks, aborted, raced>> /\ Ended(approver)
    BY <1>9 DEF Taken
  <2>2. entries' = entries /\ save' \in [Tasks -> Saves] /\ UNCHANGED <<file, tmp>>
    BY <2>1, EndedSpec, Shapes
  <2>3. TakesHeld \in [Records -> Nat]
    <3>1. held[approver] \in Seq(Records)
      BY Shapes DEF TypeOK
    <3>2. \A r \in Records : Count(held[approver], r) \in Nat
      BY <3>1, CountType
    <3>. QED BY <3>2 DEF TakesHeld, TypeOK
  <2>4. /\ pc' \in [Tasks -> Places] /\ rec' \in [Tasks -> Records \cup {None}]
        /\ held' \in [Tasks -> Seq(Records)] /\ up' \subseteq Procs /\ takes' \in [Records -> Nat]
    <3>1. CASE takes' = TakesHeld /\ Goto(approver, "inject") /\ UNCHANGED <<up, rec, held>>
      BY <1>g, <1>p, <2>3, <3>1, Shapes DEF TypeOK
    <3>2. CASE Returns /\ UNCHANGED takes
      BY <1>r, <3>2 DEF TypeOK
    <3>. QED BY <1>9, <3>1, <3>2 DEF Taken
  <2>. QED BY <2>1, <2>2, <2>4 DEF TypeOK, Places
<1>10. CASE approve_pending
  <2>1. UNCHANGED <<entries, file, tmp, save, todo, output, failed, parks, acks, takes, aborted, raced>>
    BY <1>10 DEF approve_pending, storeVars, ghostVars
  <2>2. /\ pc' \in [Tasks -> Places] /\ rec' \in [Tasks -> Records \cup {None}]
        /\ held' \in [Tasks -> Seq(Records)] /\ up' \subseteq Procs
    <3>1. CASE Returns
      BY <1>r, <3>1
    <3>2. CASE /\ held[approver] # <<>> /\ rec' = [rec EXCEPT ![approver] = Head(held[approver])]
               /\ held' = [held EXCEPT ![approver] = Tail(@)] /\ Goto(approver, "check") /\ UNCHANGED up
      <4>1. held[approver] \in Seq(Records)
        BY Shapes DEF TypeOK
      <4>2. Head(held[approver]) \in Records /\ Tail(held[approver]) \in Seq(Records)
        BY <3>2, <4>1
      <4>. QED BY <1>g, <1>p, <3>2, <4>2, Shapes DEF TypeOK
    <3>. QED BY <1>10, <3>1, <3>2 DEF approve_pending
  <2>. QED BY <2>1, <2>2 DEF TypeOK, Places
<1>11. CASE InjectFails
  <2>1. UNCHANGED <<entries, file, tmp, save, todo, output, failed, parks, acks, takes, raced>> /\ Returns /\ aborted' = TRUE
    BY <1>11 DEF InjectFails
  <2>. QED BY <1>r, <2>1 DEF TypeOK, Places
<1>12. CASE StartFlow \/ approve_flow
  <2>1. UNCHANGED <<file, tmp, save, rec, held, output, failed, parks, acks, takes, aborted, raced>>
    BY <1>12 DEF StartFlow, approve_flow
  <2>2. file.data \in Entries
    BY DEF TypeOK, Contents
  <2>3. entries' \in [Procs -> Entries] /\ up' \subseteq Procs /\ todo' \subseteq Records
    BY <1>12, <2>2, Shapes DEF StartFlow, approve_flow, new, TypeOK
  <2>4. pc' \in [Tasks -> Places]
    BY <1>12, <1>p DEF StartFlow, approve_flow, TypeOK, Places
  <2>. QED BY <2>1, <2>3, <2>4 DEF TypeOK, Places
<1>13. ASSUME NEW p \in Procs, Exit(p) PROVE TypeOK'
  <2>1. UNCHANGED <<file, tmp, output, failed, parks, acks, raced>>
    BY <1>13 DEF Exit
  <2>2. entries' \in [Procs -> Entries] /\ save' \in [Tasks -> Saves]
    BY <1>13, Shapes DEF Exit, Closed, TypeOK
  <2>3. up' \subseteq Procs /\ todo' \subseteq Records /\ rec' \in [Tasks -> Records \cup {None}] /\ aborted' \in BOOLEAN
    BY <1>13 DEF Exit, TypeOK
  <2>4. pc' \in [Tasks -> Places]
    BY <1>13, <1>p DEF Exit, TypeOK, Places
  <2>5. held' \in [Tasks -> Seq(Records)]
    <3>1. <<>> \in Seq(Records)
      OBVIOUS
    <3>. QED BY <1>13, <3>1 DEF Exit, TypeOK
  <2>6. takes' \in [Records -> Nat]
    <3>1. held[approver] \in Seq(Records)
      BY Shapes DEF TypeOK
    <3>2. \A r \in Records : Count(held[approver], r) \in Nat
      BY <3>1, CountType
    <3>3. TakesHeld \in [Records -> Nat]
      BY <3>2 DEF TakesHeld, TypeOK
    <3>. QED BY <1>13, <3>3 DEF Exit, TypeOK
  <2>. QED BY <2>1, <2>2, <2>3, <2>4, <2>5, <2>6 DEF TypeOK, Places
<1>14. CASE UNCHANGED vars
  BY <1>14 DEF vars, storeVars, flowVars, ghostVars, TypeOK
<1>. QED BY <1>1, <1>2, <1>3, <1>4, <1>5, <1>6, <1>7, <1>8, <1>9, <1>10, <1>11, <1>12, <1>13, <1>14 DEF Next, Task

\* A step of one task of a process that is and stays up keeps the tasks in order.
LEMMA TaskMoves ==
  ASSUME TypeOK, TasksOK, NEW t \in Tasks, NEW w, NEW x,
         pc' = [pc EXCEPT ![t] = w], rec' = [rec EXCEPT ![t] = x], up' = up,
         \A u \in Tasks \ {t} : save'[u].step = save[u].step /\ (save[u] = Idle => save'[u] = Idle),
         w \in IF t = approver THEN ApproverPlaces ELSE WorkerPlaces, w # "off", pc[t] # "off",
         w \in AtSink \cup {"park", "push", "parking"} => x \in Records,
         IF w \in {"parking", "marking", "taking"} THEN save'[t].step # "idle" ELSE save'[t] = Idle
  PROVE  TasksOK'
<1>1. /\ pc'[t] = w /\ rec'[t] = x
      /\ \A u \in Tasks \ {t} : pc'[u] = pc[u] /\ rec'[u] = rec[u]
  BY DEF TypeOK
<1>2. TaskOK(t)'
  BY <1>1 DEF TaskOK, TasksOK
<1>3. \A u \in Tasks \ {t} : TaskOK(u)'
  BY <1>1 DEF TaskOK, TasksOK
<1>4. pc'[approver] = "off" => pc[approver] = "off"
  BY <1>1, Shapes
<1>. QED BY <1>2, <1>3, <1>4 DEF TasksOK

\* The return of the command keeps the tasks in order.
LEMMA ReturnsTasks ==
  ASSUME TypeOK, TasksOK, Returns, save'[approver] = Idle,
         \A u \in Tasks \ {approver} : save'[u] = save[u]
  PROVE  TasksOK'
<1>1. /\ pc'[approver] = "off" /\ up' = up \ {"approve"}
      /\ \A u \in Tasks \ {approver} : pc'[u] = pc[u] /\ rec'[u] = rec[u]
  BY Shapes DEF Returns, Goto, TypeOK
<1>2. TaskOK(approver)'
  BY <1>1 DEF TaskOK, ApproverPlaces, AtSink
<1>3. \A u \in Tasks \ {approver} : TaskOK(u)'
  BY <1>1, Shapes DEF TaskOK, TasksOK
<1>. QED BY <1>1, <1>2, <1>3 DEF TasksOK

\* Steps leave each task where it may be, with what it needs there.
LEMMA TasksStep == TypeOK /\ TasksOK /\ [Next]_vars => TasksOK'
<1> SUFFICES ASSUME TypeOK, TasksOK, [Next]_vars PROVE TasksOK'
  OBVIOUS
<1>t. ASSUME NEW t \in Tasks
      PROVE  /\ TaskOK(t) /\ save[t] \in Saves /\ rec = [rec EXCEPT ![t] = rec[t]] /\ pc = [pc EXCEPT ![t] = pc[t]]
             /\ (pc[t] \in AtSink => rec[t] \in Records)
  BY DEF TasksOK, TypeOK, TaskOK
<1>f. ASSUME NEW t \in Tasks, Following(t), up' = up, pc[t] # "off", save'[t] = Idle,
             \A u \in Tasks \ {t} : save'[u] = save[u]
      PROVE  TasksOK'
  <2>1. PICK w : w = IF t = approver THEN "inject" ELSE "pull"
    OBVIOUS
  <2>2. pc' = [pc EXCEPT ![t] = w] /\ rec' = [rec EXCEPT ![t] = None]
    BY <1>f, <2>1 DEF Following, Goto
  <2>3. /\ w \in IF t = approver THEN ApproverPlaces ELSE WorkerPlaces
        /\ w # "off" /\ w \notin AtSink \cup {"park", "push", "parking", "marking", "taking"}
    BY <2>1 DEF ApproverPlaces, WorkerPlaces, AtSink
  <2>. QED BY <1>f, <2>2, <2>3, TaskMoves
<1>g. ASSUME NEW t \in Tasks, NEW w \in {"send", "mark"}, Goto(t, w), pc[t] \in AtSink \ {"marking"}, UNCHANGED <<rec, up, save>>
      PROVE  TasksOK'
  <2>1. /\ w \in IF t = approver THEN ApproverPlaces ELSE WorkerPlaces
        /\ w # "off" /\ w \notin {"park", "push", "parking", "marking", "taking"}
    BY <1>g DEF ApproverPlaces, WorkerPlaces, AtSink
  <2>2. rec[t] \in Records /\ pc[t] # "off" /\ save[t] = Idle
    BY <1>g, <1>t DEF TaskOK, AtSink
  <2>. QED BY <1>g, <1>t, <2>1, <2>2, TaskMoves DEF Goto
<1>1. ASSUME NEW t \in Tasks, is_delivered(t) \/ send(t) \/ SendFails(t) PROVE TasksOK'
  <2>1. UNCHANGED <<save, up>> /\ pc[t] \in {"check", "send"}
    BY <1>1 DEF is_delivered, send, SendFails, storeVars
  <2>2. pc[t] # "off" /\ save[t] = Idle /\ pc[t] \in AtSink \ {"marking"}
    BY <2>1, <1>t DEF TaskOK, AtSink
  <2>3. CASE Following(t)
    BY <1>f, <2>1, <2>2, <2>3
  <2>4. CASE rec' = rec /\ (Goto(t, "send") \/ Goto(t, "mark"))
    BY <1>g, <2>1, <2>2, <2>4
  <2>. QED BY <1>1, <2>3, <2>4 DEF is_delivered, send, SendFails
<1>2. ASSUME NEW t \in Tasks, mark_delivered(t) \/ Push(t) PROVE TasksOK'
  <2>1. UNCHANGED <<up, rec>>
    BY <1>2 DEF mark_delivered, Push
  <2>2. /\ save'[t].step = "snapshot" /\ (\A u \in Tasks \ {t} : save'[u] = save[u]) /\ rec[t] \in Records
    BY <1>2, ChangeSpec
  <2>3. CASE mark_delivered(t)
    <3>1. pc' = [pc EXCEPT ![t] = "marking"] /\ pc[t] = "mark"
      BY <2>3 DEF mark_delivered, Goto
    <3>2. "marking" \in IF t = approver THEN ApproverPlaces ELSE WorkerPlaces
      BY DEF ApproverPlaces, WorkerPlaces, AtSink
    <3>3. /\ rec' = [rec EXCEPT ![t] = rec[t]] /\ save'[t].step # "idle"
          /\ \A u \in Tasks \ {t} : save'[u].step = save[u].step /\ (save[u] = Idle => save'[u] = Idle)
      BY <1>t, <2>1, <2>2
    <3>. QED BY <2>1, <2>2, <3>1, <3>2, <3>3, TaskMoves
  <2>4. CASE Push(t)
    <3>1. pc' = [pc EXCEPT ![t] = "parking"] /\ pc[t] = "push"
      BY <2>4 DEF Push, Goto
    <3>2. t # approver /\ "parking" \in WorkerPlaces
      BY <1>t, <3>1 DEF TaskOK, ApproverPlaces, WorkerPlaces, AtSink
    <3>3. /\ rec' = [rec EXCEPT ![t] = rec[t]] /\ save'[t].step # "idle"
          /\ \A u \in Tasks \ {t} : save'[u].step = save[u].step /\ (save[u] = Idle => save'[u] = Idle)
      BY <1>t, <2>1, <2>2
    <3>. QED BY <2>1, <2>2, <3>1, <3>2, <3>3, TaskMoves
  <2>. QED BY <1>2, <2>3, <2>4
<1>3. ASSUME NEW t \in Tasks, Marked(t) \/ Parked(t) PROVE TasksOK'
  <2>1. UNCHANGED up /\ Ended(t) /\ Following(t) /\ pc[t] # "off"
    BY <1>3 DEF Marked, Parked
  <2>. QED BY <1>f, <2>1, EndedSpec
<1>4. ASSUME NEW t \in Tasks, Pull(t) PROVE TasksOK'
  <2>1. UNCHANGED <<save, up>> /\ pc[t] = "pull"
    BY <1>4 DEF Pull, storeVars
  <2>2. PICK r \in todo, w \in {"park", "check"} : rec' = [rec EXCEPT ![t] = r] /\ pc' = [pc EXCEPT ![t] = w]
    BY <1>4 DEF Pull, Goto
  <2>3. t # approver /\ save[t] = Idle /\ r \in Records
    BY <1>t, <2>1 DEF TaskOK, ApproverPlaces, AtSink, TypeOK
  <2>4. w \in WorkerPlaces /\ w # "off" /\ w \notin {"parking", "marking", "taking"}
    BY DEF WorkerPlaces, AtSink
  <2>. QED BY <2>1, <2>2, <2>3, <2>4, TaskMoves
<1>5. ASSUME NEW t \in Tasks, park_approve(t) PROVE TasksOK'
  <2>1. UNCHANGED <<save, up, rec>> /\ pc[t] = "park" /\ pc' = [pc EXCEPT ![t] = "push"]
    BY <1>5 DEF park_approve, storeVars, Goto
  <2>2. t # approver /\ save[t] = Idle /\ rec[t] \in Records /\ "push" \in WorkerPlaces
    BY <1>t, <2>1 DEF TaskOK, ApproverPlaces, WorkerPlaces, AtSink
  <2>. QED BY <1>t, <2>1, <2>2, TaskMoves
<1>6. ASSUME NEW t \in Tasks, persist(t), UNCHANGED flowVars PROVE TasksOK'
  <2>1. UNCHANGED <<up, pc, rec>>
    BY <1>6 DEF flowVars
  <2>2. /\ \A u \in Tasks \ {t} : save'[u].step = save[u].step
        /\ \A u \in Tasks \ {t} : save[u] = Idle => save'[u] = Idle
        /\ save[t].step # "idle" /\ save'[t].step # "idle"
    BY <1>6, PersistSaves
  <2>3. pc[t] \in {"parking", "marking", "taking"}
    BY <1>t, <2>2, Shapes DEF TaskOK
  <2>4. TaskOK(t)'
    BY <1>t, <2>1, <2>2, <2>3 DEF TaskOK
  <2>5. \A u \in Tasks \ {t} : TaskOK(u)'
    BY <1>t, <2>1, <2>2 DEF TaskOK
  <2>. QED BY <2>1, <2>4, <2>5 DEF TasksOK
<1>7. CASE take_approve_queue
  <2>1. UNCHANGED <<save, up, rec>> /\ pc[approver] = "take" /\ pc' = [pc EXCEPT ![approver] = "delete"]
    BY <1>7 DEF take_approve_queue, storeVars, Goto
  <2>2. save[approver] = Idle /\ "delete" \in ApproverPlaces
        /\ "delete" \notin AtSink \cup {"park", "push", "parking", "marking", "taking"}
    BY <1>t, <2>1, Shapes DEF TaskOK, ApproverPlaces, AtSink
  <2>3. approver \in Tasks /\ rec' = [rec EXCEPT ![approver] = rec[approver]] /\ up' = up
    BY <1>t, <2>1, Shapes
  <2>. QED BY <2>1, <2>2, <2>3, TaskMoves
<1>8. CASE Delete
  <2>1. UNCHANGED <<up, rec>> /\ pc[approver] = "delete" /\ pc' = [pc EXCEPT ![approver] = "taking"]
    BY <1>8 DEF Delete, Goto
  <2>2. save'[approver].step = "snapshot" /\ \A u \in Tasks \ {approver} : save'[u] = save[u]
    BY <1>8, ChangeSpec, Shapes
  <2>3. "taking" \in ApproverPlaces /\ "taking" \notin AtSink \cup {"park", "push", "parking"}
    BY DEF ApproverPlaces, AtSink
  <2>4. /\ rec' = [rec EXCEPT ![approver] = rec[approver]] /\ save'[approver].step # "idle"
        /\ \A u \in Tasks \ {approver} : save'[u].step = save[u].step /\ (save[u] = Idle => save'[u] = Idle)
    BY <1>t, <2>1, <2>2, Shapes
  <2>5. approver \in Tasks
    BY Shapes
  <2>. QED BY <2>1, <2>3, <2>4, <2>5, TaskMoves
<1>9. CASE Taken
  <2>1. Ended(approver) /\ pc[approver] = "taking"
    BY <1>9 DEF Taken
  <2>2. save'[approver] = Idle /\ \A u \in Tasks \ {approver} : save'[u] = save[u]
    BY <2>1, EndedSpec, Shapes
  <2>3. CASE Goto(approver, "inject") /\ UNCHANGED <<up, rec, held>>
    <3>1. "inject" \in ApproverPlaces /\ "inject" \notin AtSink \cup {"park", "push", "parking", "marking", "taking"}
      BY DEF ApproverPlaces, AtSink
    <3>2. /\ rec' = [rec EXCEPT ![approver] = rec[approver]] /\ save'[approver] = Idle
          /\ \A u \in Tasks \ {approver} : save'[u].step = save[u].step /\ (save[u] = Idle => save'[u] = Idle)
      BY <1>t, <2>2, <2>3, Shapes
    <3>. QED BY <2>1, <2>2, <2>3, <3>1, <3>2, TaskMoves, Shapes DEF Goto
  <2>4. CASE Returns
    BY <2>2, <2>4, ReturnsTasks
  <2>. QED BY <1>9, <2>3, <2>4 DEF Taken
<1>10. CASE approve_pending
  <2>1. UNCHANGED save /\ pc[approver] = "inject"
    BY <1>10 DEF approve_pending, storeVars
  <2>2. save[approver] = Idle
    BY <1>t, <2>1, Shapes DEF TaskOK
  <2>3. CASE Returns
    BY <2>1, <2>2, <2>3, ReturnsTasks
  <2>4. CASE /\ held[approver] # <<>> /\ rec' = [rec EXCEPT ![approver] = Head(held[approver])]
             /\ Goto(approver, "check") /\ UNCHANGED up
    <3>1. held[approver] \in Seq(Records)
      BY Shapes DEF TypeOK
    <3>2. Head(held[approver]) \in Records
      BY <2>4, <3>1
    <3>3. "check" \in ApproverPlaces
      BY DEF ApproverPlaces, AtSink
    <3>. QED BY <2>1, <2>2, <2>4, <3>2, <3>3, TaskMoves, Shapes DEF Goto
  <2>. QED BY <1>10, <2>3, <2>4 DEF approve_pending
<1>11. CASE InjectFails
  <2>1. UNCHANGED save /\ pc[approver] = "check" /\ Returns
    BY <1>11 DEF InjectFails
  <2>2. save[approver] = Idle
    BY <1>t, <2>1, Shapes DEF TaskOK
  <2>. QED BY <2>1, <2>2, ReturnsTasks
<1>12. CASE StartFlow
  <2>1. /\ UNCHANGED <<rec, save>> /\ "flow" \notin up /\ up' = up \cup {"flow"}
        /\ pc' = [t \in Tasks |-> IF t \in Workers THEN "pull" ELSE pc[t]]
    BY <1>12 DEF StartFlow
  <2>2. ASSUME NEW t \in Tasks \ {approver} PROVE TaskOK(t)'
    <3>1. pc'[t] = "pull" /\ ProcOf[t] = "flow"
      BY <2>1, Shapes DEF Workers
    <3>2. save[t] = Idle
      BY <1>t, <2>1, <3>1 DEF TaskOK
    <3>. QED BY <2>1, <3>1, <3>2 DEF TaskOK, WorkerPlaces, AtSink
  <2>3. pc'[approver] = pc[approver]
    BY <2>1, Shapes DEF Workers
  <2>4. TaskOK(approver)'
    BY <1>t, <2>1, <2>3, Shapes DEF TaskOK
  <2>. QED BY <2>1, <2>2, <2>3, <2>4 DEF TasksOK
<1>13. CASE approve_flow
  <2>1. /\ UNCHANGED <<rec, save>> /\ "approve" \notin up /\ up' = up \cup {"approve"}
        /\ pc' = [pc EXCEPT ![approver] = "take"]
    BY <1>13 DEF approve_flow
  <2>2. pc'[approver] = "take" /\ \A t \in Tasks \ {approver} : pc'[t] = pc[t]
    BY <2>1, Shapes DEF TypeOK
  <2>3. save[approver] = Idle
    BY <1>t, <2>1, Shapes DEF TaskOK
  <2>4. TaskOK(approver)'
    BY <2>1, <2>2, <2>3, Shapes DEF TaskOK, ApproverPlaces, AtSink
  <2>5. \A t \in Tasks \ {approver} : TaskOK(t)'
    BY <1>t, <2>1, <2>2, Shapes DEF TaskOK
  <2>. QED BY <2>2, <2>4, <2>5 DEF TasksOK
<1>14. ASSUME NEW p \in Procs, Exit(p) PROVE TasksOK'
  <2>1. /\ up' = up \ {p} /\ save' = Closed(p)
        /\ \A t \in Tasks : pc'[t] = (IF ProcOf[t] = p THEN "off" ELSE pc[t])
                            /\ rec'[t] = (IF ProcOf[t] = p THEN None ELSE rec[t])
    BY <1>14 DEF Exit
  <2>2. \A t \in Tasks : save'[t] = IF ProcOf[t] = p THEN Idle ELSE save[t]
    BY <2>1 DEF Closed
  <2>3. ASSUME NEW t \in Tasks PROVE TaskOK(t)'
    <3>1. CASE ProcOf[t] = p
      <4>1. pc'[t] = "off" /\ save'[t] = Idle
        BY <2>1, <2>2, <3>1
      <4>. QED BY <4>1 DEF TaskOK, ApproverPlaces, WorkerPlaces, AtSink
    <3>2. CASE ProcOf[t] # p
      <4>1. pc'[t] = pc[t] /\ save'[t] = save[t] /\ rec'[t] = rec[t] /\ (ProcOf[t] \notin up' => ProcOf[t] \notin up)
        BY <2>1, <2>2, <3>2
      <4>. QED BY <1>t, <4>1 DEF TaskOK
    <3>. QED BY <3>1, <3>2
  <2>4. pc'[approver] = "off" => "approve" \notin up'
    BY <2>1, Shapes DEF TasksOK
  <2>. QED BY <2>3, <2>4 DEF TasksOK
<1>15. CASE UNCHANGED vars
  BY <1>15 DEF vars, storeVars, flowVars, TasksOK, TaskOK
<1>. QED BY <1>1, <1>2, <1>3, <1>4, <1>5, <1>6, <1>7, <1>8, <1>9, <1>10, <1>11, <1>12, <1>13, <1>14, <1>15 DEF Next, Task

-----------------------------------------------------------------------------
(* What an approve has taken reaches the sink. *)

\* Nothing is marked, in memory or in a file, before it is at the sink.
LEMMA MarksStep == TypeOK /\ TasksOK /\ MarksAreSent /\ [Next]_vars => MarksAreSent'
<1> SUFFICES ASSUME TypeOK, TasksOK, MarksAreSent, [Next]_vars PROVE MarksAreSent'
  OBVIOUS
<1>e. NoEntries.marks = {} /\ Idle.data = NoEntries
  BY DEF NoEntries, Idle
<1>k. ASSUME UNCHANGED <<entries, file, tmp>>, output \subseteq output',
             \A u \in Tasks : save'[u] = save[u] \/ save'[u] = Idle,
             \A u \in Tasks : pc'[u] = "mark" => (pc[u] = "mark" /\ rec'[u] = rec[u]) \/ rec'[u] \in output'
      PROVE  MarksAreSent'
  BY <1>k, <1>e DEF MarksAreSent
<1>f. ASSUME NEW t \in Tasks, Following(t)
      PROVE  \A u \in Tasks : pc'[u] = "mark" => pc[u] = "mark" /\ rec'[u] = rec[u]
  BY <1>f DEF Following, Goto, TypeOK
<1>r. ASSUME Returns
      PROVE  \A u \in Tasks : pc'[u] = "mark" => pc[u] = "mark" /\ rec'[u] = rec[u]
  BY <1>r, Shapes DEF Returns, Goto, TypeOK
<1>c. ASSUME NEW t \in Tasks, mark_delivered(t) \/ Push(t) \/ (t = approver /\ Delete),
             UNCHANGED <<rec, output>>,
             \A u \in Tasks : pc'[u] = "mark" => pc[u] = "mark"
      PROVE  MarksAreSent'
  <2>1. /\ \A p \in Procs \ {ProcOf[t]} : entries'[p] = entries[p]
        /\ save'[t].data = NoEntries /\ \A u \in Tasks \ {t} : save'[u] = save[u]
    BY <1>c, ChangeSpec
  <2>2. UNCHANGED <<file, tmp>>
    BY <1>c, ChangeSpec
  <2>3. entries'[ProcOf[t]].marks \subseteq entries[ProcOf[t]].marks \cup IF mark_delivered(t) THEN {rec[t]} ELSE {}
    BY <1>c, ChangeSpec DEF store
  <2>4. mark_delivered(t) => rec[t] \in output
    BY DEF mark_delivered, MarksAreSent
  <2>5. ProcOf[t] \in Procs
    BY Shapes
  <2>6. \A p \in Procs : entries'[p].marks \subseteq output
    BY <2>1, <2>3, <2>4, <2>5 DEF MarksAreSent
  <2>. QED BY <1>c, <1>e, <2>1, <2>2, <2>6 DEF MarksAreSent
<1>1. ASSUME NEW t \in Tasks, is_delivered(t) \/ send(t) \/ SendFails(t) PROVE MarksAreSent'
  <2>1. UNCHANGED <<entries, file, tmp, save>> /\ output \subseteq output'
    BY <1>1 DEF is_delivered, send, SendFails, storeVars
  <2>2. CASE Following(t)
    BY <1>f, <1>k, <2>1, <2>2
  <2>3. CASE Goto(t, "send") /\ UNCHANGED rec
    BY <1>k, <2>1, <2>3 DEF Goto, TypeOK
  <2>4. CASE send(t)
    BY <1>k, <2>1, <2>4 DEF send, Goto, TypeOK
  <2>. QED BY <1>1, <2>2, <2>3, <2>4 DEF is_delivered, SendFails
<1>2. ASSUME NEW t \in Tasks, mark_delivered(t) \/ Push(t) PROVE MarksAreSent'
  <2>1. UNCHANGED <<rec, output>> /\ (Goto(t, "marking") \/ Goto(t, "parking"))
    BY <1>2 DEF mark_delivered, Push
  <2>2. \A u \in Tasks : pc'[u] = "mark" => pc[u] = "mark"
    BY <2>1 DEF Goto, TypeOK
  <2>. QED BY <1>2, <1>c, <2>1, <2>2
<1>3. ASSUME NEW t \in Tasks, Marked(t) \/ Parked(t) PROVE MarksAreSent'
  <2>1. UNCHANGED output /\ Ended(t) /\ Following(t)
    BY <1>3 DEF Marked, Parked
  <2>2. UNCHANGED <<entries, file, tmp>> /\ \A u \in Tasks : save'[u] = save[u] \/ save'[u] = Idle
    BY <2>1, EndedSpec
  <2>. QED BY <1>f, <1>k, <2>1, <2>2
<1>4. ASSUME NEW t \in Tasks, Pull(t) \/ park_approve(t) PROVE MarksAreSent'
  <2>1. UNCHANGED <<entries, file, tmp, save, output>>
    BY <1>4 DEF Pull, park_approve, storeVars
  <2>2. pc[t] \in {"pull", "park"} /\ \E w \in {"park", "check", "push"} : pc' = [pc EXCEPT ![t] = w]
    BY <1>4 DEF Pull, park_approve, Goto
  <2>3. \E r : rec' = [rec EXCEPT ![t] = r]
    <3>1. rec = [rec EXCEPT ![t] = rec[t]]
      BY DEF TypeOK
    <3>. QED BY <1>4, <3>1 DEF Pull, park_approve
  <2>4. \A u \in Tasks : pc'[u] = "mark" => pc[u] = "mark" /\ rec'[u] = rec[u]
    BY <2>2, <2>3 DEF TypeOK
  <2>. QED BY <1>k, <2>1, <2>4
<1>6. ASSUME NEW t \in Tasks, persist(t), UNCHANGED flowVars PROVE MarksAreSent'
  <2>1. UNCHANGED <<pc, rec, output>>
    BY <1>6 DEF flowVars
  <2>2. /\ entries' = entries /\ \A u \in Tasks \ {t} : save'[u].data = save[u].data
        /\ save'[t].data = IF save[t].step = "snapshot" THEN entries[ProcOf[t]] ELSE save[t].data
    BY <1>6, PersistSaves
  <2>3. /\ file'.data \in {file.data, tmp.data, save[t].data, NoEntries}
        /\ tmp'.data \in {tmp.data, save[t].data, NoEntries}
    BY <1>6, PersistFiles
  <2>4. ProcOf[t] \in Procs
    BY Shapes
  <2>5. file'.data.marks \subseteq output /\ tmp'.data.marks \subseteq output
    BY <1>e, <2>3 DEF MarksAreSent
  <2>6. save'[t].data.marks \subseteq output /\ \A u \in Tasks : save'[u].data.marks \subseteq output
    BY <2>2, <2>4 DEF MarksAreSent
  <2>. QED BY <2>1, <2>2, <2>5, <2>6 DEF MarksAreSent
<1>7. CASE take_approve_queue
  <2>1. UNCHANGED <<entries, file, tmp, save, output, rec>> /\ Goto(approver, "delete")
    BY <1>7 DEF take_approve_queue, storeVars
  <2>2. \A u \in Tasks : pc'[u] = "mark" => pc[u] = "mark"
    BY <2>1 DEF Goto, TypeOK
  <2>. QED BY <1>k, <2>1, <2>2
<1>8. CASE Delete
  <2>1. UNCHANGED <<rec, output>> /\ Goto(approver, "taking")
    BY <1>8 DEF Delete
  <2>2. \A u \in Tasks : pc'[u] = "mark" => pc[u] = "mark"
    BY <2>1 DEF Goto, TypeOK
  <2>. QED BY <1>8, <1>c, <2>1, <2>2, Shapes
<1>9. CASE Taken
  <2>1. UNCHANGED output /\ Ended(approver)
    BY <1>9 DEF Taken
  <2>2. UNCHANGED <<entries, file, tmp>> /\ \A u \in Tasks : save'[u] = save[u] \/ save'[u] = Idle
    BY <2>1, EndedSpec, Shapes
  <2>3. CASE Returns
    BY <1>r, <1>k, <2>1, <2>2, <2>3
  <2>4. CASE Goto(approver, "inject") /\ UNCHANGED rec
    <3>1. \A u \in Tasks : pc'[u] = "mark" => pc[u] = "mark"
      BY <2>4 DEF Goto, TypeOK
    <3>. QED BY <1>k, <2>1, <2>2, <2>4, <3>1
  <2>. QED BY <1>9, <2>3, <2>4 DEF Taken
<1>10. CASE approve_pending
  <2>1. UNCHANGED <<entries, file, tmp, save, output>> /\ pc[approver] = "inject"
    BY <1>10 DEF approve_pending, storeVars
  <2>2. CASE Returns
    BY <1>r, <1>k, <2>1, <2>2
  <2>3. CASE rec' = [rec EXCEPT ![approver] = Head(held[approver])] /\ Goto(approver, "check")
    <3>1. \A u \in Tasks : pc'[u] = "mark" => pc[u] = "mark" /\ rec'[u] = rec[u]
      BY <2>1, <2>3 DEF Goto, TypeOK
    <3>. QED BY <1>k, <2>1, <3>1
  <2>. QED BY <1>10, <2>2, <2>3 DEF approve_pending
<1>11. CASE InjectFails
  BY <1>r, <1>k, <1>11 DEF InjectFails
<1>12. CASE StartFlow \/ approve_flow
  <2>1. UNCHANGED <<file, tmp, save, rec, output>> /\ \E p \in Procs : entries' = new(p)
    BY <1>12, Shapes DEF StartFlow, approve_flow
  <2>2. \A u \in Tasks : pc'[u] = "mark" => pc[u] = "mark"
    BY <1>12 DEF StartFlow, approve_flow, TypeOK
  <2>3. \A p \in Procs : entries'[p] \in {entries[p], file.data}
    BY <2>1 DEF new, TypeOK
  <2>. QED BY <2>1, <2>2, <2>3 DEF MarksAreSent
<1>13. ASSUME NEW p \in Procs, Exit(p) PROVE MarksAreSent'
  <2>1. UNCHANGED <<file, tmp, output>> /\ save' = Closed(p) /\ entries' = [entries EXCEPT ![p] = NoEntries]
    BY <1>13 DEF Exit
  <2>2. \A u \in Tasks : pc'[u] = "mark" => pc[u] = "mark" /\ rec'[u] = rec[u]
    BY <1>13 DEF Exit
  <2>3. \A q \in Procs : entries'[q] \in {entries[q], NoEntries}
    BY <2>1 DEF TypeOK
  <2>4. \A u \in Tasks : save'[u] \in {save[u], Idle}
    BY <2>1 DEF Closed
  <2>. QED BY <1>e, <2>1, <2>2, <2>3, <2>4 DEF MarksAreSent
<1>14. CASE UNCHANGED vars
  BY <1>14 DEF vars, storeVars, flowVars, MarksAreSent
<1>. QED BY <1>1, <1>2, <1>3, <1>4, <1>6, <1>7, <1>8, <1>9, <1>10, <1>11, <1>12, <1>13, <1>14 DEF Next, Task

\* What was taken stays under way until it is at the sink.
LEMMA TakenStep ==
  TypeOK /\ TasksOK /\ MarksAreSent /\ TakenIsUnderWay /\ [Next]_vars => TakenIsUnderWay'
<1> SUFFICES ASSUME TypeOK, TasksOK, MarksAreSent, TakenIsUnderWay, [Next]_vars PROVE TakenIsUnderWay'
  OBVIOUS
<1>a. approver \in Tasks /\ held[approver] \in Seq(Records) /\ ProcOf[approver] \in Procs
  BY Shapes DEF TypeOK
<1>w. ASSUME NEW t \in Tasks, pc[t] \in {"pull", "park", "push", "parking"} PROVE t # approver
  BY <1>w DEF TasksOK, TaskOK, ApproverPlaces, AtSink
\* A step that leaves the approver where it is.
<1>k. ASSUME UNCHANGED takes, aborted' = aborted, output \subseteq output', failed \subseteq failed',
             pc'[approver] = pc[approver], rec'[approver] = rec[approver], held'[approver] = held[approver]
      PROVE  TakenIsUnderWay'
  BY <1>k DEF TakenIsUnderWay
\* A step of the approver before it has taken anything.
<1>n. ASSUME UNCHANGED takes, aborted' \/ pc[approver] \notin AtSink \cup {"inject"}, aborted => aborted',
             output \subseteq output', failed \subseteq failed'
      PROVE  TakenIsUnderWay'
  <2>1. {"check", "send"} \subseteq AtSink
    BY DEF AtSink
  <2>. QED BY <1>n, <2>1 DEF TakenIsUnderWay
\* A step that leaves the approver with all of its queue, and its record settled.
<1>s. ASSUME UNCHANGED takes, aborted' = aborted, output \subseteq output', failed \subseteq failed',
             pc'[approver] \in AtSink \cup {"inject"}, held'[approver] = held[approver],
             pc[approver] \in {"check", "send"} => rec[approver] \in output' \cup failed' \/
                                                   (pc'[approver] \in {"check", "send"} /\ rec'[approver] = rec[approver])
      PROVE  TakenIsUnderWay'
  BY <1>s DEF TakenIsUnderWay
<1>o. ASSUME NEW t \in Tasks, NEW w, Goto(t, w)
      PROVE  pc'[approver] = IF t = approver THEN w ELSE pc[approver]
  BY <1>a, <1>o DEF Goto, TypeOK
<1>f. ASSUME NEW t \in Tasks, Following(t)
      PROVE  /\ t = approver => pc'[approver] = "inject"
             /\ t # approver => pc'[approver] = pc[approver] /\ rec'[approver] = rec[approver]
  BY <1>a, <1>f DEF Following, Goto, TypeOK
<1>p. {"check", "send", "mark", "marking"} \subseteq AtSink /\ {"off", "take", "delete", "taking", "inject"} \cap AtSink = {}
  BY DEF AtSink
<1>1. ASSUME NEW t \in Tasks, is_delivered(t) \/ send(t) \/ SendFails(t) PROVE TakenIsUnderWay'
  <2>1. UNCHANGED <<takes, aborted, held>> /\ output \subseteq output' /\ failed \subseteq failed'
    BY <1>1 DEF is_delivered, send, SendFails, ghostVars
  <2>2. CASE is_delivered(t)
    <3>1. CASE rec[t] \in store(t).marks
      <4>1. Following(t)
        BY <2>2, <3>1 DEF is_delivered
      <4>2. rec[t] \in output
        BY <3>1, Shapes DEF store, MarksAreSent
      <4>3. CASE t = approver
        BY <1>f, <1>s, <2>1, <4>1, <4>2, <4>3
      <4>4. CASE t # approver
        BY <1>f, <1>k, <2>1, <4>1, <4>4
      <4>. QED BY <4>3, <4>4
    <3>2. CASE rec[t] \notin store(t).marks
      <4>1. Goto(t, "send") /\ UNCHANGED rec
        BY <2>2, <3>2 DEF is_delivered
      <4>2. CASE t = approver
        BY <1>o, <1>p, <1>s, <2>1, <4>1, <4>2
      <4>3. CASE t # approver
        BY <1>o, <1>k, <2>1, <4>1, <4>3
      <4>. QED BY <4>2, <4>3
    <3>. QED BY <3>1, <3>2
  <2>3. CASE send(t)
    <3>1. Goto(t, "mark") /\ UNCHANGED rec /\ rec[t] \in output'
      BY <2>3 DEF send
    <3>2. CASE t = approver
      BY <1>o, <1>p, <1>s, <2>1, <3>1, <3>2
    <3>3. CASE t # approver
      BY <1>o, <1>k, <2>1, <3>1, <3>3
    <3>. QED BY <3>2, <3>3
  <2>4. CASE SendFails(t)
    <3>1. Following(t) /\ rec[t] \in failed'
      BY <2>4 DEF SendFails
    <3>2. CASE t = approver
      BY <1>f, <1>s, <2>1, <3>1, <3>2
    <3>3. CASE t # approver
      BY <1>f, <1>k, <2>1, <3>1, <3>3
    <3>. QED BY <3>2, <3>3
  <2>. QED BY <1>1, <2>2, <2>3, <2>4
<1>2. ASSUME NEW t \in Tasks, mark_delivered(t) PROVE TakenIsUnderWay'
  <2>1. UNCHANGED <<takes, aborted, held, output, failed, rec>> /\ Goto(t, "marking") /\ pc[t] = "mark"
    BY <1>2 DEF mark_delivered
  <2>2. CASE t = approver
    BY <1>o, <1>p, <1>s, <2>1, <2>2
  <2>3. CASE t # approver
    BY <1>o, <1>k, <2>1, <2>3
  <2>. QED BY <2>2, <2>3
<1>3. ASSUME NEW t \in Tasks, Marked(t) PROVE TakenIsUnderWay'
  <2>1. UNCHANGED <<takes, aborted, held, output, failed>> /\ Following(t) /\ pc[t] = "marking"
    BY <1>3 DEF Marked, ghostVars
  <2>2. CASE t = approver
    BY <1>f, <1>p, <1>s, <2>1, <2>2
  <2>3. CASE t # approver
    BY <1>f, <1>k, <2>1, <2>3
  <2>. QED BY <2>2, <2>3
<1>4. ASSUME NEW t \in Tasks, Pull(t) \/ park_approve(t) \/ Push(t) \/ Parked(t) PROVE TakenIsUnderWay'
  <2>1. pc[t] \in {"pull", "park", "push", "parking"}
    BY <1>4 DEF Pull, park_approve, Push, Parked
  <2>2. t # approver
    BY <1>w, <2>1
  <2>3. UNCHANGED <<takes, aborted, output>> /\ failed \subseteq failed'
    BY <1>4 DEF Pull, park_approve, Push, Parked, ghostVars
  <2>4. pc'[approver] = pc[approver]
    BY <1>4, <1>a, <1>o, <2>2 DEF Pull, park_approve, Push, Parked, Following
  <2>5. rec'[approver] = rec[approver] /\ held'[approver] = held[approver]
    BY <1>4, <1>a, <2>2 DEF Pull, park_approve, Push, Parked, Following, TypeOK
  <2>. QED BY <1>k, <2>3, <2>4, <2>5
<1>6. ASSUME NEW t \in Tasks, persist(t), UNCHANGED flowVars PROVE TakenIsUnderWay'
  BY <1>6, <1>k DEF flowVars, ghostVars
<1>7. CASE take_approve_queue \/ Delete
  <2>1. UNCHANGED <<takes, aborted, output, failed>> /\ pc[approver] \in {"take", "delete"}
    BY <1>7 DEF take_approve_queue, Delete, ghostVars
  <2>. QED BY <1>n, <1>p, <2>1
<1>9. CASE Taken
  <2>1. UNCHANGED <<output, failed, aborted>> /\ pc[approver] = "taking"
    BY <1>9 DEF Taken
  <2>2. CASE takes' = TakesHeld /\ Goto(approver, "inject") /\ UNCHANGED <<up, rec, held>>
    <3> SUFFICES ASSUME ~aborted, NEW r \in Records, takes'[r] > 0, r \notin output \cup failed
                 PROVE  \E i \in 1..Len(held[approver]) : held[approver][i] = r
      BY <1>a, <1>o, <1>p, <2>1, <2>2 DEF TakenIsUnderWay
    <3>1. takes[r] \in Nat /\ ~(takes[r] > 0)
      BY <1>p, <2>1 DEF TakenIsUnderWay, TypeOK
    <3>2. takes'[r] = takes[r] + Count(held[approver], r)
      BY <2>2 DEF TakesHeld
    <3>3. Count(held[approver], r) \in Nat
      BY <1>a, CountType
    <3>4. Count(held[approver], r) > 0
      BY <3>1, <3>2, <3>3
    <3>. QED BY <1>a, <3>4, CountType
  <2>3. CASE Returns /\ UNCHANGED takes
    BY <1>n, <1>p, <2>1, <2>3
  <2>. QED BY <1>9, <2>2, <2>3 DEF Taken
<1>10. CASE approve_pending
  <2>1. UNCHANGED <<takes, aborted, output, failed>> /\ pc[approver] = "inject"
    BY <1>10 DEF approve_pending, ghostVars
  <2>2. CASE held[approver] = <<>>
    <3> SUFFICES ASSUME ~aborted, NEW r \in Records, takes[r] > 0 PROVE r \in output \cup failed
      BY <2>1 DEF TakenIsUnderWay
    <3>1. 1..Len(held[approver]) = {}
      BY <2>2
    <3>. QED BY <2>1, <3>1 DEF TakenIsUnderWay
  <2>3. CASE held[approver] # <<>>
    <3>1. /\ rec' = [rec EXCEPT ![approver] = Head(held[approver])]
          /\ held' = [held EXCEPT ![approver] = Tail(@)] /\ Goto(approver, "check")
      BY <2>3, <1>10 DEF approve_pending
    <3>2. rec'[approver] = Head(held[approver]) /\ held'[approver] = Tail(held[approver]) /\ pc'[approver] = "check"
      BY <1>a, <1>o, <3>1 DEF TypeOK
    <3> SUFFICES ASSUME ~aborted, NEW r \in Records, takes[r] > 0, r \notin output \cup failed,
                        rec'[approver] # r
                 PROVE  \E i \in 1..Len(held'[approver]) : held'[approver][i] = r
      BY <1>p, <2>1, <3>2 DEF TakenIsUnderWay
    <3>3. PICK i \in 1..Len(held[approver]) : held[approver][i] = r
      BY <2>1 DEF TakenIsUnderWay
    <3>4. PICK q \in Seq(Records) : q = held[approver]
      BY <1>a
    <3>5. q # <<>> /\ i \in 1..Len(q) /\ q[i] = r /\ Head(q) # r
      BY <2>3, <3>2, <3>3, <3>4
    <3>6. i # 1 /\ i - 1 \in 1..Len(Tail(q)) /\ Tail(q)[i - 1] = r
      BY <3>5
    <3>. QED BY <3>2, <3>4, <3>6
  <2>. QED BY <2>2, <2>3
<1>11. CASE InjectFails
  BY <1>n, <1>11 DEF InjectFails
<1>12. CASE StartFlow
  <2>1. UNCHANGED <<takes, aborted, output, failed, rec, held>> /\ pc'[approver] = pc[approver]
    BY <1>12, <1>a DEF StartFlow, Workers
  <2>. QED BY <1>k, <2>1
<1>13. CASE approve_flow
  <2>1. UNCHANGED <<takes, aborted, output, failed>> /\ "approve" \notin up
    BY <1>13 DEF approve_flow
  <2>2. pc[approver] = "off"
    BY <1>a, <2>1, Shapes DEF TasksOK, TaskOK
  <2>. QED BY <1>n, <1>p, <2>1, <2>2
<1>14. ASSUME NEW p \in Procs, Exit(p) PROVE TakenIsUnderWay'
  <2>1. UNCHANGED <<output, failed>> /\ aborted' = (aborted \/ (p = "approve" /\ pc[approver] \notin {"take", "delete"}))
    BY <1>14 DEF Exit
  <2>2. CASE p = "approve"
    <3>1. CASE pc[approver] \in {"take", "delete"}
      <4>1. UNCHANGED takes
        BY <1>14, <3>1 DEF Exit
      <4>. QED BY <1>n, <1>p, <2>1, <3>1, <4>1
    <3>2. CASE pc[approver] \notin {"take", "delete"}
      BY <2>1, <2>2, <3>2 DEF TakenIsUnderWay
    <3>. QED BY <3>1, <3>2
  <2>3. CASE p # "approve"
    <3>1. UNCHANGED takes /\ pc'[approver] = pc[approver] /\ rec'[approver] = rec[approver] /\ held'[approver] = held[approver]
      BY <1>14, <1>a, <2>3, Shapes DEF Exit
    <3>2. aborted' = aborted
      BY <2>1, <2>3 DEF TypeOK
    <3>. QED BY <1>k, <2>1, <3>1, <3>2
  <2>. QED BY <2>2, <2>3
<1>15. CASE UNCHANGED vars
  BY <1>15, <1>k DEF vars, flowVars, ghostVars
<1>. QED BY <1>1, <1>2, <1>3, <1>4, <1>6, <1>7, <1>9, <1>10, <1>11, <1>12, <1>13, <1>14, <1>15 DEF Next, Task

-----------------------------------------------------------------------------
(* One change at a time. *)

\* Where a task is at work its process is up, and the other process is not.
LEMMA Sole ==
  ASSUME TypeOK, TasksOK, OneChange, NEW t \in Tasks, pc[t] # "off"
  PROVE  /\ ProcOf[t] \in up /\ \A u \in Tasks : ProcOf[u] # ProcOf[t] => pc[u] = "off"
         /\ t # approver => pc[approver] = "off" /\ "flow" \in up /\ "approve" \notin up
         /\ t = approver => "flow" \notin up /\ "approve" \in up /\ \A u \in Tasks \ {approver} : pc[u] = "off"
         /\ Changing(t) => \A u \in Tasks \ {t} : ~Changing(u) /\ save[u] = Idle
<1>1. ProcOf[t] \in up /\ \A u \in Tasks : ProcOf[u] # ProcOf[t] => pc[u] = "off"
  BY Shapes DEF TasksOK, TaskOK, OneChange
<1>2. t # approver => pc[approver] = "off" /\ "flow" \in up /\ "approve" \notin up
  BY <1>1, Shapes DEF OneChange
<1>3. t = approver => "flow" \notin up /\ "approve" \in up /\ \A u \in Tasks \ {approver} : pc[u] = "off"
  BY <1>1, Shapes DEF OneChange
<1>4. Changing(t) => \A u \in Tasks \ {t} : ~Changing(u) /\ save[u] = Idle
  BY DEF OneChange, Changing, TasksOK, TaskOK
<1>. QED BY <1>1, <1>2, <1>3, <1>4

\* A save by the only task that changes the store: what it writes is what its process
\* has in memory, and the file changes in its rename only.
LEMMA PersistAlone ==
  ASSUME TypeOK, TasksOK, OneChange, NEW t \in Tasks, SaveIsAlone(t), persist(t)
  PROVE  /\ pc[t] \in {"parking", "marking", "taking"} /\ Changing(t)
         /\ \A u \in Tasks \ {t} : save'[u] = Idle
         /\ SaveIsAlone(t)' /\ save[t].step # "ok" /\ entries' = entries
         /\ save'[t].step # "ok" => file' = file
         /\ save'[t].step = "ok" => save[t].step = "rename" /\ file' = Text(store(t)) /\ file'.data = store(t)
<1>0. /\ entries' = entries /\ save[t].step # "idle"
      /\ save'[t].data = IF save[t].step = "snapshot" THEN entries[ProcOf[t]] ELSE save[t].data
      /\ save[t].step = "snapshot" => save'[t].step = "create" /\ UNCHANGED <<file, tmp>>
      /\ save[t].step = "create" => save'[t].step = "write" /\ save'[t].open = "tmp" /\ tmp' = Empty /\ file' = file
      /\ save[t].step = "write" => save'[t].step \in {"rename", "failed"}
      /\ save[t].step = "rename" => save'[t].step \in {"ok", "failed"}
      /\ save[t].step \in {"snapshot", "create", "write", "rename"}
  BY PersistSaves
<1>1. pc[t] \in {"parking", "marking", "taking"} /\ Changing(t) /\ pc[t] # "off"
  BY <1>0, Shapes DEF TasksOK, TaskOK, Changing
<1>2. \A u \in Tasks \ {t} : save[u] = Idle
  BY <1>1, Sole
<1>3. \A u \in Tasks \ {t} : save'[u] = Idle
  BY <1>2, PersistSaves
<1>4. store(t)' = store(t)
  BY <1>0 DEF store
<1>5. CASE save[t].step = "snapshot"
  BY <1>0, <1>1, <1>3, <1>4, <1>5 DEF SaveIsAlone, store
<1>6. CASE save[t].step = "create"
  BY <1>0, <1>1, <1>3, <1>4, <1>6 DEF SaveIsAlone, store
<1>7. CASE save[t].step = "write"
  <2>1. save[t].open = "tmp" /\ tmp = Empty /\ save[t].data = store(t)
    BY <1>7 DEF SaveIsAlone
  <2>2. Write(t) \/ WriteFails(t)
    BY <1>7 DEF persist, Snapshot, Create, Rename
  <2>3. file' = file
    BY <2>1, <2>2 DEF Write, WriteFails
  <2>4. save'[t].step = "rename" => tmp' = Text(save[t].data)
    <3>1. ASSUME WriteFails(t) PROVE save'[t].step = "failed"
      <4>1. save[t] \in Saves
        BY DEF TypeOK
      <4>2. save'[t] = [save[t] EXCEPT !.step = "failed", !.open = "none"]
        BY <3>1 DEF WriteFails, TypeOK
      <4>. QED BY <4>1, <4>2 DEF Saves
    <3>2. ASSUME Write(t) PROVE tmp' = Text(save[t].data)
      BY <2>1, <3>2 DEF Write, Overlaid
    <3>. QED BY <2>2, <3>1, <3>2
  <2>. QED BY <1>0, <1>1, <1>3, <1>4, <1>7, <2>1, <2>3, <2>4 DEF SaveIsAlone
<1>8. CASE save[t].step = "rename"
  <2>1. tmp = Text(save[t].data) /\ save[t].data = store(t) /\ store(t) \in Entries
    BY <1>8, Shapes DEF SaveIsAlone, TypeOK, store
  <2>2. Text(store(t)) # Absent /\ Text(store(t)).data = store(t)
    BY <2>1, Shapes
  <2>3. Rename(t)
    BY <1>8 DEF persist, Snapshot, Create, Write, WriteFails
  <2>4. file' = tmp /\ save' = Renamed(t, save)
    BY <2>1, <2>2, <2>3 DEF Rename
  <2>5. save'[t].step = "ok"
    <3>1. save'[t] = [save[t] EXCEPT !.step = "ok"] /\ save[t] \in Saves
      BY <2>4 DEF Renamed, TypeOK
    <3>. QED BY <3>1 DEF Saves
  <2>. QED BY <1>0, <1>1, <1>3, <1>4, <1>8, <2>1, <2>2, <2>4, <2>5 DEF SaveIsAlone
<1>. QED BY <1>0, <1>5, <1>6, <1>7, <1>8

\* That two tasks have been changing the store at once is never forgotten.
LEMMA RacedStays == [Next]_vars /\ ~raced' => ~raced
<1> SUFFICES ASSUME [Next]_vars, raced PROVE raced'
  OBVIOUS
<1>1. ASSUME NEW t \in Tasks, Task(t) PROVE raced'
  BY <1>1 DEF Task, is_delivered, send, SendFails, mark_delivered, Marked, Pull, park_approve, Push, Parked, Races, flowVars, ghostVars
<1>2. CASE take_approve_queue \/ Delete \/ Taken \/ approve_pending \/ InjectFails \/ StartFlow \/ approve_flow
  BY <1>2 DEF take_approve_queue, Delete, Taken, approve_pending, InjectFails, StartFlow, approve_flow, ghostVars
<1>3. ASSUME NEW p \in Procs, Exit(p) PROVE raced'
  BY <1>3 DEF Exit
<1>. QED BY <1>1, <1>2, <1>3 DEF Next, vars, flowVars, ghostVars

\* As long as nothing races, one task at a time changes a store.
LEMMA OneChangeStep ==
  ASSUME TypeOK, TasksOK, OneChange, ~Together, ~raced', [Next]_vars
  PROVE  OneChange'
<1>k. ASSUME up' \subseteq up, \A u \in Tasks : Changing(u)' => Changing(u) PROVE OneChange'
  BY <1>k DEF OneChange
<1>g. ASSUME NEW t \in Tasks, NEW w, Goto(t, w)
      PROVE  pc'[t] = w /\ \A u \in Tasks \ {t} : pc'[u] = pc[u]
  BY <1>g DEF Goto, TypeOK
<1>m. ASSUME NEW t \in Tasks, NEW w, Goto(t, w), up' \subseteq up,
             Changing(t) \/ w \notin {"push", "parking", "marking", "delete", "taking"}
      PROVE  OneChange'
  BY <1>k, <1>m, <1>g DEF Changing
<1>f. ASSUME NEW t \in Tasks, Following(t), up' \subseteq up PROVE OneChange'
  BY <1>m, <1>f DEF Following
<1>r. ASSUME Returns PROVE OneChange'
  <2>1. Goto(approver, "off") /\ up' \subseteq up
    BY <1>r DEF Returns
  <2>. QED BY <1>m, <2>1, Shapes
<1>n. ASSUME NEW t \in Tasks, NEW w, Goto(t, w), up' = up, pc[t] # "off",
             \A u \in Tasks \ {t} : ProcOf[u] = ProcOf[t] => ~Changing(u)
      PROVE  OneChange'
  <2>1. \A u \in Tasks \ {t} : ~Changing(u)
    BY <1>n, Sole DEF Changing
  <2>2. \A u \in Tasks \ {t} : ~Changing(u)'
    BY <1>g, <1>n, <2>1 DEF Changing
  <2>. QED BY <1>n, <2>2 DEF OneChange
<1>1. ASSUME NEW t \in Tasks, is_delivered(t) \/ send(t) \/ SendFails(t) PROVE OneChange'
  <2>1. up' \subseteq up /\ (Following(t) \/ Goto(t, "send") \/ Goto(t, "mark"))
    BY <1>1 DEF is_delivered, send, SendFails
  <2>. QED BY <1>f, <1>m, <2>1
<1>2. ASSUME NEW t \in Tasks, mark_delivered(t) \/ park_approve(t) PROVE OneChange'
  <2>1. up' = up /\ pc[t] # "off" /\ Races(t) /\ \E w : Goto(t, w)
    BY <1>2 DEF mark_delivered, park_approve
  <2>2. \A u \in Tasks \ {t} : ProcOf[u] = ProcOf[t] => ~Changing(u)
    BY <2>1 DEF Races
  <2>. QED BY <1>n, <2>1, <2>2
<1>3. ASSUME NEW t \in Tasks, Marked(t) \/ Parked(t) PROVE OneChange'
  BY <1>3, <1>f DEF Marked, Parked
<1>4. ASSUME NEW t \in Tasks, Pull(t) PROVE OneChange'
  <2>1. up' \subseteq up /\ (Goto(t, "park") \/ Goto(t, "check"))
    BY <1>4 DEF Pull
  <2>. QED BY <1>m, <2>1
<1>5. ASSUME NEW t \in Tasks, Push(t) PROVE OneChange'
  <2>1. up' \subseteq up /\ Goto(t, "parking") /\ Changing(t)
    BY <1>5 DEF Push, Changing
  <2>. QED BY <1>m, <2>1
<1>6. ASSUME NEW t \in Tasks, persist(t), UNCHANGED flowVars PROVE OneChange'
  BY <1>6, <1>k DEF flowVars, Changing
<1>7. CASE take_approve_queue
  <2>1. up' = up /\ pc[approver] = "take" /\ Goto(approver, "delete")
    BY <1>7 DEF take_approve_queue
  <2>2. \A u \in Tasks \ {approver} : pc[u] = "off"
    BY <2>1, Sole, Shapes
  <2>3. \A u \in Tasks \ {approver} : ~Changing(u)
    BY <2>2 DEF Changing
  <2>. QED BY <1>n, <2>1, <2>3, Shapes
<1>8. CASE Delete
  <2>1. up' \subseteq up /\ Goto(approver, "taking") /\ Changing(approver)
    BY <1>8 DEF Delete, Changing
  <2>. QED BY <1>m, <2>1, Shapes
<1>9. CASE Taken
  <2>1. Returns \/ (Goto(approver, "inject") /\ up' \subseteq up)
    BY <1>9 DEF Taken
  <2>. QED BY <1>m, <1>r, <2>1, Shapes
<1>10. CASE approve_pending
  <2>1. Returns \/ (Goto(approver, "check") /\ up' \subseteq up)
    BY <1>10 DEF approve_pending
  <2>. QED BY <1>m, <1>r, <2>1, Shapes
<1>11. CASE InjectFails
  BY <1>11, <1>r DEF InjectFails
<1>12. CASE StartFlow \/ approve_flow
  <2>1. up = {} /\ \E p \in Procs : up' = up \cup {p}
    BY <1>12, Shapes DEF StartFlow, approve_flow
  <2>2. ~({"flow", "approve"} \subseteq up')
    BY <2>1
  <2>3. \A u \in Tasks : pc[u] = "off"
    BY <2>1 DEF TasksOK, TaskOK
  <2>4. \A u \in Tasks : pc'[u] \in {"off", "pull", "take"}
    BY <1>12, <2>3 DEF StartFlow, approve_flow, TypeOK
  <2>. QED BY <2>2, <2>4 DEF OneChange, Changing
<1>13. ASSUME NEW p \in Procs, Exit(p) PROVE OneChange'
  <2>1. up' \subseteq up /\ \A u \in Tasks : pc'[u] \in {"off", pc[u]}
    BY <1>13 DEF Exit
  <2>. QED BY <1>k, <2>1 DEF Changing
<1>14. CASE UNCHANGED vars
  BY <1>14, <1>k DEF vars, flowVars, Changing
<1>. QED BY <1>1, <1>2, <1>3, <1>4, <1>5, <1>6, <1>7, <1>8, <1>9, <1>10, <1>11, <1>12, <1>13, <1>14 DEF Next, Task

\* A save that is alone has the temporary file to itself, from create to rename.
LEMMA SavesStep ==
  ASSUME TypeOK, TasksOK, TasksOK', OneChange, OneChange', ~Together,
         \A t \in Tasks : SaveIsAlone(t), [Next]_vars
  PROVE  \A t \in Tasks : SaveIsAlone(t)'
<1>i. ASSUME NEW u \in Tasks, save'[u] = Idle \/ save'[u].step \in {"snapshot", "failed"} PROVE SaveIsAlone(u)'
  BY <1>i, Shapes DEF SaveIsAlone
<1>k. ASSUME UNCHANGED <<entries, file, tmp>>, \A u \in Tasks : save'[u] \in {save[u], Idle}
      PROVE  \A u \in Tasks : SaveIsAlone(u)'
  <2> SUFFICES ASSUME NEW u \in Tasks, save'[u] = save[u] PROVE SaveIsAlone(u)'
    BY <1>i, <1>k
  <2>. QED BY <1>k DEF SaveIsAlone, store
<1>c. ASSUME NEW t \in Tasks, mark_delivered(t) \/ Push(t) \/ (t = approver /\ Delete), Changing(t)'
      PROVE  \A u \in Tasks : SaveIsAlone(u)'
  <2>1. save'[t].step = "snapshot"
    BY <1>c, ChangeSpec
  <2>2. \A u \in Tasks \ {t} : save'[u] = Idle
    BY <1>c DEF OneChange, Changing, TasksOK, TaskOK
  <2>. QED BY <1>i, <2>1, <2>2
<1>1. ASSUME NEW t \in Tasks, is_delivered(t) \/ send(t) \/ SendFails(t) \/ Pull(t) \/ park_approve(t)
      PROVE  \A u \in Tasks : SaveIsAlone(u)'
  BY <1>1, <1>k DEF is_delivered, send, SendFails, Pull, park_approve, storeVars
<1>2. ASSUME NEW t \in Tasks, mark_delivered(t) \/ Push(t) PROVE \A u \in Tasks : SaveIsAlone(u)'
  <2>1. Goto(t, "marking") \/ Goto(t, "parking")
    BY <1>2 DEF mark_delivered, Push
  <2>2. Changing(t)'
    BY <2>1 DEF Goto, Changing, TypeOK
  <2>. QED BY <1>2, <1>c, <2>2
<1>3. ASSUME NEW t \in Tasks, Ended(t) PROVE \A u \in Tasks : SaveIsAlone(u)'
  <2>1. UNCHANGED <<entries, file, tmp>> /\ \A u \in Tasks : save'[u] \in {save[u], Idle}
    BY <1>3, EndedSpec
  <2>. QED BY <1>k, <2>1
<1>6. ASSUME NEW t \in Tasks, persist(t) PROVE \A u \in Tasks : SaveIsAlone(u)'
  BY <1>6, <1>i, PersistAlone
<1>7. CASE take_approve_queue \/ approve_pending \/ InjectFails
  BY <1>7, <1>k DEF take_approve_queue, approve_pending, InjectFails, storeVars
<1>8. CASE Delete
  <2>1. Changing(approver)'
    BY <1>8, Shapes DEF Delete, Goto, Changing, TypeOK
  <2>. QED BY <1>8, <1>c, <2>1, Shapes
<1>12. CASE StartFlow \/ approve_flow
  <2>1. up = {} /\ UNCHANGED save
    BY <1>12 DEF StartFlow, approve_flow
  <2>2. \A u \in Tasks : save[u] = Idle
    BY <2>1 DEF TasksOK, TaskOK
  <2>. QED BY <1>i, <2>1, <2>2
<1>13. ASSUME NEW p \in Procs, Exit(p) PROVE \A u \in Tasks : SaveIsAlone(u)'
  <2>1. p \in up /\ \A u \in Tasks : save'[u] = IF ProcOf[u] = p THEN Idle ELSE save[u]
    BY <1>13 DEF Exit, Closed
  <2>2. \A u \in Tasks : ProcOf[u] # p => save[u] = Idle
    BY <2>1, Shapes DEF OneChange, TasksOK, TaskOK
  <2>. QED BY <1>i, <2>1, <2>2
<1>14. CASE UNCHANGED vars
  BY <1>14, <1>k DEF vars, storeVars
<1>. QED BY <1>1, <1>2, <1>3, <1>6, <1>7, <1>8, <1>12, <1>13, <1>14, Shapes DEF Next, Task, Marked, Parked, Taken

\* Nobody changes the queue between the load and the push of a task that parks.
LEMMA LoadedStep ==
  ASSUME TypeOK, TasksOK, TasksOK', OneChange, OneChange', ~Together, LoadedIsCurrent, [Next]_vars
  PROVE  LoadedIsCurrent'
<1>k. ASSUME UNCHANGED entries,
             \A u \in Tasks : pc'[u] = "push" => pc[u] = "push" /\ held'[u] = held[u]
      PROVE  LoadedIsCurrent'
  BY <1>k DEF LoadedIsCurrent, store
<1>c. ASSUME NEW t \in Tasks, Changing(t)', pc'[t] # "push" PROVE LoadedIsCurrent'
  <2>1. \A u \in Tasks : pc'[u] # "push"
    BY <1>c DEF OneChange, Changing
  <2>. QED BY <2>1 DEF LoadedIsCurrent
<1>a. approver \in Tasks /\ pc[approver] # "push" /\ pc'[approver] # "push"
  BY Shapes DEF TasksOK, TaskOK, ApproverPlaces, AtSink
<1>f. ASSUME NEW t \in Tasks, Following(t) PROVE \A u \in Tasks : pc'[u] = "push" => pc[u] = "push"
  BY <1>f DEF Following, Goto, TypeOK
<1>g. ASSUME NEW t \in Tasks, NEW w, w # "push", Goto(t, w) PROVE \A u \in Tasks : pc'[u] = "push" => pc[u] = "push"
  BY <1>g DEF Goto, TypeOK
<1>r. ASSUME Returns PROVE \A u \in Tasks : pc'[u] = "push" => pc[u] = "push" /\ held'[u] = held[u]
  BY <1>r, <1>a DEF Returns, Goto, TypeOK
<1>1. ASSUME NEW t \in Tasks, is_delivered(t) \/ send(t) \/ SendFails(t) \/ Pull(t) \/ Marked(t) \/ Parked(t)
      PROVE  LoadedIsCurrent'
  <2>1. UNCHANGED <<entries, held>>
    BY <1>1, EndedSpec DEF is_delivered, send, SendFails, Pull, Marked, Parked, storeVars
  <2>2. Following(t) \/ \E w \in {"send", "mark", "park", "check"} : Goto(t, w)
    BY <1>1 DEF is_delivered, send, SendFails, Pull, Marked, Parked
  <2>3. \A u \in Tasks : pc'[u] = "push" => pc[u] = "push"
    BY <1>f, <1>g, <2>2
  <2>. QED BY <1>k, <2>1, <2>3
<1>2. ASSUME NEW t \in Tasks, mark_delivered(t) \/ Push(t) PROVE LoadedIsCurrent'
  <2>1. Goto(t, "marking") \/ Goto(t, "parking")
    BY <1>2 DEF mark_delivered, Push
  <2>2. Changing(t)' /\ pc'[t] # "push"
    BY <2>1 DEF Goto, Changing, TypeOK
  <2>. QED BY <1>c, <2>2
<1>5. ASSUME NEW t \in Tasks, park_approve(t) PROVE LoadedIsCurrent'
  <2>1. UNCHANGED entries /\ held' = [held EXCEPT ![t] = store(t).queue] /\ Goto(t, "push")
    BY <1>5 DEF park_approve, storeVars
  <2>2. /\ held'[t] = store(t).queue
        /\ \A u \in Tasks \ {t} : held'[u] = held[u] /\ pc'[u] = pc[u]
    BY <2>1 DEF Goto, TypeOK
  <2>. QED BY <2>1, <2>2 DEF LoadedIsCurrent, store
<1>6. ASSUME NEW t \in Tasks, persist(t), UNCHANGED flowVars PROVE LoadedIsCurrent'
  BY <1>6, <1>k, PersistSaves DEF flowVars
<1>7. CASE take_approve_queue
  <2>1. UNCHANGED entries /\ held' = [held EXCEPT ![approver] = store(approver).queue] /\ Goto(approver, "delete")
    BY <1>7 DEF take_approve_queue, storeVars
  <2>2. \A u \in Tasks : pc'[u] = "push" => pc[u] = "push" /\ held'[u] = held[u]
    BY <1>a, <1>g, <2>1 DEF TypeOK
  <2>. QED BY <1>k, <2>1, <2>2
<1>8. CASE Delete
  <2>1. Changing(approver)'
    BY <1>8, Shapes DEF Delete, Goto, Changing, TypeOK
  <2>. QED BY <1>a, <1>c, <2>1
<1>9. CASE Taken
  <2>1. UNCHANGED entries /\ (Returns \/ (Goto(approver, "inject") /\ UNCHANGED held))
    BY <1>9 DEF Taken, Ended
  <2>. QED BY <1>a, <1>g, <1>k, <1>r, <2>1
<1>10. CASE approve_pending
  <2>1. UNCHANGED entries
    BY <1>10 DEF approve_pending, storeVars
  <2>2. CASE Returns
    BY <1>k, <1>r, <2>1, <2>2
  <2>3. CASE held' = [held EXCEPT ![approver] = Tail(@)] /\ Goto(approver, "check")
    <3>1. \A u \in Tasks : pc'[u] = "push" => pc[u] = "push" /\ held'[u] = held[u]
      BY <1>a, <1>g, <2>3 DEF TypeOK
    <3>. QED BY <1>k, <2>1, <3>1
  <2>. QED BY <1>10, <2>2, <2>3 DEF approve_pending
<1>11. CASE InjectFails
  BY <1>11, <1>r, <1>k DEF InjectFails
<1>12. CASE StartFlow \/ approve_flow
  <2>1. up = {}
    BY <1>12 DEF StartFlow, approve_flow
  <2>2. \A u \in Tasks : pc[u] = "off"
    BY <2>1 DEF TasksOK, TaskOK
  <2>3. \A u \in Tasks : pc'[u] # "push"
    BY <1>12, <2>2 DEF StartFlow, approve_flow, TypeOK
  <2>. QED BY <2>3 DEF LoadedIsCurrent
<1>13. ASSUME NEW p \in Procs, Exit(p) PROVE LoadedIsCurrent'
  <2>1. p \in up /\ \A u \in Tasks : pc'[u] = IF ProcOf[u] = p THEN "off" ELSE pc[u]
    BY <1>13 DEF Exit
  <2>2. \A u \in Tasks : ProcOf[u] # p => pc[u] = "off"
    BY <2>1, Shapes DEF OneChange, TasksOK, TaskOK
  <2>. QED BY <2>1, <2>2 DEF LoadedIsCurrent
<1>14. CASE UNCHANGED vars
  BY <1>14, <1>k DEF vars, storeVars, flowVars
<1>. QED BY <1>1, <1>2, <1>5, <1>6, <1>7, <1>8, <1>9, <1>10, <1>11, <1>12, <1>13, <1>14 DEF Next, Task

\* The approver has the file's queue until its own save has emptied it.
LEMMA ApproverStep ==
  ASSUME TypeOK, TasksOK, TasksOK', OneChange, OneChange', ~Together,
         \A t \in Tasks : SaveIsAlone(t), ApproverQueue, [Next]_vars
  PROVE  ApproverQueue'
<1>a. approver \in Tasks /\ ProcOf[approver] = "approve" /\ TaskOK(approver)
  BY Shapes DEF TasksOK
<1>p. {"check", "send", "mark", "marking"} = AtSink
  BY DEF AtSink
<1>o. ASSUME pc'[approver] = "off" PROVE ApproverQueue'
  BY <1>o, <1>p DEF ApproverQueue
\* A step of a task of the flow: there is no approve.
<1>w. ASSUME NEW t \in Tasks \ {approver}, pc[t] # "off", pc'[approver] = pc[approver] PROVE ApproverQueue'
  BY <1>o, <1>w, Sole
<1>g. ASSUME NEW t \in Tasks \ {approver}, Following(t) \/ \E w : Goto(t, w) PROVE pc'[approver] = pc[approver]
  BY <1>a, <1>g DEF Following, Goto, TypeOK
<1>n. ASSUME NEW w, Goto(approver, w) PROVE pc'[approver] = w
  BY <1>a, <1>n DEF Goto, TypeOK
<1>f. ASSUME Following(approver) PROVE pc'[approver] = "inject"
  BY <1>n, <1>f DEF Following
<1>r. ASSUME Returns PROVE pc'[approver] = "off"
  BY <1>n, <1>r DEF Returns
\* A step of the approver outside of the taking: the queue in memory stays.
<1>k. ASSUME store(approver)'.queue = store(approver).queue, file'.data.queue = file.data.queue,
             pc[approver] \in AtSink \cup {"take", "inject"}, pc'[approver] \in AtSink \cup {"take", "inject"}
      PROVE  ApproverQueue'
  <2>1. store(approver)'.queue = file'.data.queue
    BY <1>k DEF ApproverQueue
  <2>. QED BY <1>k, <1>p, <2>1 DEF ApproverQueue
<1>1. ASSUME NEW t \in Tasks \ {approver}, Task(t), ~(persist(t) /\ UNCHANGED flowVars) PROVE ApproverQueue'
  <2>1. pc[t] # "off" /\ (Following(t) \/ \E w : Goto(t, w))
    BY <1>1 DEF Task, is_delivered, send, SendFails, mark_delivered, Marked, Pull, park_approve, Push, Parked
  <2>. QED BY <1>g, <1>w, <2>1
<1>2. ASSUME NEW t \in Tasks \ {approver}, persist(t), UNCHANGED flowVars PROVE ApproverQueue'
  <2>1. pc[t] # "off" /\ UNCHANGED pc
    BY <1>2, PersistAlone DEF flowVars
  <2>. QED BY <1>w, <2>1
<1>3. CASE is_delivered(approver) \/ send(approver) \/ SendFails(approver) \/ Marked(approver)
  <2>1. UNCHANGED <<entries, file>> /\ pc[approver] \in AtSink
    BY <1>3, <1>p, <1>a, EndedSpec DEF is_delivered, send, SendFails, Marked, storeVars
  <2>2. Following(approver) \/ Goto(approver, "send") \/ Goto(approver, "mark")
    BY <1>3 DEF is_delivered, send, SendFails, Marked
  <2>3. pc'[approver] \in AtSink \cup {"inject"}
    BY <1>f, <1>n, <1>p, <2>2
  <2>. QED BY <1>k, <2>1, <2>3 DEF store
<1>4. CASE mark_delivered(approver)
  <2>1. store(approver)'.queue = store(approver).queue /\ UNCHANGED file
    BY <1>4, <1>a, ChangeSpec
  <2>2. pc[approver] = "mark" /\ pc'[approver] = "marking"
    BY <1>4, <1>n DEF mark_delivered
  <2>. QED BY <1>k, <1>p, <2>1, <2>2
<1>5. ASSUME Pull(approver) \/ park_approve(approver) \/ Push(approver) \/ Parked(approver) PROVE FALSE
  BY <1>5, <1>a DEF Pull, park_approve, Push, Parked, TaskOK, ApproverPlaces, AtSink
<1>6. ASSUME persist(approver), UNCHANGED flowVars PROVE ApproverQueue'
  <2>1. UNCHANGED <<pc, held>>
    BY <1>6 DEF flowVars
  <2>2. /\ pc[approver] \in {"parking", "marking", "taking"}
        /\ save[approver].step # "ok" /\ entries' = entries
        /\ save'[approver].step # "ok" => file' = file
        /\ save'[approver].step = "ok" => file'.data = store(approver)
    BY <1>6, <1>a, PersistAlone
  <2>3. pc[approver] # "parking"
    BY <1>a DEF TaskOK, ApproverPlaces, AtSink
  <2>4. store(approver)' = store(approver)
    BY <2>2 DEF store
  <2>5. CASE pc[approver] = "marking"
    <3>1. file'.data.queue = file.data.queue
      BY <1>p, <2>2, <2>5 DEF ApproverQueue
    <3>. QED BY <1>k, <1>p, <2>1, <2>4, <2>5, <3>1
  <2>6. CASE pc[approver] = "taking"
    BY <1>p, <2>1, <2>2, <2>4, <2>6 DEF ApproverQueue
  <2>. QED BY <2>2, <2>3, <2>5, <2>6
<1>7. CASE take_approve_queue
  <2>1. /\ UNCHANGED <<entries, file>> /\ held' = [held EXCEPT ![approver] = store(approver).queue]
        /\ pc[approver] = "take" /\ pc'[approver] = "delete"
    BY <1>7, <1>n DEF take_approve_queue, storeVars
  <2>2. held'[approver] = store(approver).queue
    BY <1>a, <2>1 DEF TypeOK
  <2>. QED BY <1>p, <2>1, <2>2 DEF ApproverQueue
<1>8. CASE Delete
  <2>1. UNCHANGED held /\ pc[approver] = "delete" /\ pc'[approver] = "taking"
    BY <1>8, <1>n DEF Delete
  <2>2. store(approver)'.queue = <<>> /\ UNCHANGED file
    BY <1>8, <1>a, ChangeSpec
  <2>. QED BY <1>p, <2>1, <2>2 DEF ApproverQueue
<1>9. CASE Taken
  <2>1. Ended(approver)
    BY <1>9 DEF Taken
  <2>2. UNCHANGED <<entries, file>>
    BY <1>a, <2>1, EndedSpec
  <2>3. CASE save[approver].step = "ok"
    <3>1. file.data = store(approver)
      BY <1>a, <2>3 DEF SaveIsAlone
    <3>2. pc'[approver] = "inject"
      BY <1>9, <1>n, <2>3 DEF Taken
    <3>. QED BY <1>p, <2>2, <3>1, <3>2 DEF ApproverQueue, store
  <2>4. CASE save[approver].step # "ok"
    BY <1>9, <1>o, <1>r, <2>4 DEF Taken
  <2>. QED BY <2>3, <2>4
<1>10. CASE approve_pending
  <2>1. UNCHANGED <<entries, file>> /\ pc[approver] = "inject"
    BY <1>10 DEF approve_pending, storeVars
  <2>2. CASE Returns
    BY <1>o, <1>r, <2>2
  <2>3. CASE Goto(approver, "check")
    BY <1>k, <1>n, <1>p, <2>1, <2>3 DEF store
  <2>. QED BY <1>10, <2>2, <2>3 DEF approve_pending
<1>11. CASE InjectFails
  BY <1>o, <1>r, <1>11 DEF InjectFails
<1>12. CASE StartFlow
  <2>1. up = {} /\ pc'[approver] = pc[approver]
    BY <1>12, <1>a DEF StartFlow, Workers
  <2>. QED BY <1>a, <1>o, <2>1 DEF TaskOK
<1>13. CASE approve_flow
  <2>1. entries' = new("approve") /\ UNCHANGED file /\ pc'[approver] = "take"
    BY <1>13, <1>a DEF approve_flow, TypeOK
  <2>2. store(approver)' = file.data
    BY <1>a, <2>1, Shapes DEF new, store, TypeOK
  <2>. QED BY <1>p, <2>1, <2>2 DEF ApproverQueue
<1>14. ASSUME NEW p \in Procs, Exit(p) PROVE ApproverQueue'
  <2>1. p \in up /\ pc'[approver] = IF p = "approve" THEN "off" ELSE pc[approver]
    BY <1>14, <1>a DEF Exit
  <2>2. p # "approve" => pc[approver] = "off"
    BY <1>a, <2>1, Shapes DEF OneChange, TaskOK
  <2>. QED BY <1>o, <2>1, <2>2
<1>15. CASE UNCHANGED vars
  BY <1>15 DEF vars, storeVars, flowVars, ApproverQueue, store
<1>16. ASSUME NEW t \in Tasks, Task(t) PROVE ApproverQueue'
  <2>1. CASE t # approver
    BY <1>1, <1>2, <1>16, <2>1
  <2>2. CASE t = approver
    BY <1>3, <1>4, <1>5, <1>6, <1>16, <2>2 DEF Task
  <2>. QED BY <2>1, <2>2
<1>. QED BY <1>7, <1>8, <1>9, <1>10, <1>11, <1>12, <1>13, <1>14, <1>15, <1>16 DEF Next

\* The memory of the flow keeps accounting for what was parked.
LEMMA MemoryStep ==
  ASSUME TypeOK, TasksOK, OneChange, ~Together, ~raced, LoadedIsCurrent, MemoryAccounts, QueueAccountsForParks, [Next]_vars
  PROVE  MemoryAccounts'
<1>t. /\ approver \in Tasks /\ "flow" \in Procs
      /\ \A t \in Tasks \ {approver} : ProcOf[t] = "flow"
      /\ entries["flow"].queue \in Seq(Records) /\ file.data.queue \in Seq(Records)
  BY Shapes DEF TypeOK, Entries, Contents
<1>n. \A r \in Records : /\ acks[r] \in Nat /\ takes[r] \in Nat /\ parks[r] \in Nat /\ Parking(r) \in {0, 1}
                         /\ Count(entries["flow"].queue, r) \in Nat /\ Count(file.data.queue, r) \in Nat
  BY <1>t, CountType DEF TypeOK, Parking
<1>v. ASSUME "flow" \notin up' PROVE MemoryAccounts'
  BY <1>v DEF MemoryAccounts
<1>k. ASSUME up' \subseteq up, UNCHANGED <<acks, takes, parks>>, entries'["flow"].queue = entries["flow"].queue,
             \A u \in Tasks : (pc'[u] = "parking" <=> pc[u] = "parking") /\ (pc[u] = "parking" => rec'[u] = rec[u])
      PROVE  MemoryAccounts'
  <2>1. \A r \in Records : Parking(r)' = Parking(r)
    BY <1>k DEF Parking
  <2>. QED BY <1>k, <2>1 DEF MemoryAccounts
<1>a. ASSUME pc[approver] # "off", up' \subseteq up PROVE MemoryAccounts'
  BY <1>a, <1>t, <1>v, Sole
<1>1. ASSUME NEW t \in Tasks, is_delivered(t) \/ send(t) \/ SendFails(t) \/ Pull(t) \/ park_approve(t) PROVE MemoryAccounts'
  <2>1. UNCHANGED <<entries, acks, takes, parks, up>> /\ pc[t] # "parking"
    BY <1>1 DEF is_delivered, send, SendFails, Pull, park_approve, storeVars, ghostVars
  <2>2. \E w : w # "parking" /\ pc' = [pc EXCEPT ![t] = w]
    BY <1>1 DEF is_delivered, send, SendFails, Pull, park_approve, Following, Goto
  <2>3. rec' = rec \/ \E r : rec' = [rec EXCEPT ![t] = r]
    BY <1>1 DEF is_delivered, send, SendFails, Pull, park_approve, Following
  <2>4. \A u \in Tasks : (pc'[u] = "parking" <=> pc[u] = "parking") /\ (pc[u] = "parking" => rec'[u] = rec[u])
    BY <2>1, <2>2, <2>3 DEF TypeOK
  <2>. QED BY <1>k, <2>1, <2>4
<1>2. ASSUME NEW t \in Tasks, mark_delivered(t) PROVE MemoryAccounts'
  <2>1. UNCHANGED <<acks, takes, parks, up, rec>> /\ pc[t] = "mark" /\ Goto(t, "marking")
    BY <1>2 DEF mark_delivered
  <2>2. \A u \in Tasks : pc'[u] = "parking" <=> pc[u] = "parking"
    BY <2>1 DEF Goto, TypeOK
  <2>3. /\ store(t)'.queue = store(t).queue
        /\ \A p \in Procs \ {ProcOf[t]} : entries'[p] = entries[p]
    BY <1>2, ChangeSpec
  <2>4. entries'["flow"].queue = entries["flow"].queue
    BY <1>t, <2>3 DEF store
  <2>. QED BY <1>k, <2>1, <2>2, <2>4
<1>3. ASSUME NEW t \in Tasks, Marked(t) PROVE MemoryAccounts'
  <2>1. UNCHANGED <<acks, takes, parks, up>> /\ pc[t] = "marking" /\ Following(t) /\ Ended(t)
    BY <1>3 DEF Marked, ghostVars
  <2>2. \A u \in Tasks : (pc'[u] = "parking" <=> pc[u] = "parking") /\ (pc[u] = "parking" => rec'[u] = rec[u])
    BY <2>1 DEF Following, Goto, TypeOK
  <2>. QED BY <1>k, <2>1, <2>2, EndedSpec
<1>4. ASSUME NEW t \in Tasks, Push(t) PROVE MemoryAccounts'
  <2>1. /\ UNCHANGED <<acks, takes, up, rec>> /\ pc[t] = "push" /\ Goto(t, "parking")
        /\ parks' = Inc(parks, rec[t])
    BY <1>4 DEF Push
  <2>2. t # approver /\ held[t] = entries["flow"].queue
    <3>1. t # approver
      BY <2>1 DEF TasksOK, TaskOK, ApproverPlaces, AtSink
    <3>. QED BY <1>t, <2>1, <3>1 DEF LoadedIsCurrent, store
  <2>3. rec[t] \in Records /\ entries'["flow"].queue = Append(entries["flow"].queue, rec[t])
    <3>1. rec[t] \in Records /\ store(t)'.queue = Append(held[t], rec[t])
      BY <1>4, ChangeSpec
    <3>. QED BY <1>t, <2>2, <3>1 DEF store
  <2>4. \A u \in Tasks : (pc'[u] = "parking" <=> u = t) /\ pc[u] # "parking"
    <3>1. \A u \in Tasks \ {t} : ~Changing(u)
      BY <2>1, Sole DEF Changing
    <3>. QED BY <2>1, <3>1 DEF Changing, Goto, TypeOK
  <2>5. ASSUME NEW r \in Records
        PROVE  /\ acks[r] + Parking(r)' <= takes[r] + Count(entries["flow"].queue, r)'
               /\ takes[r] + Count(entries["flow"].queue, r)' <= parks'[r]
    <3>1. Count(entries["flow"].queue, r)' = Count(entries["flow"].queue, r) + (IF rec[t] = r THEN 1 ELSE 0)
      <4>1. PICK q \in Seq(Records), x \in Records : q = entries["flow"].queue /\ x = rec[t]
        BY <1>t, <2>3
      <4>2. Count(Append(q, x), r) = Count(q, r) + (IF x = r THEN 1 ELSE 0)
        BY CountAppend
      <4>3. entries'["flow"].queue = Append(q, x)
        BY <2>3, <4>1
      <4>. QED BY <4>1, <4>2, <4>3
    <3>2. Parking(r) = 0 /\ Parking(r)' = IF rec[t] = r THEN 1 ELSE 0
      BY <2>1, <2>4 DEF Parking
    <3>3. parks'[r] = parks[r] + (IF rec[t] = r THEN 1 ELSE 0)
      BY <2>1, <2>3 DEF Inc, TypeOK
    <3>4. "flow" \in up
      BY <2>1, <2>2, Sole
    <3>5. /\ acks[r] + Parking(r) <= takes[r] + Count(entries["flow"].queue, r)
          /\ takes[r] + Count(entries["flow"].queue, r) <= parks[r]
      BY <3>4 DEF MemoryAccounts
    <3>. QED BY <1>n, <3>1, <3>2, <3>3, <3>5
  <2>. QED BY <2>1, <2>5 DEF MemoryAccounts
<1>5. ASSUME NEW t \in Tasks, Parked(t) PROVE MemoryAccounts'
  <2>1. /\ UNCHANGED <<takes, parks, up>> /\ pc[t] = "parking" /\ Following(t) /\ Ended(t)
        /\ acks' = acks \/ acks' = Inc(acks, rec[t])
    BY <1>5 DEF Parked
  <2>2. UNCHANGED entries
    BY <2>1, EndedSpec
  <2>3. \A u \in Tasks : (pc[u] = "parking" <=> u = t) /\ pc'[u] # "parking"
    <3>1. \A u \in Tasks \ {t} : ~Changing(u)
      BY <2>1, Sole DEF Changing
    <3>. QED BY <2>1, <3>1 DEF Changing, Following, Goto, TypeOK
  <2>4. ASSUME NEW r \in Records
        PROVE  acks'[r] + Parking(r)' <= acks[r] + Parking(r) /\ acks'[r] \in Nat /\ Parking(r)' \in {0, 1}
    <3>1. Parking(r)' = 0 /\ Parking(r) = IF rec[t] = r THEN 1 ELSE 0
      BY <2>3 DEF Parking
    <3>2. acks'[r] \in {acks[r], acks[r] + (IF rec[t] = r THEN 1 ELSE 0)}
      BY <1>n, <2>1 DEF Inc, TypeOK
    <3>. QED BY <1>n, <3>1, <3>2
  <2>. QED BY <1>n, <2>1, <2>2, <2>4 DEF MemoryAccounts
<1>6. ASSUME NEW t \in Tasks, persist(t), UNCHANGED flowVars PROVE MemoryAccounts'
  BY <1>6, <1>k, PersistSaves DEF flowVars, ghostVars
<1>7. CASE take_approve_queue \/ Delete \/ Taken \/ approve_pending \/ InjectFails
  <2>1. pc[approver] # "off" /\ up' \subseteq up
    BY <1>7 DEF take_approve_queue, Delete, Taken, approve_pending, InjectFails, Returns
  <2>. QED BY <1>a, <2>1
<1>8. CASE StartFlow
  <2>1. up = {} /\ entries' = new("flow") /\ UNCHANGED <<acks, takes, parks>>
    BY <1>8 DEF StartFlow
  <2>2. \A u \in Tasks : pc[u] = "off"
    BY <2>1 DEF TasksOK, TaskOK
  <2>3. \A u \in Tasks : pc'[u] # "parking"
    BY <1>8, <2>2 DEF StartFlow
  <2>4. entries'["flow"] = file.data
    BY <1>t, <2>1 DEF new, TypeOK
  <2>5. ASSUME NEW r \in Records
        PROVE  /\ acks[r] + Parking(r)' <= takes[r] + Count(file.data.queue, r)
               /\ takes[r] + Count(file.data.queue, r) <= parks[r]
    <3>1. Parking(r)' = 0
      BY <2>3 DEF Parking
    <3>2. /\ acks[r] <= takes[r] + 0 + Count(file.data.queue, r)
          /\ takes[r] + 0 + Count(file.data.queue, r) <= parks[r]
      BY <1>t, <2>2 DEF QueueAccountsForParks, Orderly
    <3>. QED BY <1>n, <3>1, <3>2
  <2>. QED BY <2>1, <2>4, <2>5 DEF MemoryAccounts
<1>9. CASE approve_flow
  <2>1. "flow" \notin up'
    BY <1>9 DEF approve_flow
  <2>. QED BY <1>v, <2>1
<1>10. ASSUME NEW p \in Procs, Exit(p) PROVE MemoryAccounts'
  <2>1. p \in up /\ up' = up \ {p}
    BY <1>10 DEF Exit
  <2>2. "flow" \notin up'
    BY <2>1, Shapes DEF OneChange
  <2>. QED BY <1>v, <2>2
<1>11. CASE UNCHANGED vars
  BY <1>11, <1>k DEF vars, storeVars, flowVars, ghostVars
<1>. QED BY <1>1, <1>2, <1>3, <1>4, <1>5, <1>6, <1>7, <1>8, <1>9, <1>10, <1>11 DEF Next, Task

\* So does the file, whatever step of a save, crash or failure comes.
LEMMA QueueStep ==
  ASSUME TypeOK, TasksOK, OneChange, ~Together, ~raced, \A t \in Tasks : SaveIsAlone(t),
         ApproverQueue, MemoryAccounts, QueueAccountsForParks, [Next]_vars
  PROVE  QueueAccountsForParks'
<1>t. /\ approver \in Tasks /\ "flow" \in Procs /\ ProcOf[approver] = "approve" /\ TaskOK(approver)
      /\ \A t \in Tasks \ {approver} : ProcOf[t] = "flow"
      /\ entries["flow"].queue \in Seq(Records) /\ file.data.queue \in Seq(Records) /\ held[approver] \in Seq(Records)
  BY Shapes DEF TypeOK, TasksOK, Entries, Contents
<1>n. \A r \in Records : /\ acks[r] \in Nat /\ takes[r] \in Nat /\ parks[r] \in Nat /\ Parking(r) \in {0, 1}
                         /\ Count(entries["flow"].queue, r) \in Nat /\ Count(file.data.queue, r) \in Nat
                         /\ Count(held[approver], r) \in Nat /\ TakenBy(r) \in Nat
  BY <1>t, CountType DEF TypeOK, Parking, TakenBy
<1>q. \A r \in Records : acks[r] <= TakenBy(r) + Count(file.data.queue, r) /\ TakenBy(r) + Count(file.data.queue, r) <= parks[r]
  BY DEF QueueAccountsForParks, Orderly, TakenBy
<1>s. ASSUME \A r \in Records : /\ acks'[r] <= TakenBy(r)' + Count(file.data.queue, r)'
                                /\ TakenBy(r)' + Count(file.data.queue, r)' <= parks'[r]
      PROVE  QueueAccountsForParks'
  BY <1>s DEF QueueAccountsForParks, TakenBy
<1>k. ASSUME UNCHANGED <<acks, parks, file>>, \A r \in Records : TakenBy(r)' = TakenBy(r) PROVE QueueAccountsForParks'
  BY <1>k, <1>q, <1>s
\* A step of a task of the flow: there is no approve.
<1>w. ASSUME NEW t \in Tasks \ {approver}, pc[t] # "off", pc'[approver] = pc[approver], UNCHANGED takes
      PROVE  /\ "flow" \in up /\ \A r \in Records : TakenBy(r)' = takes[r] /\ TakenBy(r) = takes[r]
             /\ \A r \in Records : acks[r] <= takes[r] + Count(file.data.queue, r) /\ takes[r] + Count(file.data.queue, r) <= parks[r]
  <2>1. pc[approver] = "off" /\ "flow" \in up
    BY <1>w, Sole
  <2>2. \A r \in Records : TakenBy(r)' = takes[r] /\ TakenBy(r) = takes[r]
    BY <1>n, <1>w, <2>1 DEF TakenBy
  <2>. QED BY <1>q, <2>1, <2>2
<1>g. ASSUME NEW t \in Tasks, NEW w, Goto(t, w) PROVE pc'[approver] = IF t = approver THEN w ELSE pc[approver]
  BY <1>t, <1>g DEF Goto, TypeOK
<1>f. ASSUME NEW t \in Tasks, Following(t) PROVE pc'[approver] = IF t = approver THEN "inject" ELSE pc[approver]
  BY <1>g, <1>f DEF Following
<1>o. ASSUME UNCHANGED takes, pc[approver] # "taking" \/ save[approver].step # "ok",
             pc'[approver] # "taking" \/ save'[approver].step # "ok"
      PROVE  \A r \in Records : TakenBy(r)' = TakenBy(r)
  BY <1>o DEF TakenBy
<1>1. ASSUME NEW t \in Tasks, is_delivered(t) \/ send(t) \/ SendFails(t) \/ Pull(t) \/ park_approve(t) \/ mark_delivered(t) \/ Marked(t)
      PROVE  QueueAccountsForParks'
  <2>1. UNCHANGED <<acks, parks, takes>>
    BY <1>1 DEF is_delivered, send, SendFails, Pull, park_approve, mark_delivered, Marked, ghostVars
  <2>2. UNCHANGED file
    BY <1>1, ChangeSpec, EndedSpec DEF is_delivered, send, SendFails, Pull, park_approve, Marked, storeVars
  <2>3. pc[t] \notin {"off", "taking"} /\ (Following(t) \/ \E w : w # "taking" /\ Goto(t, w))
    BY <1>1 DEF is_delivered, send, SendFails, Pull, park_approve, mark_delivered, Marked
  <2>4. CASE t = approver
    <3>1. pc'[approver] # "taking"
      BY <1>f, <1>g, <2>3, <2>4
    <3>. QED BY <1>k, <1>o, <2>1, <2>2, <2>3, <2>4, <3>1
  <2>5. CASE t # approver
    <3>1. pc'[approver] = pc[approver]
      BY <1>f, <1>g, <2>3, <2>5
    <3>. QED BY <1>k, <1>w, <2>1, <2>2, <2>3, <2>5, <3>1
  <2>. QED BY <2>4, <2>5
<1>2. ASSUME NEW t \in Tasks, Push(t) PROVE QueueAccountsForParks'
  <2>1. UNCHANGED <<acks, takes>> /\ pc[t] = "push" /\ Goto(t, "parking") /\ parks' = Inc(parks, rec[t])
    BY <1>2 DEF Push
  <2>2. t # approver /\ pc'[approver] = pc[approver]
    <3>1. t # approver
      BY <2>1 DEF TasksOK, TaskOK, ApproverPlaces, AtSink
    <3>. QED BY <1>g, <2>1, <3>1
  <2>3. UNCHANGED file
    BY <1>2, ChangeSpec
  <2>4. \A r \in Records : parks'[r] \in {parks[r], parks[r] + 1}
    BY <2>1 DEF Inc, TypeOK
  <2>5. /\ \A r \in Records : TakenBy(r)' = takes[r]
        /\ \A r \in Records : acks[r] <= takes[r] + Count(file.data.queue, r) /\ takes[r] + Count(file.data.queue, r) <= parks[r]
    BY <1>w, <2>1, <2>2
  <2>6. \A r \in Records : takes[r] + Count(file.data.queue, r) <= parks'[r]
    BY <1>n, <2>4, <2>5
  <2>. QED BY <1>s, <2>1, <2>3, <2>5, <2>6
<1>3. ASSUME NEW t \in Tasks, Parked(t) PROVE QueueAccountsForParks'
  <2>1. /\ UNCHANGED <<takes, parks>> /\ pc[t] = "parking" /\ Following(t) /\ Ended(t)
        /\ acks' = IF save[t].step = "ok" THEN Inc(acks, rec[t]) ELSE acks
    BY <1>3 DEF Parked
  <2>2. t # approver /\ pc'[approver] = pc[approver]
    <3>1. t # approver
      BY <2>1 DEF TasksOK, TaskOK, ApproverPlaces, AtSink
    <3>. QED BY <1>f, <2>1, <3>1
  <2>3. UNCHANGED file
    BY <2>1, EndedSpec
  <2>4. /\ "flow" \in up /\ \A r \in Records : TakenBy(r)' = takes[r]
        /\ \A r \in Records : acks[r] <= takes[r] + Count(file.data.queue, r) /\ takes[r] + Count(file.data.queue, r) <= parks[r]
    BY <1>w, <2>1, <2>2
  <2>5. ASSUME NEW r \in Records PROVE acks'[r] <= takes[r] + Count(file.data.queue, r)
    <3>1. CASE save[t].step = "ok"
      <4>1. file.data = entries["flow"]
        BY <1>t, <2>2, <3>1 DEF SaveIsAlone, store
      <4>2. acks[r] + Parking(r) <= takes[r] + Count(file.data.queue, r)
        BY <2>4, <4>1 DEF MemoryAccounts
      <4>3. rec[t] = r => Parking(r) = 1
        BY <2>1 DEF Parking
      <4>4. acks'[r] = acks[r] + (IF rec[t] = r THEN 1 ELSE 0)
        BY <1>n, <2>1, <3>1 DEF Inc, TypeOK
      <4>. QED BY <1>n, <4>2, <4>3, <4>4
    <3>2. CASE save[t].step # "ok"
      BY <2>1, <2>4, <3>2
    <3>. QED BY <3>1, <3>2
  <2>. QED BY <1>s, <2>1, <2>3, <2>4, <2>5
<1>4. ASSUME NEW t \in Tasks, persist(t), UNCHANGED flowVars PROVE QueueAccountsForParks'
  <2>1. UNCHANGED <<acks, parks, takes, pc, rec, held>>
    BY <1>4 DEF flowVars, ghostVars
  <2>2. /\ pc[t] \in {"parking", "marking", "taking"} /\ save[t].step # "ok"
        /\ save'[t].step # "ok" => file' = file
        /\ save'[t].step = "ok" => file'.data = store(t)
    BY <1>4, PersistAlone
  <2>3. CASE t # approver
    <3>1. /\ "flow" \in up /\ \A r \in Records : TakenBy(r)' = takes[r] /\ TakenBy(r) = takes[r]
      BY <1>w, <2>1, <2>2, <2>3
    <3>2. CASE save'[t].step # "ok"
      BY <1>k, <2>1, <2>2, <3>1, <3>2
    <3>3. CASE save'[t].step = "ok"
      <4>1. file'.data = entries["flow"]
        BY <1>t, <2>2, <2>3, <3>3 DEF store
      <4>2. \A r \in Records : /\ acks[r] <= takes[r] + Count(entries["flow"].queue, r)
                               /\ takes[r] + Count(entries["flow"].queue, r) <= parks[r]
        BY <1>n, <3>1 DEF MemoryAccounts
      <4>. QED BY <1>s, <2>1, <3>1, <4>1, <4>2
    <3>. QED BY <3>2, <3>3
  <2>4. CASE t = approver
    <3>0. pc[approver] # "parking"
      BY <1>t DEF TaskOK, ApproverPlaces, AtSink
    <3>1. CASE pc[approver] = "marking"
      <4>1. file'.data.queue = file.data.queue
        BY <2>2, <2>4, <3>1 DEF ApproverQueue, AtSink
      <4>2. \A r \in Records : TakenBy(r)' = TakenBy(r)
        BY <1>o, <2>1, <3>1
      <4>. QED BY <1>q, <1>s, <2>1, <4>1, <4>2
    <3>2. CASE pc[approver] = "taking" /\ save'[approver].step # "ok"
      BY <1>k, <1>o, <2>1, <2>2, <2>4, <3>2
    <3>3. CASE pc[approver] = "taking" /\ save'[approver].step = "ok"
      <4>1. file'.data.queue = <<>> /\ held[approver] = file.data.queue
        BY <2>2, <2>4, <3>3 DEF ApproverQueue
      <4>2. ASSUME NEW r \in Records
            PROVE  TakenBy(r)' = takes[r] + Count(file.data.queue, r) /\ Count(file.data.queue, r)' = 0 /\ TakenBy(r) = takes[r]
        <5>1. Count(file.data.queue, r)' = 0
          BY <4>1, CountEmpty
        <5>2. TakenBy(r)' = takes[r] + Count(held[approver], r)
          BY <2>1, <3>3 DEF TakenBy
        <5>3. TakenBy(r) = takes[r]
          BY <1>n, <2>2, <2>4 DEF TakenBy
        <5>. QED BY <4>1, <5>1, <5>2, <5>3
      <4>3. ASSUME NEW r \in Records PROVE TakenBy(r)' + Count(file.data.queue, r)' = TakenBy(r) + Count(file.data.queue, r)
        BY <1>n, <4>2
      <4>. QED BY <1>q, <1>s, <2>1, <4>3
    <3>. QED BY <2>2, <2>4, <3>0, <3>1, <3>2, <3>3
  <2>. QED BY <2>3, <2>4
<1>5. CASE take_approve_queue
  <2>1. UNCHANGED <<acks, parks, takes, file>> /\ pc[approver] = "take" /\ Goto(approver, "delete")
    BY <1>5 DEF take_approve_queue, storeVars, ghostVars
  <2>2. pc'[approver] = "delete"
    BY <1>g, <1>t, <2>1
  <2>. QED BY <1>k, <1>o, <2>1, <2>2
<1>6. CASE Delete
  <2>1. UNCHANGED <<acks, parks, takes>> /\ pc[approver] = "delete"
    BY <1>6 DEF Delete, ghostVars
  <2>2. UNCHANGED file /\ save'[approver].step = "snapshot"
    BY <1>6, <1>t, ChangeSpec
  <2>. QED BY <1>k, <1>o, <2>1, <2>2
<1>7. CASE Taken
  <2>1. UNCHANGED <<acks, parks>> /\ pc[approver] = "taking" /\ Ended(approver)
    BY <1>7 DEF Taken
  <2>2. UNCHANGED file
    BY <1>t, <2>1, EndedSpec
  <2>3. CASE save[approver].step = "ok"
    <3>1. takes' = TakesHeld /\ pc'[approver] = "inject"
      BY <1>7, <1>g, <1>t, <2>3 DEF Taken
    <3>2. \A r \in Records : TakenBy(r)' = TakenBy(r)
      <4>1. \A r \in Records : takes'[r] = takes[r] + Count(held[approver], r)
        BY <3>1 DEF TakesHeld
      <4>2. \A r \in Records : TakenBy(r)' = takes'[r] + 0 /\ TakenBy(r) = takes[r] + Count(held[approver], r)
        BY <2>1, <2>3, <3>1 DEF TakenBy
      <4>. QED BY <1>n, <4>1, <4>2
    <3>. QED BY <1>k, <2>1, <2>2, <3>2
  <2>4. CASE save[approver].step # "ok"
    <3>1. UNCHANGED takes /\ pc'[approver] = "off"
      BY <1>7, <1>g, <1>t, <2>4 DEF Taken, Returns
    <3>. QED BY <1>k, <1>o, <2>1, <2>2, <2>4, <3>1
  <2>. QED BY <2>3, <2>4
<1>8. CASE approve_pending \/ InjectFails
  <2>1. UNCHANGED <<acks, parks, takes, file>> /\ pc[approver] # "taking" /\ (Goto(approver, "check") \/ Goto(approver, "off"))
    BY <1>8 DEF approve_pending, InjectFails, Returns, storeVars, ghostVars
  <2>2. pc'[approver] # "taking"
    BY <1>g, <1>t, <2>1
  <2>. QED BY <1>k, <1>o, <2>1, <2>2
<1>9. CASE StartFlow \/ approve_flow
  <2>1. UNCHANGED <<acks, parks, takes, file>> /\ up = {}
    BY <1>9 DEF StartFlow, approve_flow
  <2>2. pc[approver] = "off"
    BY <1>t, <2>1 DEF TaskOK
  <2>3. pc'[approver] # "taking"
    BY <1>9, <1>t, <2>2 DEF StartFlow, approve_flow, Workers, TypeOK
  <2>. QED BY <1>k, <1>o, <2>1, <2>2, <2>3
<1>10. ASSUME NEW p \in Procs, Exit(p) PROVE QueueAccountsForParks'
  <2>1. /\ UNCHANGED <<acks, parks, file>> /\ p \in up
        /\ takes' = IF p = "approve" /\ pc[approver] = "taking" /\ save[approver].step = "ok" THEN TakesHeld ELSE takes
        /\ pc'[approver] = IF p = "approve" THEN "off" ELSE pc[approver]
    BY <1>10, <1>t DEF Exit
  <2>2. CASE p = "approve" /\ pc[approver] = "taking" /\ save[approver].step = "ok"
    <3>1. \A r \in Records : takes'[r] = takes[r] + Count(held[approver], r)
      BY <2>1, <2>2 DEF TakesHeld
    <3>2. \A r \in Records : TakenBy(r)' = takes'[r] + 0 /\ TakenBy(r) = takes[r] + Count(held[approver], r)
      BY <2>1, <2>2 DEF TakenBy
    <3>3. \A r \in Records : TakenBy(r)' = TakenBy(r)
      BY <1>n, <3>1, <3>2
    <3>. QED BY <1>k, <2>1, <3>3
  <2>3. CASE ~(p = "approve" /\ pc[approver] = "taking" /\ save[approver].step = "ok")
    <3>1. p # "approve" => pc[approver] = "off"
      BY <1>t, <2>1, Shapes DEF OneChange, TaskOK
    <3>2. UNCHANGED takes /\ pc'[approver] = "off"
      BY <2>1, <2>3, <3>1
    <3>. QED BY <1>k, <1>o, <2>1, <2>3, <3>1, <3>2
  <2>. QED BY <2>2, <2>3
<1>11. CASE UNCHANGED vars
  <2>1. UNCHANGED <<acks, parks, takes, file, pc, save, held>>
    BY <1>11 DEF vars, storeVars, flowVars, ghostVars
  <2>2. \A r \in Records : TakenBy(r)' = TakenBy(r)
    BY <2>1 DEF TakenBy
  <2>. QED BY <1>k, <2>1, <2>2
<1>. QED BY <1>1, <1>2, <1>3, <1>4, <1>5, <1>6, <1>7, <1>8, <1>9, <1>10, <1>11 DEF Next, Task

-----------------------------------------------------------------------------
(* The invariant and what follows from it. *)

\* No process is up, no file exists, nothing was parked.
LEMMA InitHolds == Init => IInv
<1> SUFFICES ASSUME Init PROVE IInv
  OBVIOUS
<1>1. TypeOK
  <2>1. <<>> \in Seq(Records)
    OBVIOUS
  <2>. QED BY <2>1, Shapes DEF Init, TypeOK, WorkerPlaces
<1>2. TasksOK
  BY Shapes DEF Init, TasksOK, TaskOK, WorkerPlaces, ApproverPlaces, AtSink
<1>3. NoEntries.marks = {} /\ NoEntries.queue = <<>> /\ Absent.data = NoEntries /\ Idle.data = NoEntries
  BY DEF NoEntries, Absent, Idle
<1>4. MarksAreSent
  BY <1>3 DEF Init, MarksAreSent
<1>5. TakenIsUnderWay
  BY DEF Init, TakenIsUnderWay
<1>6. Alone
  BY Shapes DEF Init, Alone, OneChange, Changing, SaveIsAlone, LoadedIsCurrent, ApproverQueue, MemoryAccounts, AtSink
<1>7. QueueAccountsForParks
  <2>1. \A r \in Records : Count(file.data.queue, r) = 0
    BY <1>3, CountEmpty DEF Init
  <2>2. \A r \in Records : acks[r] = 0 /\ takes[r] = 0 /\ parks[r] = 0
    BY DEF Init
  <2>3. pc[approver] # "taking"
    BY Shapes DEF Init
  <2>. QED BY <2>1, <2>2, <2>3 DEF QueueAccountsForParks
<1>. QED BY <1>1, <1>2, <1>4, <1>5, <1>6, <1>7 DEF IInv

\* Every step keeps the invariant.
LEMMA StepHolds == IInv /\ [Next]_vars => IInv'
<1> SUFFICES ASSUME IInv, [Next]_vars PROVE IInv'
  OBVIOUS
<1>1. TypeOK /\ TasksOK /\ MarksAreSent /\ TakenIsUnderWay
  BY DEF IInv
<1>2. TypeOK' /\ TasksOK' /\ MarksAreSent' /\ TakenIsUnderWay'
  BY <1>1, TypeStep, TasksStep, MarksStep, TakenStep
<1>3. ASSUME ~Together, ~raced' PROVE Alone' /\ QueueAccountsForParks'
  <2>1. ~raced
    BY <1>3, RacedStays
  <2>2. OneChange /\ (\A t \in Tasks : SaveIsAlone(t)) /\ LoadedIsCurrent /\ ApproverQueue /\ MemoryAccounts /\ QueueAccountsForParks
    BY <1>3, <2>1 DEF IInv, Orderly, Alone
  <2>3. OneChange'
    BY <1>1, <1>3, <2>2, OneChangeStep
  <2>4. \A t \in Tasks : SaveIsAlone(t)'
    BY <1>1, <1>2, <1>3, <2>2, <2>3, SavesStep
  <2>5. LoadedIsCurrent'
    BY <1>1, <1>2, <1>3, <2>2, <2>3, LoadedStep
  <2>6. ApproverQueue'
    BY <1>1, <1>2, <1>3, <2>2, <2>3, ApproverStep
  <2>7. MemoryAccounts'
    BY <1>1, <1>3, <2>1, <2>2, MemoryStep
  <2>8. QueueAccountsForParks'
    BY <1>1, <1>3, <2>1, <2>2, QueueStep
  <2>. QED BY <2>3, <2>4, <2>5, <2>6, <2>7, <2>8 DEF Alone
<1>. QED BY <1>2, <1>3 DEF IInv, Orderly

\* Whatever the processes do, die or fail to write: the tasks are in order, marks are of
\* records at the sink, and what was taken is under way; and one change at a time keeps
\* the file, the memory and the counts together.
THEOREM Invariance == Spec => []IInv
<1>1. Init => IInv
  BY InitHolds
<1>2. IInv /\ [Next]_vars => IInv'
  BY StepHolds
<1>. QED BY <1>1, <1>2, PTL DEF Spec

\* approve_pending, for any records, tasks and bounds, the flow running beside it or
\* not: what an approve has taken out of the store is at the sink, or counted as an
\* error there, once it has returned, unless one was killed or failed.
THEOREM ApprovedReachesSink == Spec => []ApprovedIsDelivered
<1>1. IInv => ApprovedIsDelivered
  <2> SUFFICES ASSUME IInv, "approve" \notin up, ~aborted, NEW r \in Records, takes[r] > 0
               PROVE  r \in output \cup failed
    BY DEF ApprovedIsDelivered
  <2>1. pc[approver] = "off"
    BY Shapes DEF IInv, TasksOK, TaskOK
  <2>. QED BY <2>1 DEF IInv, TakenIsUnderWay, AtSink
<1>. QED BY <1>1, Invariance, PTL

\* persist.rs and control.rs, when approve is only called while the flow is down: as
\* long as one task at a time changes the store, crashes and failing writes lose no
\* record that was reported as waiting and bring none back.
THEOREM ParkedIsKept ==
  ASSUME ~Together
  PROVE  Spec => []QueueAccountsForParks
<1>1. IInv => QueueAccountsForParks
  BY DEF IInv, QueueAccountsForParks
<1>. QED BY <1>1, Invariance, PTL

\* JsonFileStore::persist, when approve is only called while the flow is down: as long
\* as one task at a time changes the store, the file only ever goes from one set of
\* entries to the ones the saving process has, by a rename.
THEOREM FileIsReplaced ==
  ASSUME ~Together
  PROVE  Spec => SavesAreAtomic
<1>1. ASSUME IInv, [Next]_vars
      PROVE  [(file' # file /\ Orderly') =>
                \E t \in Tasks : save[t].step = "rename" /\ file' = Text(store(t))]_vars
  <2> SUFFICES ASSUME file' # file, ~raced'
               PROVE  \E t \in Tasks : save[t].step = "rename" /\ file' = Text(store(t))
    BY DEF Orderly
  <2>1. ~raced
    BY <1>1, RacedStays
  <2>2. TypeOK /\ TasksOK /\ OneChange /\ (\A t \in Tasks : SaveIsAlone(t))
    BY <1>1, <2>1 DEF IInv, Orderly, Alone
  <2>3. ASSUME NEW t \in Tasks, Task(t), ~persist(t) PROVE FALSE
    BY <2>2, <2>3, ChangeSpec DEF Task, is_delivered, send, SendFails, Marked, Pull, park_approve, Parked, Ended, storeVars
  <2>4. ASSUME take_approve_queue \/ Delete \/ Taken \/ approve_pending \/ InjectFails \/ StartFlow \/ approve_flow
        PROVE  FALSE
    BY <2>4 DEF take_approve_queue, Delete, Begin, Taken, Ended, approve_pending, InjectFails, StartFlow, approve_flow, storeVars
  <2>5. ASSUME NEW p \in Procs, Exit(p) PROVE FALSE
    BY <2>5 DEF Exit
  <2>6. PICK t \in Tasks : persist(t)
    <3>1. ~UNCHANGED vars
      BY DEF vars, storeVars
    <3>2. Next
      BY <1>1, <3>1
    <3>3. ~(take_approve_queue \/ Delete \/ Taken \/ approve_pending \/ InjectFails \/ StartFlow \/ approve_flow)
      BY <2>4
    <3>. QED BY <2>3, <2>5, <3>2, <3>3 DEF Next
  <2>7. /\ save'[t].step # "ok" => file' = file
        /\ save'[t].step = "ok" => save[t].step = "rename" /\ file' = Text(store(t))
    BY <2>2, <2>6, PersistAlone
  <2>. QED BY <2>7
<1>. QED BY <1>1, Invariance, PTL DEF Spec, SavesAreAtomic
=============================================================================
