---------------------------- MODULE JsonFileStore ---------------------------
(***************************************************************************)
(* The JSON file store (sohara-persistence) as the tasks of several        *)
(* processes use it: every process has its own entries in memory, read     *)
(* from the file when the store is opened; save and delete change them     *)
(* under a lock and then, with the lock released, write a snapshot of all  *)
(* entries to one temporary name and rename it to the file's name.         *)
(*                                                                         *)
(* The entries a flow keeps in it are the approve queue of a step and the  *)
(* delivered marks.  Who saves what and when is left to ApproveQueue.      *)
(***************************************************************************)
EXTENDS Naturals, Sequences, FiniteSets

CONSTANTS
  Records,    \* records of the flow
  Procs,      \* processes that open the store
  Tasks,      \* tasks that use it
  ProcOf,     \* [Tasks -> Procs]
  MaxErrors   \* bound: writes that fail

ASSUME StoreAssumption == ProcOf \in [Tasks -> Procs] /\ MaxErrors \in Nat

VARIABLES
  entries,    \* per process, the entries in memory
  file, tmp,  \* what is under the file's name and under the temporary name
  save,       \* per task, the save it is in: its step, its snapshot, its open file
  errors      \* writes that failed

storeVars == <<entries, file, tmp, save, errors>>

Entries == [queue : Seq(Records), marks : SUBSET Records]
NoEntries == [queue |-> <<>>, marks |-> {}]
Idle == [step |-> "idle", data |-> NoEntries, open |-> "none"]

\* What a name may stand for: no file, one without text, one with text that is not
\* JSON, or the text of some entries.
Absent == [is |-> "absent", data |-> NoEntries]
Empty == [is |-> "empty", data |-> NoEntries]
Torn == [is |-> "torn", data |-> NoEntries]
Text(data) == [is |-> "json", data |-> data]

\* JsonFileStore::new: a file that is missing or cannot be parsed counts as no entries.
new(p) == [entries EXCEPT ![p] = file.data]

\* save and delete: the entries change under the lock; what follows is persist.
Begin(t, changed) ==
  /\ save[t] = Idle
  /\ entries' = [entries EXCEPT ![ProcOf[t]] = changed]
  /\ save' = [save EXCEPT ![t].step = "snapshot"]
  /\ UNCHANGED <<file, tmp, errors>>

-----------------------------------------------------------------------------
(* persist, step by step *)

\* The entries are serialised under the lock, as they are by now.
Snapshot(t) ==
  /\ save[t].step = "snapshot"
  /\ save' = [save EXCEPT ![t].step = "create", ![t].data = entries[ProcOf[t]]]
  /\ UNCHANGED <<entries, file, tmp, errors>>

\* Mutant of Create: the file itself is opened and truncated.
CreateInPlace(t) ==
  /\ save[t].step = "create"
  /\ file' = Empty
  /\ save' = [save EXCEPT ![t].step = "write", ![t].open = "file"]
  /\ UNCHANGED <<entries, tmp, errors>>

\* fs::write opens the temporary name: created, or truncated under whoever has it open.
Create(t) ==
  /\ save[t].step = "create"
  /\ tmp' = Empty
  /\ save' = [save EXCEPT ![t].step = "write", ![t].open = "tmp"]
  /\ UNCHANGED <<entries, file, errors>>

\* Data written from the start of a file over what another writer has put there in
\* the meantime: the tail of the longer text remains.
Overlaid(content, data) == IF content \in {Empty, Text(data)} THEN {Text(data)} ELSE {Text(data), Torn}

\* fs::write writes to the file it has opened, whatever its name is by now.
Write(t) ==
  /\ save[t].step = "write"
  /\ CASE save[t].open = "tmp" -> tmp' \in Overlaid(tmp, save[t].data) /\ UNCHANGED file
       [] save[t].open = "file" -> file' \in Overlaid(file, save[t].data) /\ UNCHANGED tmp
       [] OTHER -> UNCHANGED <<file, tmp>>
  /\ save' = [save EXCEPT ![t].step = "rename", ![t].open = "none"]
  /\ UNCHANGED <<entries, errors>>

\* The write fails half way: save returns the error, the temporary file stays.
WriteFails(t) ==
  /\ save[t].step = "write"
  /\ errors < MaxErrors /\ errors' = errors + 1
  /\ CASE save[t].open = "tmp" -> tmp' = Torn /\ UNCHANGED file
       [] save[t].open = "file" -> file' = Torn /\ UNCHANGED tmp
       [] OTHER -> UNCHANGED <<file, tmp>>
  /\ save' = [save EXCEPT ![t].step = "failed", ![t].open = "none"]
  /\ UNCHANGED entries

\* What other tasks have open is renamed with it, or has lost its name.
Renamed(t, s) ==
  [u \in Tasks |->
    IF u = t THEN [s[t] EXCEPT !.step = "ok"]
    ELSE [s[u] EXCEPT !.open = CASE @ = "tmp" -> "file" [] @ = "file" -> "gone" [] OTHER -> @]]

\* fs::rename; the name is gone if another task has renamed it first.
Rename(t) ==
  /\ save[t].step = "rename"
  /\ IF tmp # Absent
     THEN file' = tmp /\ tmp' = Absent /\ save' = Renamed(t, save)
     ELSE save' = [save EXCEPT ![t].step = "failed"] /\ UNCHANGED <<file, tmp>>
  /\ UNCHANGED <<entries, errors>>

persist(t) == Snapshot(t) \/ Create(t) \/ Write(t) \/ WriteFails(t) \/ Rename(t)

\* A process is gone: its tasks' open files are closed where they are.
Closed(p) == [t \in Tasks |-> IF ProcOf[t] = p THEN Idle ELSE save[t]]
=============================================================================
