---------------------------- MODULE ApproveQueue ----------------------------
(***************************************************************************)
(* Human approval on top of the JSON file store (sohara-runtime control.rs,*)
(* persist.rs, serve.rs): the tasks of a running flow park records in the  *)
(* queue of an approve step, and mark what they deliver; `sohara approve`, *)
(* a process of its own, takes the queue out of the store, walks its       *)
(* records on to the sink, and marks them.  Both processes may die at any  *)
(* point, be started again, and be up at the same time.                    *)
(*                                                                         *)
(* One approve step, one sink that writes at once, one run id.             *)
(***************************************************************************)
EXTENDS JsonFileStore, SequencesExt

CONSTANTS
  Gated,        \* records that reach the approve step; the others go to the sink
  approver,     \* the task of `sohara approve`
  None,
  Together,     \* whether `sohara approve` may be called while the flow is up
  MaxRuns,      \* bound: starts of the flow
  MaxApproves   \* bound: calls of `sohara approve`

ASSUME ApproveAssumption ==
  /\ Gated \subseteq Records /\ None \notin Records /\ approver \in Tasks
  /\ Procs = {"flow", "approve"}
  /\ \A t \in Tasks : ProcOf[t] = IF t = approver THEN "approve" ELSE "flow"
  /\ Together \in BOOLEAN /\ MaxRuns \in Nat /\ MaxApproves \in Nat

VARIABLES
  up,        \* processes that run
  todo,      \* records the sources of the flow still have to yield
  pc,        \* per task, where it is
  rec,       \* per task, the record it has
  held,      \* per task, the queue it has loaded
  output,    \* records the sink has written
  failed,    \* records whose delivery was counted as an error
  parks, acks, takes,  \* per record: parked, reported as waiting, taken by an approve
  aborted,   \* an approve ended before it had injected what it took
  raced,     \* two tasks of the flow were changing the store at once
  runs, approves   \* what the bounds count

ghostVars == <<parks, acks, takes, aborted, raced, runs, approves>>
flowVars == <<up, todo, pc, rec, held, output, failed, ghostVars>>
vars == <<storeVars, flowVars>>

Workers == Tasks \ {approver}
store(t) == entries[ProcOf[t]]
Count(q, r) == Cardinality({i \in 1..Len(q) : q[i] = r})
Inc(f, r) == [f EXCEPT ![r] = @ + 1]

Goto(t, where) == pc' = [pc EXCEPT ![t] = where]

\* The save or delete of the task returns.
Ended(t) ==
  /\ save[t].step \in {"ok", "failed"}
  /\ save' = [save EXCEPT ![t] = Idle]
  /\ UNCHANGED <<entries, file, tmp, errors>>

\* The task is between a load it will act on, or a change it has begun, and its end.
Changing(t) == pc[t] \in {"push", "parking", "marking", "delete", "taking"}
Races(t) == raced' = (raced \/ \E u \in Tasks \ {t} : ProcOf[u] = ProcOf[t] /\ Changing(u))

-----------------------------------------------------------------------------
(* A record at the sink: is_delivered, send, mark_delivered. *)

\* The task has done with its record: the next one of the source, or of the queue.
Following(t) ==
  /\ Goto(t, IF t = approver THEN "inject" ELSE "pull")
  /\ rec' = [rec EXCEPT ![t] = None]

\* Mutant of is_delivered: every record counts as delivered.
AlwaysDelivered(t) ==
  /\ pc[t] = "check"
  /\ Following(t)
  /\ UNCHANGED <<storeVars, up, todo, held, output, failed, ghostVars>>

is_delivered(t) ==
  /\ pc[t] = "check"
  /\ IF rec[t] \in store(t).marks THEN Following(t) ELSE Goto(t, "send") /\ UNCHANGED rec
  /\ UNCHANGED <<storeVars, up, todo, held, output, failed, ghostVars>>

send(t) ==
  /\ pc[t] = "send"
  /\ output' = output \cup {rec[t]}
  /\ Goto(t, "mark")
  /\ UNCHANGED <<storeVars, up, todo, rec, held, failed, ghostVars>>

\* The send fails and is counted; the record is not marked.
SendFails(t) ==
  /\ pc[t] = "send"
  /\ errors < MaxErrors /\ errors' = errors + 1
  /\ failed' = failed \cup {rec[t]}
  /\ Following(t)
  /\ UNCHANGED <<entries, file, tmp, save, up, todo, held, output, ghostVars>>

mark_delivered(t) ==
  /\ pc[t] = "mark"
  /\ Begin(t, [store(t) EXCEPT !.marks = @ \cup {rec[t]}])
  /\ Races(t)
  /\ Goto(t, "marking")
  /\ UNCHANGED <<up, todo, rec, held, output, failed, parks, acks, takes, aborted, runs, approves>>

\* A save that failed is logged only.
Marked(t) ==
  /\ pc[t] = "marking"
  /\ Ended(t)
  /\ Following(t)
  /\ UNCHANGED <<up, todo, held, output, failed, ghostVars>>

-----------------------------------------------------------------------------
(* The flow: its tasks pull records and park them, or deliver them. *)

Pull(t) ==
  /\ pc[t] = "pull"
  /\ \E r \in todo :
       /\ todo' = todo \ {r}
       /\ rec' = [rec EXCEPT ![t] = r]
       /\ Goto(t, IF r \in Gated THEN "park" ELSE "check")
  /\ UNCHANGED <<storeVars, up, held, output, failed, ghostVars>>

\* park_approve loads the queue ...
park_approve(t) ==
  /\ pc[t] = "park"
  /\ held' = [held EXCEPT ![t] = store(t).queue]
  /\ Races(t)
  /\ Goto(t, "push")
  /\ UNCHANGED <<storeVars, up, todo, rec, output, failed, parks, acks, takes, aborted, runs, approves>>

\* Mutant of Push: the queue is replaced by the record.
PushAlone(t) ==
  /\ pc[t] = "push"
  /\ Begin(t, [store(t) EXCEPT !.queue = <<rec[t]>>])
  /\ parks' = Inc(parks, rec[t])
  /\ held' = [held EXCEPT ![t] = <<>>]
  /\ Goto(t, "parking")
  /\ UNCHANGED <<up, todo, rec, output, failed, acks, takes, aborted, raced, runs, approves>>

\* ... and saves it with the record added.
Push(t) ==
  /\ pc[t] = "push"
  /\ Begin(t, [store(t) EXCEPT !.queue = Append(held[t], rec[t])])
  /\ parks' = Inc(parks, rec[t])
  /\ held' = [held EXCEPT ![t] = <<>>]
  /\ Goto(t, "parking")
  /\ UNCHANGED <<up, todo, rec, output, failed, acks, takes, aborted, raced, runs, approves>>

\* The record is counted as waiting, or as an error if the save failed.
Parked(t) ==
  /\ pc[t] = "parking"
  /\ Ended(t)
  /\ IF save[t].step = "ok" THEN acks' = Inc(acks, rec[t]) /\ UNCHANGED failed
     ELSE failed' = failed \cup {rec[t]} /\ UNCHANGED acks
  /\ Following(t)
  /\ UNCHANGED <<up, todo, held, output, parks, takes, aborted, raced, runs, approves>>

-----------------------------------------------------------------------------
(* sohara approve *)

\* The command returns, with or without an error.
Returns ==
  /\ up' = up \ {"approve"}
  /\ Goto(approver, "off")
  /\ rec' = [rec EXCEPT ![approver] = None]
  /\ held' = [held EXCEPT ![approver] = <<>>]

\* take_approve_queue loads the queue ...
take_approve_queue ==
  /\ pc[approver] = "take"
  /\ held' = [held EXCEPT ![approver] = store(approver).queue]
  /\ Goto(approver, "delete")
  /\ UNCHANGED <<storeVars, up, todo, rec, output, failed, ghostVars>>

\* ... and deletes it.
Delete ==
  /\ pc[approver] = "delete"
  /\ Begin(approver, [store(approver) EXCEPT !.queue = <<>>])
  /\ Goto(approver, "taking")
  /\ UNCHANGED <<up, todo, rec, held, output, failed, ghostVars>>

TakesHeld == [r \in Records |-> takes[r] + Count(held[approver], r)]

\* Only if the delete was saved are the records injected.
Taken ==
  /\ pc[approver] = "taking"
  /\ Ended(approver)
  /\ IF save[approver].step = "ok"
     THEN takes' = TakesHeld /\ Goto(approver, "inject") /\ UNCHANGED <<up, rec, held>>
     ELSE Returns /\ UNCHANGED takes
  /\ UNCHANGED <<todo, output, failed, parks, acks, aborted, raced, runs, approves>>

\* approve_pending: the records are injected one after the other.
approve_pending ==
  /\ pc[approver] = "inject"
  /\ IF held[approver] = <<>> THEN Returns
     ELSE /\ rec' = [rec EXCEPT ![approver] = Head(held[approver])]
          /\ held' = [held EXCEPT ![approver] = Tail(@)]
          /\ Goto(approver, "check") /\ UNCHANGED up
  /\ UNCHANGED <<storeVars, todo, output, failed, ghostVars>>

\* A step after the gate fails: the error ends the command, the rest of what it took
\* is not injected.
InjectFails ==
  /\ pc[approver] = "check"
  /\ errors < MaxErrors /\ errors' = errors + 1
  /\ Returns
  /\ aborted' = TRUE
  /\ UNCHANGED <<entries, file, tmp, save, todo, output, failed, parks, acks, takes, raced, runs, approves>>

-----------------------------------------------------------------------------
(* Processes *)

\* sohara run --resume: the sources yield every record again.
StartFlow ==
  /\ "flow" \notin up /\ (up = {} \/ Together)
  /\ runs < MaxRuns /\ runs' = runs + 1
  /\ entries' = new("flow")
  /\ up' = up \cup {"flow"}
  /\ todo' = Records
  /\ pc' = [t \in Tasks |-> IF t \in Workers THEN "pull" ELSE pc[t]]
  /\ UNCHANGED <<file, tmp, save, errors, rec, held, output, failed, parks, acks, takes, aborted, raced, approves>>

approve_flow ==
  /\ "approve" \notin up /\ (up = {} \/ Together)
  /\ approves < MaxApproves /\ approves' = approves + 1
  /\ entries' = new("approve")
  /\ up' = up \cup {"approve"}
  /\ pc' = [pc EXCEPT ![approver] = "take"]
  /\ UNCHANGED <<file, tmp, save, errors, todo, rec, held, output, failed, parks, acks, takes, aborted, raced, runs>>

\* The process is killed, or the flow has ended: its memory is gone.
Exit(p) ==
  /\ p \in up
  /\ up' = up \ {p}
  /\ entries' = [entries EXCEPT ![p] = NoEntries]
  /\ save' = Closed(p)
  /\ pc' = [t \in Tasks |-> IF ProcOf[t] = p THEN "off" ELSE pc[t]]
  /\ rec' = [t \in Tasks |-> IF ProcOf[t] = p THEN None ELSE rec[t]]
  /\ held' = [t \in Tasks |-> IF ProcOf[t] = p THEN <<>> ELSE held[t]]
  /\ todo' = IF p = "flow" THEN {} ELSE todo
  /\ IF p = "approve" /\ pc[approver] = "taking" /\ save[approver].step = "ok"
     THEN takes' = TakesHeld ELSE UNCHANGED takes
  /\ aborted' = (aborted \/ (p = "approve" /\ pc[approver] \notin {"take", "delete"}))
  /\ UNCHANGED <<file, tmp, errors, output, failed, parks, acks, raced, runs, approves>>

Init ==
  /\ entries = [p \in Procs |-> NoEntries]
  /\ file = Absent /\ tmp = Absent
  /\ save = [t \in Tasks |-> Idle]
  /\ errors = 0
  /\ up = {} /\ todo = {}
  /\ pc = [t \in Tasks |-> "off"]
  /\ rec = [t \in Tasks |-> None]
  /\ held = [t \in Tasks |-> <<>>]
  /\ output = {} /\ failed = {}
  /\ parks = [r \in Records |-> 0] /\ acks = parks /\ takes = parks
  /\ aborted = FALSE /\ raced = FALSE
  /\ runs = 0 /\ approves = 0

Task(t) ==
  \/ is_delivered(t) \/ send(t) \/ SendFails(t) \/ mark_delivered(t) \/ Marked(t)
  \/ Pull(t) \/ park_approve(t) \/ Push(t) \/ Parked(t)
  \/ (persist(t) /\ UNCHANGED flowVars)

Next ==
  \/ \E t \in Tasks : Task(t)
  \/ take_approve_queue \/ Delete \/ Taken \/ approve_pending \/ InjectFails
  \/ StartFlow \/ approve_flow
  \/ \E p \in Procs : Exit(p)

Spec == Init /\ [][Next]_vars

-----------------------------------------------------------------------------
\* One task changes the store at a time.
Orderly == ~raced

\* persist.rs: as long as one task at a time changes the store, whatever dies and
\* whatever write fails, a record reported as waiting is in the queue of the file
\* until an approve has taken it, as often as it was parked and no more often.
QueueAccountsForParks ==
  Orderly => \A r \in Records :
    LET taken == takes[r] + (IF pc[approver] = "taking" /\ save[approver].step = "ok" THEN Count(held[approver], r) ELSE 0)
        kept == Count(file.data.queue, r)
    IN acks[r] <= taken + kept /\ taken + kept <= parks[r]

\* lib.rs, persist: as long as one task at a time changes the store, the file goes in
\* one step from one set of entries to the entries the saving process has then.
SavesAreAtomic ==
  [][(file' # file /\ Orderly') =>
       \E t \in Tasks : save[t].step = "rename" /\ file' = Text(store(t))]_vars

\* approve_pending: what an approve has taken out of the store is at the sink, or was
\* counted as an error there, once it has returned, unless one was killed or failed.
ApprovedIsDelivered ==
  ("approve" \notin up /\ ~aborted) => \A r \in Records : takes[r] > 0 => r \in output \cup failed

=============================================================================
