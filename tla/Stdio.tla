------------------------------- MODULE Stdio --------------------------------
(***************************************************************************)
(* Extensions as child processes that speak JSON-RPC over stdin and stdout *)
(* (sohara-runtime: stdio_extensions.rs; sohara-builtin-extensions:        *)
(* run_loop and the sqlite extension).  A component keeps one client       *)
(* behind a mutex.  A call takes the lock, spawns and initializes the      *)
(* process if there is none, writes one line and reads one line; whatever  *)
(* goes wrong kills the process.  The stream of a source or a trigger      *)
(* pulls through its client while serve starts and stops the trigger       *)
(* through the same one.  A process may die at any moment, answer with an  *)
(* error or print a line that is no answer.                                *)
(*                                                                         *)
(* The store has one key: keys are independent rows.                       *)
(***************************************************************************)
EXTENDS Integers, Sequences, FiniteSets, SequencesExt

CONSTANTS
  Publishes, Sends, Saves, Deletes, Loads,  \* calls of the event bus, the sink and the store
  Deployments,  \* [ops, flow, rows, faults]: the calls a flow makes, what it streams from,
                \* the rows the bus already has, and the faults that will happen (a bound)
  None,
  BATCH,        \* batch_size of a pull
  IDS           \* bound: request ids wrap here (u64 in the code)

Calls == Publishes \cup Sends \cup Saves \cup Deletes \cup Loads
FlowOps == {"start", "pull", "stop"}
Ops == Calls \cup FlowOps
Clients == {"bus", "sink", "store", "flow"}

ASSUME StdioAssumption ==
  /\ IsFiniteSet(Calls)
  /\ \A d \in Deployments : /\ d.ops \subseteq Calls /\ d.flow \in {"trigger", "source", "none"}
                           /\ d.rows \in Seq(Publishes) /\ d.faults \in Nat
  /\ None \notin Ops /\ (FlowOps \cup {"initialize"}) \cap Calls = {}
  /\ Publishes \cap Sends = {} /\ (Publishes \cup Sends) \cap (Saves \cup Deletes \cup Loads) = {}
  /\ BATCH \in Nat \ {0} /\ IDS \in Nat /\ IDS > 2

VARIABLES
  ops, flow,  \* the deployment
  status,     \* per call: "idle", "waiting" (for the mutex), "calling", "ok", "error"
  host,       \* per client: the mutex and the Option<StdioClient> behind it
  ext,        \* per client: the child process, its pipes and its memory
  log, disk,  \* what outlives the processes: bus table, sink output, stored value
  applied,    \* calls whose effect has happened since they were last made
  read, got,  \* per load, what the process found and what the caller was given
  serving,    \* "starting", "running", "stopping", "failed" (serve returned an error), "ended"
  stream,     \* "closed" (not opened), "open", "ended"
  buffered, finished,  \* SourceState, TriggerState
  emitted,    \* what the stream has yielded
  faults      \* crashes, errors, failed spawns and stray lines still to come

flowVars == <<serving, stream, buffered, finished, emitted>>
dataVars == <<log, disk, applied, read>>
vars == <<ops, flow, status, host, ext, log, disk, applied, read, got, serving, stream, buffered,
          finished, emitted, faults>>

Client(op) ==
  CASE op \in Publishes -> "bus"
    [] op \in Sends -> "sink"
    [] op \in Saves \cup Deletes \cup Loads -> "store"
    [] OTHER -> "flow"

Up == serving # "ended"

Fault == faults > 0 /\ faults' = faults - 1

NoClient == [waiting |-> <<>>, holder |-> None, session |-> "none", next_id |-> 1]

NoProcess == [child |-> "none", stdin |-> <<>>, working |-> <<>>, stdout |-> <<>>,
              last_id |-> 0, stopped |-> FALSE]

\* A line on stdout that is not the answer to a request.
Stray == [id |-> 0, ok |-> TRUE, value |-> [records |-> <<>>, done |-> FALSE]]

-----------------------------------------------------------------------------
(* The host. *)

take_id(n) == (n % IDS) + 1

\* Mutant of validate_jsonrpc: any line is the answer.
AnyAnswer(line, id) == TRUE

validate_jsonrpc(line, id) == line.id = id

\* The caller waits for the client's mutex.
Ask(op) ==
  /\ status' = [status EXCEPT ![op] = "waiting"]
  /\ host' = [host EXCEPT ![Client(op)].waiting = Append(@, op)]
  /\ applied' = applied \ {op}

\* A step, or the runtime, makes a call: load, save, delete, publish or send.  A call
\* that failed may be made again.
Invoke(op) ==
  /\ Up
  /\ op \in ops
  /\ status[op] \in {"idle", "error"}
  /\ Ask(op)
  /\ UNCHANGED <<ops, flow, ext, log, disk, read, got, flowVars, faults>>

\* Mutant of Granted: the mutex goes to any waiter.
AnyWaiter(c, n) == TRUE

\* tokio's Mutex is granted in the order of arrival, std's to any waiter.
Granted(c, n) == c \in {"flow", "sink"} => n = 1

\* A waiter gets the mutex.  Stopping a trigger that has no process is done with that.
lock(c) ==
  /\ Up
  /\ host[c].holder = None
  /\ \E n \in 1..Len(host[c].waiting) :
       LET op == host[c].waiting[n] IN
       /\ Granted(c, n)
       /\ IF op = "stop" /\ host[c].session = "none"
          THEN /\ host' = [host EXCEPT ![c].waiting = RemoveAt(@, n)]
               /\ status' = [status EXCEPT ![op] = "ok"]
          ELSE /\ host' = [host EXCEPT ![c].waiting = RemoveAt(@, n), ![c].holder = op]
               /\ status' = [status EXCEPT ![op] = "calling"]
  /\ UNCHANGED <<ops, flow, ext, dataVars, got, flowVars, faults>>

\* Mutant of Failed: the stream goes on after an error.
StreamGoesOn(op) ==
  /\ status' = [status EXCEPT ![op] = "error"]
  /\ serving' = IF op \in {"start", "stop"} THEN "failed" ELSE serving
  /\ UNCHANGED <<got, stream, buffered, finished, emitted>>

\* What an error means to the caller: the step's call fails, serve returns it, or the
\* stream yields it and is over (try_unfold drops its state).
Failed(op) ==
  /\ status' = [status EXCEPT ![op] = "error"]
  /\ serving' = IF op \in {"start", "stop"} THEN "failed" ELSE serving
  /\ stream' = IF op = "pull" THEN "ended" ELSE stream
  /\ UNCHANGED <<got, buffered, finished, emitted>>

\* The process is killed, the client dropped and the mutex released.
reset_client(c) ==
  /\ host' = [host EXCEPT ![c].holder = None, ![c].session = "none"]
  /\ ext' = [ext EXCEPT ![c] = NoProcess]

\* ensure_client without a client: spawn fails, or the process runs and the host
\* writes initialize to it.
spawn(c) ==
  /\ Up
  /\ host[c].holder # None /\ host[c].session = "none"
  /\ \/ /\ host' = [host EXCEPT ![c].session = "initializing", ![c].next_id = take_id(1)]
        /\ ext' = [ext EXCEPT ![c] = [NoProcess EXCEPT !.child = "alive", !.stdin = <<[id |-> 1, op |-> "initialize"]>>]]
        /\ UNCHANGED <<status, flowVars, got, faults>>
     \/ /\ Fault
        /\ Failed(host[c].holder)
        /\ host' = [host EXCEPT ![c].holder = None]
        /\ UNCHANGED ext
  /\ UNCHANGED <<ops, flow, dataVars>>

\* The request is written, or the pipe is broken.
write(c) ==
  /\ Up
  /\ host[c].holder # None /\ host[c].session = "ready"
  /\ IF ext[c].child = "alive"
     THEN /\ ext' = [ext EXCEPT ![c].stdin = Append(@, [id |-> host[c].next_id, op |-> host[c].holder])]
          /\ host' = [host EXCEPT ![c].session = "calling", ![c].next_id = take_id(@)]
          /\ UNCHANGED <<status, flowVars, got>>
     ELSE reset_client(c) /\ Failed(host[c].holder)
  /\ UNCHANGED <<ops, flow, dataVars, faults>>

\* A source that has nothing and is not done is an error.
Acceptable(op, line) ==
  /\ line.ok
  /\ (op = "pull" /\ flow = "source") => line.value.done \/ line.value.records # <<>>

\* What an accepted answer means to the caller.  A trigger that has nothing is pulled
\* again later.
Succeeded(op, value) ==
  /\ status' = [status EXCEPT ![op] = "ok"]
  /\ got' = IF op \in Loads THEN [got EXCEPT ![op] = value] ELSE got
  /\ IF op = "start" THEN serving' = "running" /\ stream' = "open" ELSE UNCHANGED <<serving, stream>>
  /\ IF op = "pull" /\ (value.done \/ value.records # <<>>)
     THEN finished' = value.done /\ buffered' = value.records
     ELSE UNCHANGED <<finished, buffered>>
  /\ UNCHANGED emitted

\* Mutant of Readable: the end of stdout is waited through.
IgnoresEof(c) == ext[c].stdout # <<>>

\* read_line returns: there is a line, or the end of the pipe.
Readable(c) == ext[c].stdout # <<>> \/ ext[c].child = "dead"

\* One line is read.  It must carry the id of the request and a result the caller can
\* use; anything else, and the end of stdout, is an error.
request(c) ==
  /\ Up
  /\ host[c].session \in {"initializing", "calling"}
  /\ Readable(c)
  /\ LET op == host[c].holder
         line == IF ext[c].stdout = <<>> THEN Stray ELSE Head(ext[c].stdout)
         valid == ext[c].stdout # <<>> /\ validate_jsonrpc(line, IF host[c].next_id = 1 THEN IDS ELSE host[c].next_id - 1)
     IN IF host[c].session = "initializing" /\ valid /\ line.ok
        THEN /\ host' = [host EXCEPT ![c].session = "ready"]
             /\ ext' = [ext EXCEPT ![c].stdout = Tail(@)]
             /\ UNCHANGED <<status, flowVars, got>>
        ELSE IF host[c].session = "calling" /\ valid /\ Acceptable(op, line)
        THEN /\ host' = [host EXCEPT ![c].session = "ready", ![c].holder = None]
             /\ ext' = [ext EXCEPT ![c].stdout = Tail(@)]
             /\ Succeeded(op, line.value)
        ELSE reset_client(c) /\ Failed(op)
  /\ UNCHANGED <<ops, flow, dataVars, faults>>

-----------------------------------------------------------------------------
(* The extension's process. *)

\* trigger.pull of the sqlite extension, and a source over the same rows: the rows
\* after last_id, in order.  A stopped trigger is done.
Pulled(c, done) ==
  IF ext[c].stopped THEN [records |-> <<>>, done |-> TRUE]
  ELSE [records |-> SubSeq(log["bus"], ext[c].last_id + 1, Min({ext[c].last_id + BATCH, Len(log["bus"])})),
        done |-> done]

\* What the extension does for a request, and what it answers.
Execute(c, op) ==
  \E done \in (IF op = "pull" /\ flow = "source" THEN BOOLEAN ELSE {FALSE}) :
    LET value == IF op = "pull" THEN Pulled(c, done) ELSE disk
    IN /\ ext' = [ext EXCEPT ![c].stdin = Tail(@),
                             ![c].working = <<[id |-> Head(ext[c].stdin).id, ok |-> TRUE, value |-> value]>>,
                             ![c].last_id = IF op = "pull" THEN @ + Len(value.records) ELSE @,
                             ![c].stopped = CASE op = "start" -> FALSE [] op = "stop" -> TRUE [] OTHER -> @]
       /\ log' = IF op \in Publishes \cup Sends THEN [log EXCEPT ![c] = Append(@, op)] ELSE log
       /\ disk' = IF op \in Saves THEN op ELSE IF op \in Deletes THEN None ELSE disk
       /\ read' = IF op \in Loads THEN [read EXCEPT ![op] = disk] ELSE read
       /\ applied' = applied \cup ({op} \cap Calls)

\* run_loop takes a request: it is executed, or answered with an error before it has
\* any effect.  (An initialize that advertises another protocol, or not the
\* capability, is an error to the host as well.)
handle(c) ==
  /\ Up
  /\ ext[c].child = "alive" /\ ext[c].stdin # <<>> /\ ext[c].working = <<>>
  /\ \/ Execute(c, Head(ext[c].stdin).op) /\ UNCHANGED faults
     \/ /\ Fault
        /\ ext' = [ext EXCEPT ![c].stdin = Tail(@),
                             ![c].working = <<[id |-> Head(ext[c].stdin).id, ok |-> FALSE, value |-> None]>>]
        /\ UNCHANGED dataVars
  /\ UNCHANGED <<ops, flow, status, host, got, flowVars>>

\* run_loop writes the answer.
respond(c) ==
  /\ Up
  /\ ext[c].child = "alive" /\ ext[c].working # <<>>
  /\ ext' = [ext EXCEPT ![c].stdout = @ \o ext[c].working, ![c].working = <<>>]
  /\ UNCHANGED <<ops, flow, status, host, dataVars, got, flowVars, faults>>

\* The process dies; what it has written can still be read.
Crash(c) ==
  /\ Up
  /\ Fault
  /\ ext[c].child = "alive"
  /\ ext' = [ext EXCEPT ![c] = [NoProcess EXCEPT !.child = "dead", !.stdout = ext[c].stdout]]
  /\ UNCHANGED <<ops, flow, status, host, dataVars, got, flowVars>>

\* The process prints something else, between or beside its answers.
PrintsStray(c) ==
  /\ Up
  /\ Fault
  /\ ext[c].child = "alive"
  /\ ext' = [ext EXCEPT ![c].stdout = Append(@, Stray)]
  /\ UNCHANGED <<ops, flow, status, host, dataVars, got, flowVars>>

-----------------------------------------------------------------------------
(* The stream and serve. *)

\* next_source_record and next_trigger_record: yield what is buffered, end when
\* finished, or pull.
next_record ==
  /\ Up
  /\ stream = "open" /\ status["pull"] \notin {"waiting", "calling"}
  /\ \/ /\ buffered # <<>>
        /\ emitted' = Append(emitted, Head(buffered)) /\ buffered' = Tail(buffered)
        /\ UNCHANGED <<status, host, applied, stream>>
     \/ /\ buffered = <<>> /\ finished
        /\ stream' = "ended"
        /\ UNCHANGED <<status, host, applied, emitted, buffered>>
     \/ /\ buffered = <<>> /\ ~finished
        /\ Ask("pull")
        /\ UNCHANGED <<emitted, buffered, stream>>
  /\ UNCHANGED <<ops, flow, ext, log, disk, read, got, serving, finished, faults>>

\* serve starts the trigger before it runs the flow.
start ==
  /\ serving = "starting" /\ status["start"] = "idle"
  /\ Ask("start")
  /\ UNCHANGED <<ops, flow, ext, log, disk, read, got, flowVars, faults>>

\* The shutdown signal: serve stops the trigger.
stop ==
  /\ flow = "trigger" /\ serving = "running"
  /\ serving' = "stopping"
  /\ Ask("stop")
  /\ UNCHANGED <<ops, flow, ext, log, disk, read, got, stream, buffered, finished, emitted, faults>>

\* serve returns: the flow has run and, once told to, the trigger has stopped.  After
\* an error of start or stop the process ends while the stream's task may still run.
serve_returns ==
  /\ \/ serving = "running" /\ stream = "ended"
     \/ serving = "stopping" /\ status["stop"] = "ok" /\ stream = "ended"
     \/ serving = "failed"
  /\ serving' = "ended"
  /\ UNCHANGED <<ops, flow, status, host, ext, dataVars, got, stream, buffered, finished, emitted, faults>>

-----------------------------------------------------------------------------
Init ==
  /\ \E d \in Deployments :
       /\ ops = d.ops /\ flow = d.flow /\ faults = d.faults
       /\ log = [c \in {"bus", "sink"} |-> IF c = "bus" THEN d.rows ELSE <<>>]
  /\ status = [op \in Ops |-> "idle"]
  /\ host = [c \in Clients |-> NoClient]
  /\ ext = [c \in Clients |-> NoProcess]
  /\ disk = None
  /\ applied = {}
  /\ read = [op \in Loads |-> None] /\ got = [op \in Loads |-> None]
  /\ serving = IF flow = "trigger" THEN "starting" ELSE "running"
  /\ stream = IF flow = "source" THEN "open" ELSE "closed"
  /\ buffered = <<>> /\ finished = FALSE /\ emitted = <<>>

HostStep(c) == lock(c) \/ spawn(c) \/ write(c) \/ request(c)

Next ==
  \/ \E op \in Calls : Invoke(op)
  \/ \E c \in Clients : HostStep(c) \/ handle(c) \/ respond(c) \/ Crash(c) \/ PrintsStray(c)
  \/ next_record
  \/ start \/ stop \/ serve_returns

Spec == Init /\ [][Next]_vars

(* The host's tasks run, and a process that lives answers what it is asked: the  *)
(* host sets no deadline, so without that nothing could be said.  Nothing makes  *)
(* calls, faults or the signal happen.                                           *)
Fairness ==
  /\ \A c \in Clients : WF_vars(HostStep(c)) /\ WF_vars(handle(c) \/ respond(c))
  /\ WF_vars(next_record)
  /\ WF_vars(start \/ serve_returns)

FairSpec == Spec /\ Fairness

-----------------------------------------------------------------------------
\* stdio_extensions.rs, sqlite: a stream yields the rows of the bus in order, without
\* a gap and none twice, whichever process they come from, unless the stop of its
\* trigger failed; and whenever no pull is under way, a row that the process counts as
\* delivered (last_id) has been yielded or is buffered.
RowsInOrder ==
  status["stop"] # "error" =>
    /\ IsPrefix(emitted \o buffered, log["bus"])
    /\ (stream = "open" /\ host["flow"].session = "ready" /\ ext["flow"].child = "alive") =>
         ext["flow"].last_id = Len(emitted \o buffered)

\* Every call of a store, a bus or a sink behaves like RemoteCalls.
Remote ==
  INSTANCE RemoteCalls WITH
    outcome <- [op \in Calls |->
                  CASE status[op] \in {"waiting", "calling"} -> IF op \in applied THEN "applied" ELSE "called"
                    [] status[op] = "error" -> "failed"
                    [] OTHER -> status[op]]

\* stdio_extensions.rs: a call takes effect at most once and only while it is under
\* way, succeeds only after that, and a load returns what the store held then,
\* whatever the process does and however many callers share it.
CallsAtMostOnce == Remote!Spec

\* Every call returns, also when the process dies under it.
CallsReturn ==
  \A op \in Calls :
    status[op] \in {"waiting", "calling"} ~> (status[op] \in {"ok", "error"} \/ ~Up)

\* serve.rs: a shutdown ends, although the stream and stop compete for one client.
StopCompletes == serving = "stopping" ~> ~Up
=============================================================================
