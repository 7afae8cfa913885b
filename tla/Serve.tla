------------------------------- MODULE Serve --------------------------------
(***************************************************************************)
(* A flow in serve mode (sohara-runtime: serve.rs, runner.rs, pause.rs,    *)
(* admin.rs; sohara-triggers: http.rs, queue.rs, cron.rs, bus.rs).  Every  *)
(* trigger is the source of a task that pulls a record, waits at the pause *)
(* gate and walks the record.  HTTP requests and bus messages wait in a    *)
(* bounded channel.  A signal stops the triggers one by one; serve returns *)
(* when the run has joined its tasks, in the order of the triggers, and    *)
(* flushed, or when one of them has failed.                                *)
(*                                                                         *)
(* What a walk does to a record is FlowRun's; here it succeeds, is counted *)
(* as an error, or fails its task (on_error: fail).                        *)
(***************************************************************************)
EXTENDS Integers, Sequences, FiniteSets, SequencesExt, Functions

CONSTANTS
  Http, Queue, Cron,  \* the triggers, by type
  Payloads,           \* requests, messages and schedule hits
  Home,               \* [Payloads -> Triggers], where each arrives
  Flows,              \* trigger lists a flow may declare
  None,
  CAP,                \* capacity of a channel
  MaxCalls,           \* bound: calls of the admin API
  MaxErrors           \* bound: records that fail, and failed flushes

Triggers == Http \cup Queue \cup Cron

Requests == {p \in Payloads : Home[p] \in Http}

ASSUME ServeAssumption ==
  /\ IsFiniteSet(Triggers)
  /\ Home \in [Payloads -> Triggers]
  /\ Flows \subseteq Seq(Triggers) /\ \A f \in Flows : IsInjective(f)
  /\ None \notin Payloads
  /\ CAP \in Nat \ {0}
  /\ MaxCalls \in Nat /\ MaxErrors \in Nat

VARIABLES
  order,      \* flow.triggers, in the order in which they are stopped and their tasks joined
  fate,       \* per payload: "new", "reading" (its handler reads the body), "posting" (its
              \* handler waits for room), "refused" (4xx or 503), "gone" (the client went away),
              \* "lost" (dropped by the bus), "accepted" (202, or in a channel), "handled", "errored"
  channel,    \* per trigger, payloads accepted and not pulled
  listening,  \* HTTP triggers whose server accepts connections
  stopped,    \* triggers whose stop was called
  pc,         \* per source task: "pull", "gate", "checked", "asleep", "walk", "ended", "failed"
  held,       \* per source task, the record pulled and not yet walked, or None
  paused,     \* PauseGate.paused
  notifying,  \* resumes that have cleared the flag and not yet notified
  joined,     \* tasks the run has joined
  run,        \* "on", "ok", "error"
  serving,    \* "running", "stopping", "ended"
  calls, errors  \* what the bounds count

gateVars == <<paused, notifying, calls>>
serveVars == <<order, stopped, joined, run, serving>>
vars == <<order, fate, channel, listening, stopped, pc, held, paused, notifying, joined, run, serving, calls, errors>>

\* The process has not ended.
Up == serving # "ended"

Fault == errors < MaxErrors /\ errors' = errors + 1

\* What a request is while its handler, and with it a sender of the channel, is there.
InHandler == {"reading", "posting"}

\* The trigger is one of the flow's and its task has not dropped the receiver.
Open(t) == pc[t] \notin {"ended", "failed"}

-----------------------------------------------------------------------------
(* Intake. *)

\* A request reaches handle_request, whose clone of the sender lives from here on.
Request(p) ==
  /\ Up
  /\ Home[p] \in listening
  /\ fate[p] = "new"
  /\ fate' = [fate EXCEPT ![p] = "reading"]
  /\ UNCHANGED <<serveVars, gateVars, channel, listening, pc, held, errors>>

\* The body is complete and goes to the channel, or the request is turned down (method,
\* size, JSON).  There is no timeout: a client may leave its body unfinished for ever.
ReadBody(p) ==
  /\ Up
  /\ fate[p] = "reading"
  /\ \E outcome \in {"posting", "refused"} : fate' = [fate EXCEPT ![p] = outcome]
  /\ UNCHANGED <<serveVars, gateVars, channel, listening, pc, held, errors>>

\* The client closes its connection: the server drops the handler where it is.
Abandon(p) ==
  /\ Up
  /\ fate[p] \in InHandler
  /\ fate' = [fate EXCEPT ![p] = "gone"]
  /\ UNCHANGED <<serveVars, gateVars, channel, listening, pc, held, errors>>

\* Mutant of handle_request: a send that fails, for whatever reason, is tried again.
HandlerRetries(p) ==
  /\ Up
  /\ fate[p] = "posting"
  /\ Open(Home[p]) /\ Len(channel[Home[p]]) < CAP
  /\ channel' = [channel EXCEPT ![Home[p]] = Append(@, p)]
  /\ fate' = [fate EXCEPT ![p] = "accepted"]
  /\ UNCHANGED <<serveVars, gateVars, listening, pc, held, errors>>

\* The handler of a body read answers: 202 once its payload is in the channel, 503 when the task
\* behind the channel is gone.
handle_request(p) ==
  /\ Up
  /\ fate[p] = "posting"
  /\ \/ /\ Open(Home[p]) /\ Len(channel[Home[p]]) < CAP
        /\ channel' = [channel EXCEPT ![Home[p]] = Append(@, p)]
        /\ fate' = [fate EXCEPT ![p] = "accepted"]
     \/ /\ ~Open(Home[p])
        /\ fate' = [fate EXCEPT ![p] = "refused"]
        /\ UNCHANGED channel
  /\ UNCHANGED <<serveVars, gateVars, listening, pc, held, errors>>

\* InProcessBus::publish never waits: a full or abandoned channel drops the
\* payload, and so does a topic without a subscriber.
publish(p) ==
  /\ Up
  /\ Home[p] \in Queue
  /\ fate[p] = "new"
  /\ IF Open(Home[p]) /\ Len(channel[Home[p]]) < CAP
     THEN /\ channel' = [channel EXCEPT ![Home[p]] = Append(@, p)]
          /\ fate' = [fate EXCEPT ![p] = "accepted"]
     ELSE /\ fate' = [fate EXCEPT ![p] = "lost"]
          /\ UNCHANGED channel
  /\ UNCHANGED <<serveVars, gateVars, listening, pc, held, errors>>

-----------------------------------------------------------------------------
(* The source tasks (run_source). *)

\* stream.next yields the oldest payload of the channel, or a schedule hit.
Pull(t) ==
  /\ Up
  /\ pc[t] = "pull"
  /\ \/ /\ channel[t] # <<>>
        /\ held' = [held EXCEPT ![t] = Head(channel[t])]
        /\ channel' = [channel EXCEPT ![t] = Tail(@)]
        /\ UNCHANGED fate
     \/ /\ t \in Cron
        /\ \E p \in Payloads :
             /\ Home[p] = t /\ fate[p] = "new"
             /\ fate' = [fate EXCEPT ![p] = "accepted"]
             /\ held' = [held EXCEPT ![t] = p]
        /\ UNCHANGED channel
  /\ pc' = [pc EXCEPT ![t] = "gate"]
  /\ UNCHANGED <<serveVars, gateVars, listening, errors>>

\* Mutants of AtEnd: no stream watches for the shutdown, so a queue's ends with its
\* senders, which the bus keeps; every stream ends at the shutdown.
EndsWithSenders(t) ==
  /\ t \in stopped \ Queue
  /\ t \in Http => /\ t \notin listening
                   /\ channel[t] = <<>>
                   /\ \A p \in Payloads : Home[p] = t => fate[p] \notin InHandler
EndsAtShutdown(t) == t \in stopped

\* The stream of t may end.  An HTTP channel ends when it is empty and its senders are
\* gone: the trigger's own, the server's, and those of its handlers, also of those still
\* reading (the graceful shutdown of the server waits for them as well).  The other
\* streams watch for the shutdown, also when there is something to pull.
AtEnd(t) ==
  /\ t \in stopped
  /\ t \in Http => /\ t \notin listening
                   /\ channel[t] = <<>>
                   /\ \A p \in Payloads : Home[p] = t => fate[p] \notin InHandler

EndOfStream(t) ==
  /\ Up
  /\ pc[t] = "pull"
  /\ AtEnd(t)
  /\ pc' = [pc EXCEPT ![t] = "ended"]
  /\ UNCHANGED <<serveVars, gateVars, fate, channel, listening, held, errors>>

\* wait_unpaused: load the flag; if it is set, register for a notification, and
\* load it again when notified.
wait_unpaused(t) ==
  /\ Up
  /\ \/ /\ pc[t] = "gate"
        /\ pc' = [pc EXCEPT ![t] = IF paused THEN "checked" ELSE "walk"]
     \/ /\ pc[t] = "checked"
        /\ pc' = [pc EXCEPT ![t] = "asleep"]
  /\ UNCHANGED <<serveVars, gateVars, fate, channel, listening, held, errors>>

walk(t) ==
  /\ Up
  /\ pc[t] = "walk"
  /\ \/ /\ fate' = [fate EXCEPT ![held[t]] = "handled"]
        /\ pc' = [pc EXCEPT ![t] = "pull"]
        /\ UNCHANGED errors
     \/ /\ Fault
        /\ fate' = [fate EXCEPT ![held[t]] = "errored"]
        /\ pc' = [pc EXCEPT ![t] = "pull"]
     \/ /\ Fault
        /\ fate' = [fate EXCEPT ![held[t]] = "errored"]
        /\ pc' = [pc EXCEPT ![t] = "failed"]
  /\ held' = [held EXCEPT ![t] = None]
  /\ UNCHANGED <<serveVars, gateVars, channel, listening>>

-----------------------------------------------------------------------------
(* The admin API: pause and resume. *)

pause ==
  /\ Up
  /\ calls < MaxCalls /\ calls' = calls + 1
  /\ paused' = TRUE
  /\ UNCHANGED <<serveVars, fate, channel, listening, pc, held, notifying, errors>>

resume ==
  /\ Up
  /\ calls < MaxCalls /\ calls' = calls + 1
  /\ paused' = FALSE
  /\ notifying' = notifying + 1
  /\ UNCHANGED <<serveVars, fate, channel, listening, pc, held, errors>>

\* set_paused, second half: whoever has registered wakes up.
notify_waiters ==
  /\ Up
  /\ notifying > 0 /\ notifying' = notifying - 1
  /\ pc' = [t \in Triggers |-> IF pc[t] = "asleep" THEN "gate" ELSE pc[t]]
  /\ UNCHANGED <<serveVars, fate, channel, listening, held, paused, calls, errors>>

-----------------------------------------------------------------------------
(* Shutdown and the end of the run. *)

shutdown_signal ==
  /\ serving = "running"
  /\ serving' = "stopping"
  /\ UNCHANGED <<order, stopped, joined, run, gateVars, fate, channel, listening, pc, held, errors>>

\* The triggers are stopped in their order.
stop ==
  /\ serving = "stopping"
  /\ Cardinality(stopped) < Len(order)
  /\ stopped' = stopped \cup {order[Cardinality(stopped) + 1]}
  /\ UNCHANGED <<order, joined, run, serving, gateVars, fate, channel, listening, pc, held, errors>>

\* The server of a stopped HTTP trigger sees the signal and accepts nothing more.
ServerCloses(t) ==
  /\ Up
  /\ t \in stopped \cap listening
  /\ listening' = listening \ {t}
  /\ UNCHANGED <<serveVars, gateVars, fate, channel, pc, held, errors>>

\* Executor::run joins the next task, whose error it returns at once; after the last
\* it flushes.
Executor_run ==
  /\ Up
  /\ run = "on"
  /\ \/ /\ joined < Len(order)
        /\ pc[order[joined + 1]] = "ended"
        /\ joined' = joined + 1
        /\ UNCHANGED <<run, errors>>
     \/ /\ joined < Len(order)
        /\ pc[order[joined + 1]] = "failed"
        /\ run' = "error"
        /\ UNCHANGED <<joined, errors>>
     \/ /\ joined = Len(order)
        /\ run' = "ok"
        /\ UNCHANGED <<joined, errors>>
     \/ /\ joined = Len(order)
        /\ run' = "error"
        /\ Fault
        /\ UNCHANGED joined
  /\ UNCHANGED <<order, stopped, serving, gateVars, fate, channel, listening, pc, held>>

\* serve returns and the process ends: the run is over, and a shutdown that was
\* taken up has stopped every trigger.
serve_returns ==
  /\ Up
  /\ run # "on"
  /\ serving = "stopping" => stopped = Range(order)
  /\ serving' = "ended"
  /\ UNCHANGED <<order, stopped, joined, run, gateVars, fate, channel, listening, pc, held, errors>>

-----------------------------------------------------------------------------
Init ==
  /\ order \in Flows
  /\ fate = [p \in Payloads |-> "new"]
  /\ channel = [t \in Triggers |-> <<>>]
  /\ listening = Http \cap Range(order)
  /\ stopped = {}
  /\ pc = [t \in Triggers |-> IF t \in Range(order) THEN "pull" ELSE "ended"]
  /\ held = [t \in Triggers |-> None]
  /\ paused = FALSE /\ notifying = 0
  /\ joined = 0 /\ run = "on" /\ serving = "running"
  /\ calls = 0 /\ errors = 0

Intake(p) == Request(p) \/ ReadBody(p) \/ Abandon(p) \/ handle_request(p) \/ publish(p)

run_source(t) == Pull(t) \/ EndOfStream(t) \/ wait_unpaused(t) \/ walk(t)

Next ==
  \/ \E p \in Payloads : Intake(p)
  \/ \E t \in Triggers : run_source(t) \/ ServerCloses(t)
  \/ pause \/ resume \/ notify_waiters
  \/ shutdown_signal \/ stop
  \/ Executor_run \/ serve_returns

Spec == Init /\ [][Next]_vars

(* Every task runs while the process does.  (Handlers wait for room in a fair  *)
(* semaphore and a stream's select picks a ready branch at random; with the    *)
(* payloads bounded, weak fairness is enough.)  Nothing makes requests, their  *)
(* bodies, admin calls, failures or the signal happen.                         *)
Fairness ==
  /\ \A p \in Requests : WF_vars(handle_request(p))
  /\ \A t \in Triggers : WF_vars(run_source(t))
  /\ \A t \in Http : WF_vars(ServerCloses(t))
  /\ WF_vars(notify_waiters) /\ WF_vars(stop)
  /\ WF_vars(Executor_run \/ serve_returns)

FairSpec == Spec /\ Fairness

-----------------------------------------------------------------------------
\* docs/usage.md "停机时优雅排水" (drained on shutdown): when serve returns without an
\* error, no source task has failed, in whatever order the tasks ended and were joined,
\* every HTTP request that was answered 202 has been walked or counted as an error, and
\* no handler is left without an answer.
AcceptedIsHandled ==
  run = "ok" =>
    /\ \A t \in Triggers : pc[t] = "ended"
    /\ serving = "ended" => \A p \in Requests : fate[p] \notin InHandler \cup {"accepted"}

\* No source task holds a record at the pause gate for ever.
GateOpens == \A t \in Triggers : []<>(pc[t] # "asleep")

\* No client leaves the body of its request unfinished for ever: handle_request reads it
\* without a timeout.
BodiesEnd == \A p \in Requests : []<>(fate[p] # "reading")

\* serve.rs: a shutdown ends, whatever waits in channels and handlers, unless a record is
\* held at the pause gate, or the body of a request is left unfinished, for ever.
ShutdownCompletes == GateOpens /\ BodiesEnd => (serving = "stopping" ~> serving = "ended")

\* http.rs: every request whose body was read gets its answer, also when its channel is
\* full, the task behind it fails or the trigger is stopped, unless a record is held at
\* the gate for ever; the process ends without it only when the run failed.
RequestsAnswered ==
  GateOpens => \A p \in Requests :
    fate[p] = "posting" ~> (fate[p] # "posting" \/ (serving = "ended" /\ run = "error"))

\* pause.rs: "resuming wakes every waiter".
ResumeWakesEveryWaiter ==
  \A t \in Triggers :
    (pc[t] = "asleep" /\ ~paused) ~> (pc[t] # "asleep" \/ paused \/ serving = "ended")
=============================================================================
