---------------------------- MODULE ServeProofs -----------------------------
(***************************************************************************)
(* For any flow, any number of triggers, requests, messages and errors, and *)
(* any capacity of the channels: when serve returns without an error, what  *)
(* was answered 202 has been walked.                                        *)
(***************************************************************************)
EXTENDS Serve, TLAPS

-----------------------------------------------------------------------------
(* The inductive invariant. *)

Fates == {"new", "reading", "posting", "refused", "gone", "lost", "accepted", "handled", "errored"}
Places == {"pull", "gate", "checked", "asleep", "walk", "ended", "failed"}

\* Every variable the argument is about has the shape the code gives it.
TypeOK ==
  /\ order \in Flows /\ order \in Seq(Triggers)
  /\ fate \in [Payloads -> Fates]
  /\ channel \in [Triggers -> Seq(Payloads)]
  /\ listening \subseteq Http
  /\ pc \in [Triggers -> Places]
  /\ held \in [Triggers -> Payloads \cup {None}]
  /\ joined \in 0..Len(order)
  /\ run \in {"on", "ok", "error"}

\* Only a task that is past its pull and has not finished its walk has a record.
HasRecord(t) == pc[t] \in {"gate", "checked", "asleep", "walk"}
HeldInBetween == \A t \in Triggers : ~HasRecord(t) => held[t] = None

\* A payload that was accepted waits in the channel of its trigger or is being walked.
AcceptedIsSomewhere ==
  \A p \in Payloads : fate[p] = "accepted" =>
    \/ \E i \in 1..Len(channel[Home[p]]) : channel[Home[p]][i] = p
    \/ held[Home[p]] = p

\* The task of an HTTP trigger has ended only after its server has closed and its
\* channel and handlers are through, and nothing comes after.
EndedIsDrained ==
  \A t \in Http : pc[t] = "ended" =>
    /\ t \notin listening
    /\ channel[t] = <<>>
    /\ \A p \in Payloads : Home[p] = t => fate[p] \notin InHandler

\* The tasks the run has joined have ended, and so have those the flow does not have.
JoinedHaveEnded ==
  /\ \A i \in 1..joined : pc[order[i]] = "ended"
  /\ \A t \in Triggers \ Range(order) : pc[t] = "ended"
  /\ run = "ok" => joined = Len(order)

IInv ==
  /\ TypeOK /\ HeldInBetween /\ AcceptedIsSomewhere
  /\ EndedIsDrained /\ JoinedHaveEnded

-----------------------------------------------------------------------------
\* The three kinds of triggers are triggers.
LEMMA TriggersSplit == Http \subseteq Triggers /\ Queue \subseteq Triggers /\ Cron \subseteq Triggers
BY DEF Triggers

\* The steps that leave the records and the tasks alone.
LEMMA Quiet ==
  ASSUME \/ pause \/ resume \/ shutdown_signal \/ stop \/ serve_returns \/ Executor_run \/ UNCHANGED vars
  PROVE  UNCHANGED <<order, fate, channel, listening, pc, held>>
BY DEF pause, resume, shutdown_signal, stop, serve_returns, Executor_run, vars, serveVars, gateVars

\* No other step changes how far the run is.
LEMMA RunLeft ==
  ASSUME \/ \E p \in Payloads : Intake(p)
         \/ \E t \in Triggers : run_source(t) \/ ServerCloses(t)
         \/ pause \/ resume \/ notify_waiters \/ shutdown_signal \/ stop \/ serve_returns \/ UNCHANGED vars
  PROVE  UNCHANGED <<order, joined, run>>
BY DEF Intake, Request, ReadBody, Abandon, InHandler, handle_request, publish, run_source, Pull, EndOfStream, wait_unpaused, walk, ServerCloses,
   pause, resume, notify_waiters, shutdown_signal, stop, serve_returns, vars, serveVars

\* Steps keep the types.
LEMMA TypeStep == TypeOK /\ [Next]_vars => TypeOK'
<1> SUFFICES ASSUME TypeOK, [Next]_vars PROVE TypeOK'
  OBVIOUS
<1> USE ServeAssumption DEF Fates, Places
<1>1. ASSUME NEW p \in Payloads, Intake(p) PROVE TypeOK'
  <2>1. UNCHANGED <<order, joined, run>>
    BY <1>1, RunLeft
  <2>2. UNCHANGED <<listening, pc, held>>
    BY <1>1 DEF Intake, Request, ReadBody, Abandon, InHandler, handle_request, publish
  <2>3. fate' \in [Payloads -> Fates]
    BY <1>1 DEF Intake, Request, ReadBody, Abandon, InHandler, handle_request, publish, TypeOK
  <2>4. channel' \in [Triggers -> Seq(Payloads)]
    <3>1. channel \in [Triggers -> Seq(Payloads)] /\ Home[p] \in Triggers
      BY DEF TypeOK
    <3>2. Append(channel[Home[p]], p) \in Seq(Payloads)
      BY <3>1
    <3>3. channel' = channel \/ channel' = [channel EXCEPT ![Home[p]] = Append(channel[Home[p]], p)]
      BY <1>1 DEF Intake, Request, ReadBody, Abandon, InHandler, handle_request, publish
    <3>. QED BY <3>1, <3>2, <3>3
  <2>. QED BY <2>1, <2>2, <2>3, <2>4 DEF TypeOK
<1>2. ASSUME NEW t \in Triggers, Pull(t) PROVE TypeOK'
  <2>1. UNCHANGED <<order, joined, run, listening>>
    BY <1>2 DEF Pull, serveVars
  <2>2. pc' \in [Triggers -> Places]
    BY <1>2 DEF Pull, TypeOK
  <2>3. fate' \in [Payloads -> Fates]
    BY <1>2 DEF Pull, TypeOK
  <2>4. channel' \in [Triggers -> Seq(Payloads)] /\ held' \in [Triggers -> Payloads \cup {None}]
    <3>1. channel \in [Triggers -> Seq(Payloads)] /\ held \in [Triggers -> Payloads \cup {None}]
      BY DEF TypeOK
    <3>2. channel[t] # <<>> => Tail(channel[t]) \in Seq(Payloads) /\ Head(channel[t]) \in Payloads
      BY <3>1
    <3>3. CASE channel[t] # <<>> /\ held' = [held EXCEPT ![t] = Head(channel[t])] /\ channel' = [channel EXCEPT ![t] = Tail(@)]
      BY <3>1, <3>2, <3>3
    <3>4. CASE channel' = channel /\ \E p \in Payloads : held' = [held EXCEPT ![t] = p]
      BY <3>1, <3>4
    <3>. QED BY <1>2, <3>3, <3>4 DEF Pull
  <2>. QED BY <2>1, <2>2, <2>3, <2>4 DEF TypeOK
<1>3. ASSUME NEW t \in Triggers, EndOfStream(t) \/ wait_unpaused(t) PROVE TypeOK'
  <2>1. UNCHANGED <<order, joined, run, listening, fate, channel, held>>
    BY <1>3 DEF EndOfStream, wait_unpaused, serveVars
  <2>2. pc' \in [Triggers -> Places]
    BY <1>3 DEF EndOfStream, wait_unpaused, TypeOK
  <2>. QED BY <2>1, <2>2 DEF TypeOK
<1>4. ASSUME NEW t \in Triggers, walk(t) PROVE TypeOK'
  <2>1. UNCHANGED <<order, joined, run, listening, channel>>
    BY <1>4 DEF walk, serveVars
  <2>2. pc' \in [Triggers -> Places] /\ held' \in [Triggers -> Payloads \cup {None}]
    BY <1>4 DEF walk, TypeOK
  <2>3. fate' \in [Payloads -> Fates]
    BY <1>4 DEF walk, TypeOK
  <2>. QED BY <2>1, <2>2, <2>3 DEF TypeOK
<1>5. ASSUME NEW t \in Triggers, ServerCloses(t) PROVE TypeOK'
  BY <1>5 DEF ServerCloses, TypeOK, serveVars
<1>6. CASE notify_waiters
  <2>1. UNCHANGED <<order, joined, run, listening, fate, channel, held>>
    BY <1>6 DEF notify_waiters, serveVars
  <2>2. pc' \in [Triggers -> Places]
    BY <1>6 DEF notify_waiters, TypeOK
  <2>. QED BY <2>1, <2>2 DEF TypeOK
<1>7. CASE Executor_run
  <2>1. joined' \in 0..Len(order) /\ run' \in {"on", "ok", "error"}
    <3>1. Len(order) \in Nat /\ joined \in 0..Len(order) /\ run \in {"on", "ok", "error"}
      BY DEF TypeOK
    <3>. QED BY <1>7, <3>1 DEF Executor_run
  <2>. QED BY <1>7, <2>1, Quiet DEF TypeOK
<1>8. CASE pause \/ resume \/ shutdown_signal \/ stop \/ serve_returns \/ UNCHANGED vars
  BY <1>8, Quiet, RunLeft DEF TypeOK
<1>. QED BY <1>1, <1>2, <1>3, <1>4, <1>5, <1>6, <1>7, <1>8 DEF Next, run_source

\* A task has a record only between its pull and the end of its walk.
LEMMA HeldStep == TypeOK /\ HeldInBetween /\ [Next]_vars => HeldInBetween'
<1> SUFFICES ASSUME TypeOK, HeldInBetween, [Next]_vars PROVE HeldInBetween'
  OBVIOUS
<1>1. ASSUME NEW p \in Payloads, Intake(p) PROVE HeldInBetween'
  BY <1>1 DEF Intake, Request, ReadBody, Abandon, InHandler, handle_request, publish, HeldInBetween, HasRecord
<1>2. ASSUME NEW t \in Triggers, run_source(t) PROVE HeldInBetween'
  <2>1. CASE Pull(t) \/ walk(t)
    <3>1. /\ \A u \in Triggers \ {t} : held'[u] = held[u] /\ pc'[u] = pc[u]
          /\ pc'[t] = "gate" \/ held'[t] = None
      <4>1. CASE Pull(t)
        BY <4>1 DEF Pull, TypeOK
      <4>2. CASE walk(t)
        BY <4>2 DEF walk, TypeOK
      <4>. QED BY <2>1, <4>1, <4>2
    <3>. QED BY <3>1 DEF HeldInBetween, HasRecord
  <2>2. CASE EndOfStream(t) \/ wait_unpaused(t)
    BY <2>2 DEF EndOfStream, wait_unpaused, HeldInBetween, HasRecord, TypeOK
  <2>. QED BY <1>2, <2>1, <2>2 DEF run_source
<1>3. ASSUME NEW t \in Triggers, ServerCloses(t) PROVE HeldInBetween'
  BY <1>3 DEF ServerCloses, HeldInBetween, HasRecord
<1>4. CASE notify_waiters
  BY <1>4 DEF notify_waiters, HeldInBetween, HasRecord, TypeOK
<1>5. CASE pause \/ resume \/ shutdown_signal \/ stop \/ serve_returns \/ Executor_run \/ UNCHANGED vars
  BY <1>5, Quiet DEF HeldInBetween, HasRecord
<1>. QED BY <1>1, <1>2, <1>3, <1>4, <1>5 DEF Next

\* An accepted payload stays in its channel or with its task until it is walked.
LEMMA AcceptedStep == TypeOK /\ HeldInBetween /\ AcceptedIsSomewhere /\ [Next]_vars => AcceptedIsSomewhere'
<1> SUFFICES ASSUME TypeOK, HeldInBetween, AcceptedIsSomewhere, [Next]_vars,
                    NEW p \in Payloads, fate'[p] = "accepted"
             PROVE  \/ \E i \in 1..Len(channel'[Home[p]]) : channel'[Home[p]][i] = p
                    \/ held'[Home[p]] = p
  BY DEF AcceptedIsSomewhere
<1> DEFINE t == Home[p]
<1>0. t \in Triggers /\ channel[t] \in Seq(Payloads)
  BY ServeAssumption DEF TypeOK
<1>1. fate[p] = "accepted" => (\E i \in 1..Len(channel[t]) : channel[t][i] = p) \/ held[t] = p
  BY DEF AcceptedIsSomewhere
<1>2. CASE fate[p] = "accepted" /\ channel'[t] = channel[t] /\ held'[t] = held[t]
  BY <1>1, <1>2
<1>3. ASSUME NEW q \in Payloads, Intake(q)
      PROVE  (\E i \in 1..Len(channel'[t]) : channel'[t][i] = p) \/ held'[t] = p
  <2>1. held' = held
    BY <1>3 DEF Intake, Request, ReadBody, Abandon, InHandler, handle_request, publish
  <2>2. channel' = channel \/ channel' = [channel EXCEPT ![Home[q]] = Append(channel[Home[q]], q)]
    BY <1>3 DEF Intake, Request, ReadBody, Abandon, InHandler, handle_request, publish
  <2>3. CASE q = p
    <3>1. fate[p] # "accepted"
      BY <1>3, <2>3 DEF Intake, Request, ReadBody, Abandon, InHandler, handle_request, publish
    <3>2. channel' = [channel EXCEPT ![t] = Append(channel[t], p)]
      BY <1>3, <2>3, <3>1 DEF Intake, Request, ReadBody, Abandon, InHandler, handle_request, publish, TypeOK
    <3>3. channel'[t] = Append(channel[t], p)
      BY <1>0, <3>2 DEF TypeOK
    <3>4. /\ Len(channel[t]) + 1 \in 1..Len(Append(channel[t], p))
          /\ Append(channel[t], p)[Len(channel[t]) + 1] = p
      BY <1>0
    <3>. QED BY <3>3, <3>4
  <2>4. CASE q # p
    <3>1. fate[p] = "accepted"
      BY <1>3, <2>4 DEF Intake, Request, ReadBody, Abandon, InHandler, handle_request, publish, TypeOK
    <3>2. channel'[t] = channel[t] \/ channel'[t] = Append(channel[t], q)
      BY <1>0, <2>2 DEF TypeOK
    <3>3. \A i \in 1..Len(channel[t]) : i \in 1..Len(Append(channel[t], q)) /\ Append(channel[t], q)[i] = channel[t][i]
      BY <1>0
    <3>. QED BY <1>1, <2>1, <3>1, <3>2, <3>3
  <2>. QED BY <2>3, <2>4
<1>4. ASSUME NEW u \in Triggers, Pull(u)
      PROVE  (\E i \in 1..Len(channel'[t]) : channel'[t][i] = p) \/ held'[t] = p
  <2>1. CASE channel[u] # <<>> /\ held' = [held EXCEPT ![u] = Head(channel[u])]
             /\ channel' = [channel EXCEPT ![u] = Tail(@)] /\ fate' = fate
    <3>1. CASE u # t
      BY <1>0, <1>2, <2>1, <3>1 DEF TypeOK
    <3>2. CASE u = t
      <4>1. held[t] = None
        BY <1>4, <3>2 DEF Pull, HeldInBetween, HasRecord
      <4>2. PICK i \in 1..Len(channel[t]) : channel[t][i] = p
        BY <1>1, <2>1, <4>1, ServeAssumption
      <4>3. channel'[t] = Tail(channel[t]) /\ held'[t] = Head(channel[t])
        BY <1>0, <2>1, <3>2 DEF TypeOK
      <4>4. CASE i = 1
        BY <1>0, <4>2, <4>3, <4>4
      <4>5. CASE i # 1
        <5>1. i - 1 \in 1..Len(Tail(channel[t])) /\ Tail(channel[t])[i - 1] = channel[t][i]
          BY <1>0, <4>5
        <5>. QED BY <4>2, <4>3, <5>1
      <4>. QED BY <4>4, <4>5
    <3>. QED BY <3>1, <3>2
  <2>2. CASE /\ channel' = channel
             /\ \E q \in Payloads : Home[q] = u /\ fate[q] = "new" /\ fate' = [fate EXCEPT ![q] = "accepted"]
                                    /\ held' = [held EXCEPT ![u] = q]
    <3>1. PICK q \in Payloads : Home[q] = u /\ fate[q] = "new" /\ fate' = [fate EXCEPT ![q] = "accepted"]
                                /\ held' = [held EXCEPT ![u] = q]
      BY <2>2
    <3>2. CASE q = p
      BY <1>0, <3>1, <3>2 DEF TypeOK
    <3>3. CASE q # p /\ u # t
      <4>1. fate[p] = "accepted" /\ held'[t] = held[t]
        BY <1>0, <3>1, <3>3 DEF TypeOK
      <4>. QED BY <1>2, <2>2, <4>1
    <3>4. CASE q # p /\ u = t
      <4>1. fate[p] = "accepted" /\ held[t] = None
        BY <1>4, <3>1, <3>4 DEF TypeOK, Pull, HeldInBetween, HasRecord
      <4>. QED BY <1>1, <2>2, <4>1, ServeAssumption
    <3>. QED BY <3>2, <3>3, <3>4
  <2>. QED BY <1>4, <2>1, <2>2 DEF Pull
<1>5. ASSUME NEW u \in Triggers, walk(u)
      PROVE  (\E i \in 1..Len(channel'[t]) : channel'[t][i] = p) \/ held'[t] = p
  <2>1. channel' = channel /\ held[u] # p /\ fate[p] = "accepted"
    BY <1>5 DEF walk, TypeOK
  <2>2. u = t \/ held'[t] = held[t]
    BY <1>0, <1>5 DEF walk, TypeOK
  <2>. QED BY <1>1, <2>1, <2>2
<1>6. ASSUME NEW u \in Triggers, EndOfStream(u) \/ wait_unpaused(u) \/ ServerCloses(u)
      PROVE  UNCHANGED <<fate, channel, held>>
  BY <1>6 DEF EndOfStream, wait_unpaused, ServerCloses
<1>7. CASE notify_waiters
  BY <1>2, <1>7 DEF notify_waiters
<1>8. CASE pause \/ resume \/ shutdown_signal \/ stop \/ serve_returns \/ Executor_run \/ UNCHANGED vars
  BY <1>2, <1>8, Quiet
<1>. QED BY <1>2, <1>3, <1>4, <1>5, <1>6, <1>7, <1>8 DEF Next, run_source

\* A task that has ended stays so; an ended or failed task does nothing more.
LEMMA EndedStays ==
  ASSUME TypeOK, [Next]_vars, NEW t \in Triggers, pc[t] = "ended"
  PROVE  pc'[t] = "ended"
<1>1. ASSUME NEW p \in Payloads, Intake(p) PROVE pc' = pc
  BY <1>1 DEF Intake, Request, ReadBody, Abandon, InHandler, handle_request, publish
<1>2. ASSUME NEW u \in Triggers, run_source(u) PROVE pc'[t] = pc[t]
  BY <1>2 DEF run_source, Pull, EndOfStream, wait_unpaused, walk, TypeOK
<1>3. ASSUME NEW u \in Triggers, ServerCloses(u) PROVE pc' = pc
  BY <1>3 DEF ServerCloses
<1>4. CASE notify_waiters
  BY <1>4 DEF notify_waiters
<1>. QED BY <1>1, <1>2, <1>3, <1>4, Quiet DEF Next

\* A task ends only after its server has closed and its channel is empty.
LEMMA DrainedStep == TypeOK /\ EndedIsDrained /\ [Next]_vars => EndedIsDrained'
<1> SUFFICES ASSUME TypeOK, EndedIsDrained, [Next]_vars, NEW t \in Http, pc'[t] = "ended"
             PROVE  /\ t \notin listening'
                    /\ channel'[t] = <<>>
                    /\ \A p \in Payloads : Home[p] = t => fate'[p] \notin InHandler
  BY DEF EndedIsDrained
<1>0. t \in Triggers
  BY TriggersSplit
<1>1. pc[t] = "ended" => /\ t \notin listening
                         /\ channel[t] = <<>>
                         /\ \A p \in Payloads : Home[p] = t => fate[p] \notin InHandler
  BY DEF EndedIsDrained
<1>2. ASSUME NEW q \in Payloads, Intake(q)
      PROVE  /\ t \notin listening'
             /\ channel'[t] = <<>>
             /\ \A p \in Payloads : Home[p] = t => fate'[p] \notin InHandler
  <2>1. pc' = pc /\ listening' = listening
    BY <1>2 DEF Intake, Request, ReadBody, Abandon, InHandler, handle_request, publish
  <2>2. channel'[t] = channel[t]
    <3>1. channel' = channel \/ (Open(Home[q]) /\ channel' = [channel EXCEPT ![Home[q]] = Append(@, q)])
      BY <1>2 DEF Intake, Request, ReadBody, Abandon, InHandler, handle_request, publish
    <3>2. Open(Home[q]) => Home[q] # t
      BY <2>1 DEF Open
    <3>3. channel \in [Triggers -> Seq(Payloads)] /\ t \in Triggers
      BY <1>0 DEF TypeOK
    <3>. QED BY <3>1, <3>2, <3>3
  <2>3. \A p \in Payloads : Home[p] = t => fate'[p] \notin InHandler
    BY <1>1, <1>2, <2>1 DEF Intake, Request, ReadBody, Abandon, InHandler, handle_request, publish, TypeOK
  <2>. QED BY <1>1, <2>1, <2>2, <2>3
<1>3. ASSUME NEW u \in Triggers, run_source(u)
      PROVE  /\ t \notin listening'
             /\ channel'[t] = <<>>
             /\ \A p \in Payloads : Home[p] = t => fate'[p] \notin InHandler
  <2>1. listening' = listening
    BY <1>3 DEF run_source, Pull, EndOfStream, wait_unpaused, walk
  <2>2. CASE u # t
    <3>1. pc[t] = "ended" /\ channel'[t] = channel[t]
      BY <1>0, <1>3, <2>2 DEF run_source, Pull, EndOfStream, wait_unpaused, walk, TypeOK
    <3>2. \A p \in Payloads : fate'[p] \in InHandler => fate[p] \in InHandler
      BY <1>3 DEF run_source, Pull, EndOfStream, wait_unpaused, walk, TypeOK, InHandler
    <3>. QED BY <1>1, <2>1, <3>1, <3>2
  <2>3. CASE u = t
    <3>1. EndOfStream(t)
      BY <1>0, <1>3, <2>3 DEF run_source, Pull, wait_unpaused, walk, TypeOK
    <3>. QED BY <3>1 DEF EndOfStream, AtEnd
  <2>. QED BY <2>2, <2>3
<1>4. ASSUME NEW u \in Triggers, ServerCloses(u)
      PROVE  /\ t \notin listening'
             /\ channel'[t] = <<>>
             /\ \A p \in Payloads : Home[p] = t => fate'[p] \notin InHandler
  BY <1>1, <1>4 DEF ServerCloses
<1>5. CASE notify_waiters
  BY <1>0, <1>1, <1>5 DEF notify_waiters, TypeOK
<1>6. CASE pause \/ resume \/ shutdown_signal \/ stop \/ serve_returns \/ Executor_run \/ UNCHANGED vars
  BY <1>1, <1>6, Quiet
<1>. QED BY <1>2, <1>3, <1>4, <1>5, <1>6 DEF Next

\* Tasks are joined only after they have ended.
LEMMA JoinedStep == TypeOK /\ JoinedHaveEnded /\ [Next]_vars => JoinedHaveEnded'
<1> SUFFICES ASSUME TypeOK, JoinedHaveEnded, [Next]_vars PROVE JoinedHaveEnded'
  OBVIOUS
<1>0. order \in Seq(Triggers) /\ joined \in 0..Len(order) /\ Len(order) \in Nat
  BY DEF TypeOK
<1>1. \A i \in 1..joined : order[i] \in Triggers
  BY <1>0
<1>2. CASE UNCHANGED <<order, joined, run>>
  BY <1>1, <1>2, EndedStays DEF JoinedHaveEnded
<1>3. CASE Executor_run
  <2>1. UNCHANGED <<order, pc>>
    BY <1>3, Quiet
  <2>2. CASE joined < Len(order) /\ pc[order[joined + 1]] = "ended" /\ joined' = joined + 1 /\ run' = run /\ run = "on"
    BY <1>0, <2>1, <2>2 DEF JoinedHaveEnded
  <2>3. CASE joined' = joined /\ (run' = "error" \/ joined = Len(order))
    BY <1>0, <2>1, <2>3 DEF JoinedHaveEnded
  <2>. QED BY <1>3, <2>2, <2>3 DEF Executor_run
<1>. QED BY <1>2, <1>3, RunLeft DEF Next

\* Init establishes the inductive invariant.
LEMMA InitHolds == Init => IInv
<1> SUFFICES ASSUME Init PROVE IInv
  OBVIOUS
<1>1. order \in Flows /\ order \in Seq(Triggers)
  BY ServeAssumption DEF Init
<1>2. TypeOK
  BY <1>1 DEF Init, TypeOK, Fates, Places
<1>3. HeldInBetween /\ AcceptedIsSomewhere
  BY DEF Init, HeldInBetween, AcceptedIsSomewhere
<1>4. EndedIsDrained
  BY TriggersSplit DEF Init, EndedIsDrained, InHandler
<1>5. JoinedHaveEnded
  BY DEF Init, JoinedHaveEnded
<1>. QED BY <1>2, <1>3, <1>4, <1>5 DEF IInv

-----------------------------------------------------------------------------
(* The results. *)

\* The inductive invariant holds in every state.
THEOREM Invariance == Spec => []IInv
<1>1. IInv /\ [Next]_vars => IInv'
  BY TypeStep, HeldStep, AcceptedStep, DrainedStep, JoinedStep DEF IInv
<1>. QED BY <1>1, InitHolds, PTL DEF Spec

\* docs/usage.md "停机时优雅排水": when serve returns without an error, every task has ended and
\* every request that was answered 202 has been walked or counted as an error.
THEOREM DrainedOnShutdown == Spec => []AcceptedIsHandled
<1>1. IInv => AcceptedIsHandled
  <2> SUFFICES ASSUME IInv, run = "ok"
               PROVE  /\ \A t \in Triggers : pc[t] = "ended"
                      /\ serving = "ended" => \A p \in Requests : fate[p] \notin InHandler \cup {"accepted"}
    BY DEF AcceptedIsHandled
  <2>1. \A t \in Triggers : pc[t] = "ended"
    <3>1. order \in Seq(Triggers) /\ joined = Len(order)
      BY DEF IInv, TypeOK, JoinedHaveEnded
    <3>2. \A t \in Range(order) : \E i \in 1..joined : t = order[i]
      BY <3>1 DEF Range
    <3>. QED BY <3>2 DEF IInv, JoinedHaveEnded
  <2>2. ASSUME NEW p \in Requests PROVE fate[p] \notin InHandler \cup {"accepted"}
    <3>1. p \in Payloads /\ Home[p] \in Http /\ Home[p] \in Triggers /\ pc[Home[p]] = "ended"
      BY <2>1, TriggersSplit DEF Requests
    <3>2. channel[Home[p]] = <<>> /\ fate[p] \notin InHandler
      BY <3>1 DEF IInv, EndedIsDrained
    <3>3. held[Home[p]] = None /\ p # None
      BY <3>1, ServeAssumption DEF IInv, HeldInBetween, HasRecord
    <3>4. fate[p] # "accepted"
      BY <3>1, <3>2, <3>3 DEF IInv, AcceptedIsSomewhere
    <3>. QED BY <3>2, <3>4
  <2>. QED BY <2>1, <2>2
<1>. QED BY <1>1, Invariance, PTL
=============================================================================
