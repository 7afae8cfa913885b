------------------------------- MODULE Relay --------------------------------
(***************************************************************************)
(* The plane's relay of one topic between instances (sohara-plane          *)
(* relay_api.rs, sohara-triggers relay.rs).  Instances and the gateway     *)
(* publish to a bounded mailbox of the plane; every subscribed instance    *)
(* pulls from it, one request at a time, and keeps a cursor, of which the  *)
(* plane keeps a floor under the subscriber's stable id.  Mailbox and      *)
(* floors are in memory only.  Topics are independent of each other.       *)
(*                                                                         *)
(* What an instance publishes, and what its relay pulls, it offers to the  *)
(* in-process bus (bus.rs), which puts it into the bounded channel of the  *)
(* topic's queue trigger, or drops it.  The channel is written as all that *)
(* was ever put into it (heard) and how much of that was taken.            *)
(*                                                                         *)
(* The mailbox (seq, buffer) is written as the sequence of all messages    *)
(* accepted since the plane started: seq is its length, a message's number *)
(* its position, and the buffer its last RELAY_CAP messages.               *)
(***************************************************************************)
EXTENDS Integers, Sequences, FiniteSets, FiniteSetsExt, Functions

CONSTANTS
  Instances,              \* instances that publish to the topic
  Subscribers,            \* those with a queue trigger for it
  Messages,               \* payloads, each published at most once
  None,
  RELAY_CAP,              \* messages retained by the plane
  RELAY_BATCH,            \* messages of one response
  CHANNEL_CAP,            \* payloads waiting for a queue trigger
  MaxLost,                \* bound: lost posts, requests and responses
  RestartBound            \* bound: restarts of instances and of the plane

ASSUME RelayAssumption ==
  /\ None \notin Messages \cup Nat \cup [messages : Seq(Messages), next : Nat \cup {None}]
  /\ Subscribers \subseteq Instances
  /\ {RELAY_CAP, RELAY_BATCH, CHANNEL_CAP} \subseteq Nat \ {0}
  /\ {MaxLost, RestartBound} \subseteq Nat

VARIABLES
  mailbox,        \* messages accepted since the plane started
  relay_cursors,  \* plane: per subscriber, the floor of its cursor
  posts,          \* messages being posted to the plane, each by a task of its own
  published,      \* messages published so far
  cursors,        \* subscriber: its cursor
  asked,          \* subscriber: the cursor in the request under way, or None
  reply,          \* the response under way to each subscriber, what is left of it, or None
  applying,       \* subscribers amid the messages of a response
  injected,       \* per subscriber, what the relay has offered to its local bus
  missed,         \* per subscriber, what of that the bus dropped
  dropped,        \* per subscriber, messages of responses that never arrived
  heard,          \* per subscriber, all that was put into its trigger's channel: the message
                  \*   and its place in injected, 0 for what the instance published itself
  taken,          \* per subscriber, how much of heard has left the channel
  receiving,      \* subscribers whose queue trigger still receives
  losses, subscriberRestarts, planeRestarts  \* what the bounds count

planeVars == <<mailbox, relay_cursors>>
subscriberVars == <<cursors, asked, reply, applying, injected, missed, dropped>>
channelVars == <<heard, taken, receiving>>
bounds == <<losses, subscriberRestarts, planeRestarts>>
vars == <<mailbox, relay_cursors, posts, published, cursors, asked, reply, applying, injected, missed,
          dropped, heard, taken, receiving, losses, subscriberRestarts, planeRestarts>>

-----------------------------------------------------------------------------
(* The local bus and the queue trigger. *)

Room(s) == s \in receiving /\ Len(heard[s]) - taken[s] < CHANNEL_CAP

\* InProcessBus::publish: what finds no room is dropped, and the publisher is not told.
bus_publish(s, m, from) ==
  /\ heard' = IF Room(s) THEN [heard EXCEPT ![s] = Append(@, [message |-> m, from |-> from])] ELSE heard
  /\ UNCHANGED <<taken, receiving>>

\* The trigger's source takes the next payload, whenever the run lets it.
take(s) ==
  /\ s \in receiving /\ taken[s] < Len(heard[s])
  /\ taken' = [taken EXCEPT ![s] = @ + 1]
  /\ UNCHANGED <<planeVars, posts, published, subscriberVars, heard, receiving, bounds>>

\* The trigger is stopped or its source fails: the receiver is dropped with what waits
\* in the channel, while the pull loop goes on.
TriggerEnds(s) ==
  /\ s \in receiving
  /\ receiving' = receiving \ {s}
  /\ taken' = [taken EXCEPT ![s] = Len(heard[s])]
  /\ UNCHANGED <<planeVars, posts, published, subscriberVars, heard, bounds>>

-----------------------------------------------------------------------------
(* Publishing. *)

\* The next message to be published; which one is of no consequence.
Fresh(m) == m \notin published /\ m = CHOOSE n \in Messages : n \notin published

relay_publish(m) == mailbox' = Append(mailbox, m)

\* RelayBus::publish: the instance's own bus first; then the post, which runs in a task
\* of its own and is not repeated.
publish(i, m) ==
  /\ Fresh(m)
  /\ published' = published \cup {m}
  /\ posts' = posts \cup {m}
  /\ IF i \in Subscribers THEN bus_publish(i, m, 0) ELSE UNCHANGED channelVars
  /\ UNCHANGED <<planeVars, subscriberVars, bounds>>

PostArrives(m) ==
  /\ m \in posts
  /\ posts' = posts \ {m}
  /\ relay_publish(m)
  /\ UNCHANGED <<relay_cursors, published, subscriberVars, channelVars, bounds>>

PostFails(m) ==
  /\ m \in posts
  /\ losses < MaxLost /\ losses' = losses + 1
  /\ posts' = posts \ {m}
  /\ UNCHANGED <<planeVars, published, subscriberVars, channelVars, subscriberRestarts, planeRestarts>>

\* A gateway route with mode "bus" publishes in the plane itself.
bus_dispatch(m) ==
  /\ Fresh(m)
  /\ published' = published \cup {m}
  /\ relay_publish(m)
  /\ UNCHANGED <<relay_cursors, posts, subscriberVars, channelVars, bounds>>

-----------------------------------------------------------------------------
(* Pulling. *)

\* The position before the oldest retained message.
Evicted == Max({0, Len(mailbox) - RELAY_CAP})

\* Mutant of PullFrom: the floor kept for the subscriber is ignored.
PullFromAfter(s) == asked[s]

\* Where a pull starts: the subscriber's cursor, or the plane's floor for it.
PullFrom(s) == Max({asked[s], relay_cursors[s]})

\* Mutants of Batch: a batch one short of the cursor reported with it; the cursor of
\* the newest message although the batch is full.
BatchShort(s) ==
  LET from == Max({PullFrom(s), Evicted})
      to   == Min({from + RELAY_BATCH, Len(mailbox)})
  IN IF from < to THEN [messages |-> SubSeq(mailbox, from + 1, to - 1), next |-> to]
     ELSE [messages |-> <<>>, next |-> PullFrom(s)]

BatchCursorAtNewest(s) ==
  LET from == Max({PullFrom(s), Evicted})
      to   == Min({from + RELAY_BATCH, Len(mailbox)})
  IN IF from < to THEN [messages |-> SubSeq(mailbox, from + 1, to), next |-> Len(mailbox)]
     ELSE [messages |-> <<>>, next |-> PullFrom(s)]

\* The retained messages above PullFrom, oldest first, at most RELAY_BATCH of
\* them, and the cursor after them.
Batch(s) ==
  LET from == Max({PullFrom(s), Evicted})
      to   == Min({from + RELAY_BATCH, Len(mailbox)})
  IN IF from < to THEN [messages |-> SubSeq(mailbox, from + 1, to), next |-> to]
     ELSE [messages |-> <<>>, next |-> PullFrom(s)]

\* The tick of the pull loop.
request_pull(s) ==
  /\ asked[s] = None /\ reply[s] = None
  /\ asked' = [asked EXCEPT ![s] = cursors[s]]
  /\ UNCHANGED <<planeVars, posts, published, cursors, reply, applying, injected, missed, dropped, channelVars, bounds>>

\* The plane answers and advances the floor; a topic nobody published to since
\* the plane started is passed over.
relay_pull(s) ==
  /\ asked[s] # None
  /\ asked' = [asked EXCEPT ![s] = None]
  /\ IF mailbox = <<>>
     THEN /\ reply' = [reply EXCEPT ![s] = [messages |-> <<>>, next |-> None]]
          /\ UNCHANGED relay_cursors
     ELSE /\ reply' = [reply EXCEPT ![s] = Batch(s)]
          /\ relay_cursors' = [relay_cursors EXCEPT ![s] = Batch(s).next]
  /\ UNCHANGED <<mailbox, posts, published, cursors, applying, injected, missed, dropped, channelVars, bounds>>

RequestLost(s) ==
  /\ asked[s] # None
  /\ losses < MaxLost /\ losses' = losses + 1
  /\ asked' = [asked EXCEPT ![s] = None]
  /\ UNCHANGED <<planeVars, posts, published, cursors, reply, applying, injected, missed, dropped, channelVars,
                 subscriberRestarts, planeRestarts>>

\* The response has reached the subscriber: it offers the messages to its bus, one after
\* the other and whatever becomes of them, ...
apply_message(s) ==
  /\ reply[s] # None /\ reply[s].messages # <<>>
  /\ LET m == Head(reply[s].messages) IN
     /\ reply' = [reply EXCEPT ![s].messages = Tail(@)]
     /\ applying' = applying \cup {s}
     /\ injected' = [injected EXCEPT ![s] = Append(@, m)]
     /\ bus_publish(s, m, Len(injected[s]) + 1)
     /\ missed' = IF Room(s) THEN missed ELSE [missed EXCEPT ![s] = @ \cup {m}]
  /\ UNCHANGED <<planeVars, posts, published, cursors, asked, dropped, bounds>>

\* ... and then moves its cursor.
apply_response(s) ==
  /\ reply[s] # None /\ reply[s].messages = <<>>
  /\ reply' = [reply EXCEPT ![s] = None]
  /\ applying' = applying \ {s}
  /\ cursors' = IF reply[s].next = None THEN cursors ELSE [cursors EXCEPT ![s] = reply[s].next]
  /\ UNCHANGED <<planeVars, posts, published, asked, injected, missed, dropped, channelVars, bounds>>

Drop(s) ==
  dropped' = IF reply[s] = None THEN dropped
             ELSE [dropped EXCEPT ![s] = @ \cup Range(reply[s].messages)]

\* It never arrives: the subscriber will ask again from its old cursor.
ResponseLost(s) ==
  /\ reply[s] # None /\ s \notin applying
  /\ losses < MaxLost /\ losses' = losses + 1
  /\ Drop(s)
  /\ reply' = [reply EXCEPT ![s] = None]
  /\ UNCHANGED <<planeVars, posts, published, cursors, asked, applying, injected, missed, channelVars,
                 subscriberRestarts, planeRestarts>>

-----------------------------------------------------------------------------
(* Restarts. *)

\* The instance keeps its subscriber id and forgets its cursor, what is left of a
\* response and what waits in the channel.
SubscriberRestart(s) ==
  /\ subscriberRestarts + planeRestarts < RestartBound /\ subscriberRestarts' = subscriberRestarts + 1
  /\ cursors' = [cursors EXCEPT ![s] = 0]
  /\ asked' = [asked EXCEPT ![s] = None]
  /\ Drop(s)
  /\ reply' = [reply EXCEPT ![s] = None]
  /\ applying' = applying \ {s}
  /\ taken' = [taken EXCEPT ![s] = Len(heard[s])]
  /\ receiving' = receiving \cup {s}
  /\ UNCHANGED <<planeVars, posts, published, injected, missed, heard, losses, planeRestarts>>

PlaneRestart ==
  /\ subscriberRestarts + planeRestarts < RestartBound /\ planeRestarts' = planeRestarts + 1
  /\ mailbox' = <<>>
  /\ relay_cursors' = [s \in Subscribers |-> 0]
  /\ UNCHANGED <<posts, published, subscriberVars, channelVars, losses, subscriberRestarts>>

-----------------------------------------------------------------------------
Init ==
  /\ mailbox = <<>>
  /\ relay_cursors = [s \in Subscribers |-> 0]
  /\ posts = {} /\ published = {}
  /\ cursors = [s \in Subscribers |-> 0]
  /\ asked = [s \in Subscribers |-> None]
  /\ reply = [s \in Subscribers |-> None]
  /\ applying = {}
  /\ injected = [s \in Subscribers |-> <<>>]
  /\ missed = [s \in Subscribers |-> {}]
  /\ dropped = [s \in Subscribers |-> {}]
  /\ heard = [s \in Subscribers |-> <<>>]
  /\ taken = [s \in Subscribers |-> 0]
  /\ receiving = Subscribers
  /\ losses = 0 /\ subscriberRestarts = 0 /\ planeRestarts = 0

Publish(m) == PostArrives(m) \/ PostFails(m) \/ bus_dispatch(m) \/ \E i \in Instances : publish(i, m)

Pull(s) ==
  \/ request_pull(s) \/ relay_pull(s) \/ RequestLost(s)
  \/ apply_message(s) \/ apply_response(s) \/ ResponseLost(s)

Next ==
  \/ \E m \in Messages : Publish(m)
  \/ \E s \in Subscribers : Pull(s) \/ take(s) \/ TriggerEnds(s) \/ SubscriberRestart(s)
  \/ PlaneRestart

Spec == Init /\ [][Next]_vars

(* The pull loop of a live instance ticks for ever, an HTTP exchange that is *)
(* not lost ends, and a response that arrived is applied.  Nothing makes a   *)
(* trigger take: a paused or busy run may leave its channel full for ever.   *)
Fairness ==
  \A s \in Subscribers :
    /\ WF_vars(request_pull(s)) /\ WF_vars(relay_pull(s))
    /\ WF_vars(apply_message(s)) /\ WF_vars(apply_response(s))

FairSpec == Spec /\ Fairness

-----------------------------------------------------------------------------
\* Every variable has the shape the code gives it.
TypeOK ==
  /\ mailbox \in Seq(Messages)
  /\ relay_cursors \in [Subscribers -> Nat]
  /\ posts \subseteq Messages /\ published \subseteq Messages
  /\ cursors \in [Subscribers -> Nat]
  /\ asked \in [Subscribers -> Nat \cup {None}]
  /\ reply \in [Subscribers -> [messages : Seq(Messages), next : Nat \cup {None}] \cup {None}]
  /\ applying \subseteq Subscribers
  /\ injected \in [Subscribers -> Seq(Messages)]
  /\ missed \in [Subscribers -> SUBSET Messages]
  /\ dropped \in [Subscribers -> SUBSET Messages]
  /\ heard \in [Subscribers -> Seq([message : Messages, from : Nat])]
  /\ taken \in [Subscribers -> Nat]
  /\ receiving \subseteq Subscribers
  /\ losses \in Nat /\ subscriberRestarts \in Nat /\ planeRestarts \in Nat

Own(entry) == entry.from = 0

\* relay_api.rs, "at-most-once per cursor": through lost responses, instance
\* restarts (whose cursor starts at 0) and plane restarts, a queue trigger gets no
\* message from the relay twice, and gets the relay's messages in the order the plane
\* accepted them.  The one message it does get twice is one its own instance
\* published: from RelayBus::publish at once, in no order with the plane's, and from the
\* relay later.
RelayedOnceInOrder ==
  \A s \in Subscribers : \A i, j \in 1..Len(heard[s]) : i < j =>
    LET a == heard[s][i]
        b == heard[s][j]
    IN /\ a.message = b.message => Own(a) /\ ~Own(b)
       /\ ~Own(a) /\ ~Own(b) =>
            \A p, q \in 1..Len(mailbox) : mailbox[p] = a.message /\ mailbox[q] = b.message => p < q

\* While the plane lives, the floor never runs ahead of the mailbox, and nothing at
\* or below it that is still there was skipped: it was offered to the local bus, is on
\* its way, or was in a response that never arrived or was cut short by a restart.
FloorAccountsForMessages ==
  planeRestarts = 0 => \A s \in Subscribers :
    /\ relay_cursors[s] <= Len(mailbox)
    /\ \A p \in (Evicted + 1)..relay_cursors[s] :
         \/ mailbox[p] \in Range(injected[s]) \cup dropped[s]
         \/ reply[s] # None /\ mailbox[p] \in Range(reply[s].messages)

\* The relay has put the message into the trigger's channel.
GotFromRelay(s, m) == \E i \in 1..Len(heard[s]) : heard[s][i].message = m /\ ~Own(heard[s][i])

\* The subscriber has the message, or found no room for it, or lost it with a response,
\* or the message was pushed out of the mailbox before the subscriber asked for it.
Settled(s, m) ==
  \/ GotFromRelay(s, m)
  \/ m \in missed[s] \cup dropped[s]
  \/ m \notin Range(SubSeq(mailbox, Evicted + 1, Len(mailbox)))

\* A message the plane accepted reaches the channel of every subscriber's queue trigger,
\* unless it is evicted first, the response that carried it was lost or cut short, the
\* plane restarts, or the bus drops it because the channel is full or the trigger has
\* ended (apply_response moves the cursor all the same).
AcceptedIsDelivered ==
  \A s \in Subscribers, m \in Messages : (m \in Range(mailbox)) ~> (Settled(s, m) \/ planeRestarts > 0)
=============================================================================
