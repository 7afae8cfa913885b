---------------------------- MODULE AgentProofs -----------------------------
(***************************************************************************)
(* What an agent does for its instances.  For any number of subscribers    *)
(* and messages, any capacity of the mailbox and of the local channels and *)
(* any batch size: a queue trigger gets no message from the relay twice,   *)
(* gets them in the order of the mailbox, and a second time only a message *)
(* its own instance published; and the floor the plane keeps for it skips  *)
(* nothing that is still retained.  For every policy and every bound: the supervisor is    *)
(* type correct, never launches a second process, respects its restart     *)
(* budget, and revives a stopped or failed instance only on a command.     *)
(***************************************************************************)
EXTENDS Relay, Supervisor, SequenceTheorems, TLAPS

-----------------------------------------------------------------------------
(* The inductive invariant. *)

\* What is on its way to a subscriber, and what its relay has offered to its bus or is
\* about to.
InFlight(s) == IF reply[s] = None THEN <<>> ELSE reply[s].messages
Heard(s) == injected[s] \o InFlight(s)

\* A subscriber asks again only when the last exchange is over.
OneExchange == \A s \in Subscribers : asked[s] # None => reply[s] = None

\* The plane accepts a message once: what is in the mailbox, or was ever heard, is
\* published and not being posted any more.
AcceptedOnce ==
  /\ IsInjective(mailbox)
  /\ posts \subseteq published
  /\ \A p \in 1..Len(mailbox) : mailbox[p] \in published \ posts

\* Messages a subscriber has got when the plane's floor for it is given, and the
\* mailbox, and what the plane has ever accepted: none twice, in the order of the mailbox
\* as far as they are in it, and nothing above the floor.
HeardBelow(had, floor, box, accepted) ==
  /\ IsInjective(had)
  /\ \A i \in 1..Len(had) : had[i] \in accepted
  /\ \A i \in 1..Len(had) : \A p \in 1..Len(box) : box[p] = had[i] => p <= floor
  /\ \A i, j \in 1..Len(had) : \A p, q \in 1..Len(box) :
       (i < j /\ box[p] = had[i] /\ box[q] = had[j]) => p < q

EachHearsBelow ==
  \A s \in Subscribers : HeardBelow(Heard(s), relay_cursors[s], mailbox, published \ posts)

\* As long as the plane has not restarted, no cursor runs ahead of the floor and no
\* floor ahead of the mailbox.
CursorsBelowFloor ==
  planeRestarts = 0 => \A s \in Subscribers :
    /\ relay_cursors[s] <= Len(mailbox)
    /\ cursors[s] <= relay_cursors[s]
    /\ asked[s] # None => asked[s] <= relay_cursors[s]
    /\ reply[s] # None /\ reply[s].next # None => reply[s].next <= relay_cursors[s]

\* The entries of a channel, when what the relay has offered and what was published are
\* given: none of a message that is still to be published, those from the relay in the
\* order in which it offered them, and a message again only from the relay and after the
\* instance's own.
FollowsRelay(entries, offered, known) ==
  \A j \in 1..Len(entries) :
    /\ entries[j].message \in known
    /\ ~Own(entries[j]) =>
         entries[j].from \in 1..Len(offered) /\ offered[entries[j].from] = entries[j].message
    /\ \A i \in 1..Len(entries) : i < j =>
         /\ entries[i].message = entries[j].message => Own(entries[i]) /\ ~Own(entries[j])
         /\ ~Own(entries[i]) /\ ~Own(entries[j]) => entries[i].from < entries[j].from

ChannelFollowsRelay == \A s \in Subscribers : FollowsRelay(heard[s], injected[s], published)

IInv ==
  /\ TypeOK /\ OneExchange /\ AcceptedOnce /\ EachHearsBelow /\ ChannelFollowsRelay
  /\ CursorsBelowFloor /\ FloorAccountsForMessages

-----------------------------------------------------------------------------
(* Numbers, batches and sequences. *)

\* The larger of two numbers.
LEMMA MaxOfTwo ==
  ASSUME NEW a \in Int, NEW b \in Int
  PROVE  Max({a, b}) = IF a >= b THEN a ELSE b
BY DEF Max

\* The smaller of two numbers.
LEMMA MinOfTwo ==
  ASSUME NEW a \in Int, NEW b \in Int
  PROVE  Min({a, b}) = IF a <= b THEN a ELSE b
BY DEF Min

\* A number above one bound and up to another.
LEMMA Between ==
  ASSUME NEW a \in Nat, NEW b \in Nat, NEW c \in Nat, NEW l \in Nat, NEW p \in Nat,
         a <= b, b + 1 <= p, p <= c, c <= l
  PROVE  p \in (a + 1)..c /\ p \in 1..l
OBVIOUS

\* Messages of a batch follow those heard, and each other.
LEMMA Later ==
  ASSUME NEW from \in Nat, NEW floor \in Nat, NEW n \in Nat, NEW i \in Nat, NEW j \in Nat, NEW p \in Nat, NEW q \in Nat,
         floor <= from, i < j, ~(j <= n), q = from + (j - n), IF i <= n THEN p <= floor ELSE p = from + (i - n)
  PROVE  p < q
OBVIOUS

\* The number before the oldest retained message is within the mailbox.
LEMMA EvictedRange ==
  ASSUME TypeOK
  PROVE  Evicted \in Nat /\ Evicted <= Len(mailbox) /\ Len(mailbox) \in Nat
         /\ Evicted = IF Len(mailbox) > RELAY_CAP THEN Len(mailbox) - RELAY_CAP ELSE 0
<1>1. Len(mailbox) \in Nat /\ RELAY_CAP \in Nat
  BY RelayAssumption DEF TypeOK
<1>. QED BY <1>1, MaxOfTwo DEF Evicted

\* What a pull answers: the messages between two numbers of the mailbox, the first of
\* which is at least the floor, and the new floor is the second.
LEMMA BatchSpec ==
  ASSUME TypeOK, NEW s \in Subscribers, asked[s] # None
  PROVE  \E from, to \in Nat :
           /\ asked[s] <= from /\ relay_cursors[s] <= from /\ from <= to
           /\ Batch(s).messages = SubSeq(mailbox, from + 1, to)
           /\ to <= Len(mailbox) \/ to = from
           /\ Batch(s).next \in Nat
           /\ Batch(s).next <= to /\ relay_cursors[s] <= Batch(s).next
           /\ Batch(s).next = to \/ (Batch(s).next = PullFrom(s) /\ from = to)
           /\ from = PullFrom(s) \/ from = Evicted
<1>1. asked[s] \in Nat /\ relay_cursors[s] \in Nat /\ mailbox \in Seq(Messages)
  BY DEF TypeOK
<1>2. PullFrom(s) \in Nat /\ PullFrom(s) >= asked[s] /\ PullFrom(s) >= relay_cursors[s]
  BY <1>1, MaxOfTwo DEF PullFrom
<1>3. Evicted \in Nat /\ Len(mailbox) \in Nat /\ RELAY_BATCH \in Nat
  BY EvictedRange, RelayAssumption
<1> DEFINE from == Max({PullFrom(s), Evicted})
           to == Min({from + RELAY_BATCH, Len(mailbox)})
<1>4. from \in Nat /\ from >= PullFrom(s) /\ from \in {PullFrom(s), Evicted}
  BY <1>2, <1>3, MaxOfTwo
<1> HIDE DEF from
<1>5. to \in Nat /\ to <= Len(mailbox)
  <2>1. from + RELAY_BATCH \in Int /\ from + RELAY_BATCH \in Nat /\ Len(mailbox) \in Int
    BY <1>3, <1>4
  <2>. QED BY <1>3, <2>1, MinOfTwo
<1> HIDE DEF to
<1>6. Batch(s) = IF from < to THEN [messages |-> SubSeq(mailbox, from + 1, to), next |-> to]
                 ELSE [messages |-> <<>>, next |-> PullFrom(s)]
  BY DEF Batch, from, to
<1>7. CASE from < to
  BY <1>1, <1>2, <1>3, <1>4, <1>5, <1>6, <1>7
<1>8. CASE ~(from < to)
  <2>1. SubSeq(mailbox, from + 1, from) = <<>>
    BY <1>1, <1>4
  <2>2. Batch(s).messages = <<>> /\ Batch(s).next = PullFrom(s)
    BY <1>6, <1>8
  <2>3. Batch(s).messages = SubSeq(mailbox, from + 1, from) /\ Batch(s).next = PullFrom(s)
    BY <2>1, <2>2, Zenon
  <2>. QED BY <1>1, <1>2, <1>3, <1>4, <2>3
<1>. QED BY <1>7, <1>8

\* The beginning of what was heard was heard.
LEMMA PrefixHeard ==
  ASSUME NEW a \in Seq(Messages), NEW b \in Seq(Messages), NEW floor \in Nat,
         NEW box \in Seq(Messages), NEW accepted, HeardBelow(a \o b, floor, box, accepted)
  PROVE  HeardBelow(a, floor, box, accepted)
<1>1. Len(a \o b) = Len(a) + Len(b) /\ Len(a) \in Nat /\ Len(b) \in Nat
  OBVIOUS
<1>2. \A i \in 1..Len(a) : i \in 1..Len(a \o b) /\ (a \o b)[i] = a[i]
  BY <1>1
<1>3. DOMAIN a = 1..Len(a) /\ DOMAIN (a \o b) = 1..Len(a \o b)
  OBVIOUS
<1>4. IsInjective(a)
  BY <1>2, <1>3 DEF HeardBelow, IsInjective
<1>. QED BY <1>2, <1>4 DEF HeardBelow

\* A longer mailbox, a higher floor or an empty mailbox changes nothing.
LEMMA StillHeard ==
  ASSUME NEW had \in Seq(Messages), NEW floor \in Nat, NEW higher \in Nat,
         NEW box \in Seq(Messages), NEW accepted, NEW more, accepted \subseteq more,
         HeardBelow(had, floor, box, accepted), floor <= higher
  PROVE  /\ HeardBelow(had, higher, box, more)
         /\ HeardBelow(had, 0, <<>>, more) /\ HeardBelow(had, higher, <<>>, more)
         /\ \A m \in Messages \ accepted : HeardBelow(had, higher, Append(box, m), more)
<1>1. HeardBelow(had, higher, box, more)
  <2>1. \A i \in 1..Len(had) : had[i] \in more
    BY DEF HeardBelow
  <2>2. \A i \in 1..Len(had) : \A p \in 1..Len(box) : box[p] = had[i] => p <= higher
    <3> SUFFICES ASSUME NEW i \in 1..Len(had), NEW p \in 1..Len(box), box[p] = had[i] PROVE p <= higher
      OBVIOUS
    <3>1. p <= floor
      BY DEF HeardBelow
    <3>. QED BY <3>1
  <2>. QED BY <2>1, <2>2 DEF HeardBelow
<1>2. HeardBelow(had, 0, <<>>, more) /\ HeardBelow(had, higher, <<>>, more)
  BY DEF HeardBelow
<1>3. ASSUME NEW m \in Messages \ accepted PROVE HeardBelow(had, higher, Append(box, m), more)
  <2>1. \A p \in 1..Len(Append(box, m)) : \A i \in 1..Len(had) :
          Append(box, m)[p] = had[i] => p \in 1..Len(box) /\ box[p] = had[i]
    BY DEF HeardBelow
  <2>. QED BY <1>1, <2>1 DEF HeardBelow
<1>. QED BY <1>1, <1>2, <1>3

\* A batch from above the floor is heard after everything else.
LEMMA BatchHeard ==
  ASSUME NEW had \in Seq(Messages), NEW floor \in Nat, NEW box \in Seq(Messages), NEW accepted,
         HeardBelow(had, floor, box, accepted), IsInjective(box),
         \A p \in 1..Len(box) : box[p] \in accepted,
         NEW from \in Nat, NEW to \in Nat, NEW higher \in Nat,
         floor <= from, from <= to, to <= Len(box) \/ to = from,
         floor <= higher, higher = to \/ from = to
  PROVE  HeardBelow(had \o SubSeq(box, from + 1, to), higher, box, accepted)
<1> DEFINE batch == SubSeq(box, from + 1, to)
           all == had \o batch
<1>1. CASE from = to
  <2>1. batch = <<>>
    BY <1>1
  <2>2. all = had
    BY <2>1
  <2>3. HeardBelow(had, higher, box, accepted)
    BY DEF HeardBelow
  <2> HIDE DEF all
  <2>. QED BY <2>2, <2>3, Zenon DEF all
<1>2. CASE from < to
  <2>0. Len(had) \in Nat /\ Len(box) \in Nat
    OBVIOUS
  <2>1. /\ batch \in Seq(Messages) /\ Len(batch) = to - from
        /\ \A i \in 1..Len(batch) : batch[i] = box[from + i]
    BY <1>2
  <2> HIDE DEF batch
  <2>2. /\ all \in Seq(Messages) /\ Len(all) = Len(had) + (to - from) /\ DOMAIN all = 1..Len(all)
        /\ \A i \in 1..Len(all) : all[i] = IF i <= Len(had) THEN had[i] ELSE batch[i - Len(had)]
    BY <2>1
  <2> HIDE DEF all
  <2>3. \A i \in 1..Len(all) : IF i <= Len(had) THEN i \in 1..Len(had) /\ all[i] = had[i]
                               ELSE (from + (i - Len(had))) \in 1..Len(box) /\ all[i] = box[from + (i - Len(had))]
    <3> SUFFICES ASSUME NEW i \in 1..Len(all)
                 PROVE  IF i <= Len(had) THEN i \in 1..Len(had) /\ all[i] = had[i]
                        ELSE (from + (i - Len(had))) \in 1..Len(box) /\ all[i] = box[from + (i - Len(had))]
      OBVIOUS
    <3>1. CASE i <= Len(had)
      BY <2>2, <3>1
    <3>2. CASE ~(i <= Len(had))
      <4>1. i - Len(had) \in 1..Len(batch)
        BY <1>2, <2>0, <2>1, <2>2, <3>2
      <4>2. all[i] = batch[i - Len(had)]
        BY <2>2, <3>2
      <4>3. batch[i - Len(had)] = box[from + (i - Len(had))]
        BY <2>1, <4>1
      <4>4. from + (i - Len(had)) \in 1..Len(box)
        BY <1>2, <2>0, <2>1, <4>1
      <4>. QED BY <3>2, <4>2, <4>3, <4>4
    <3>. QED BY <3>1, <3>2
  <2>4. \A p, q \in 1..Len(box) : box[p] = box[q] => p = q
    BY DEF IsInjective
  <2>5. \A i \in 1..Len(all) : all[i] \in accepted
    BY <2>3 DEF HeardBelow
  <2>6. ASSUME NEW i \in 1..Len(all), NEW p \in 1..Len(box), box[p] = all[i]
        PROVE  IF i <= Len(had) THEN p <= floor ELSE p = from + (i - Len(had))
    <3>1. CASE i <= Len(had)
      BY <2>3, <2>6, <3>1 DEF HeardBelow
    <3>2. CASE ~(i <= Len(had))
      BY <2>3, <2>4, <2>6, <3>2
    <3>. QED BY <3>1, <3>2
  <2>7. \A i \in 1..Len(all) : \A p \in 1..Len(box) : box[p] = all[i] => p <= higher
    BY <1>2, <2>2, <2>6
  <2>8. ASSUME NEW i \in 1..Len(all), NEW j \in 1..Len(all), i < j, all[i] = all[j] PROVE FALSE
    <3>1. CASE j <= Len(had)
      BY <2>3, <2>8, <3>1 DEF HeardBelow, IsInjective
    <3>2. CASE ~(j <= Len(had))
      <4>1. (from + (j - Len(had))) \in 1..Len(box) /\ box[from + (j - Len(had))] = all[i]
        BY <2>3, <2>8, <3>2
      <4>2. IF i <= Len(had) THEN from + (j - Len(had)) <= floor ELSE from + (j - Len(had)) = from + (i - Len(had))
        BY <2>6, <4>1
      <4>. QED BY <2>0, <2>2, <2>8, <3>2, <4>2
    <3>. QED BY <3>1, <3>2
  <2>9. IsInjective(all)
    BY <2>2, <2>8 DEF IsInjective
  <2>10. ASSUME NEW i \in 1..Len(all), NEW j \in 1..Len(all), NEW p \in 1..Len(box), NEW q \in 1..Len(box),
                i < j, box[p] = all[i], box[q] = all[j]
         PROVE  p < q
    <3>1. CASE j <= Len(had)
      <4>1. i \in 1..Len(had) /\ j \in 1..Len(had) /\ i <= Len(had)
        BY <2>0, <2>2, <2>10, <3>1
      <4>2. box[p] = had[i] /\ box[q] = had[j]
        BY <2>3, <2>10, <3>1, <4>1
      <4>. QED BY <2>10, <4>1, <4>2 DEF HeardBelow
    <3>2. CASE ~(j <= Len(had))
      <4>1. q = from + (j - Len(had))
        BY <2>6, <2>10, <3>2
      <4>2. IF i <= Len(had) THEN p <= floor ELSE p = from + (i - Len(had))
        BY <2>6, <2>10
      <4>3. i \in Nat /\ j \in Nat /\ p \in Nat /\ q \in Nat /\ Len(had) \in Nat
        BY <2>0, <2>2, <2>10
      <4>4. floor <= from /\ from \in Nat /\ floor \in Nat
        BY <2>0
      <4>. QED BY <2>10, <3>2, <4>1, <4>2, <4>3, <4>4, Later
    <3>. QED BY <3>1, <3>2
  <2>11. QED BY <2>5, <2>7, <2>9, <2>10 DEF HeardBelow, all, batch
<1>. QED BY <1>1, <1>2

-----------------------------------------------------------------------------
(* One lemma per part of the invariant. *)

\* All but the channels of the queue triggers.
relayVars == <<planeVars, posts, published, subscriberVars, bounds>>

\* The trigger's own steps touch its channel only.
LEMMA StepsOfRelay ==
  ASSUME [Next]_vars
  PROVE  \/ \E m \in Messages : Publish(m)
         \/ \E s \in Subscribers : Pull(s) \/ SubscriberRestart(s)
         \/ PlaneRestart
         \/ UNCHANGED relayVars
<1>1. ASSUME NEW s \in Subscribers, take(s) \/ TriggerEnds(s) PROVE UNCHANGED relayVars
  BY <1>1 DEF take, TriggerEnds, relayVars
<1>2. CASE UNCHANGED vars
  BY <1>2 DEF vars, relayVars, planeVars, subscriberVars, bounds
<1>. QED BY <1>1, <1>2 DEF Next

\* What the relay's response still holds.
LEMMA RestOfResponse ==
  ASSUME TypeOK, NEW s \in Subscribers, reply[s] # None
  PROVE  /\ reply[s] \in [messages : Seq(Messages), next : Nat \cup {None}]
         /\ reply[s].messages # <<>> =>
              /\ Head(reply[s].messages) \in Messages /\ Tail(reply[s].messages) \in Seq(Messages)
              /\ Range(reply[s].messages) = {Head(reply[s].messages)} \cup Range(Tail(reply[s].messages))
              /\ injected[s] \o reply[s].messages
                 = Append(injected[s], Head(reply[s].messages)) \o Tail(reply[s].messages)
<1>1. reply[s] \in [messages : Seq(Messages), next : Nat \cup {None}] /\ injected[s] \in Seq(Messages)
  BY DEF TypeOK
<1> DEFINE b == reply[s].messages
           a == injected[s]
<1>2. b \in Seq(Messages) /\ a \in Seq(Messages)
  BY <1>1
<1> HIDE DEF a, b
<1>3. ASSUME b # <<>>
      PROVE  /\ Head(b) \in Messages /\ Tail(b) \in Seq(Messages)
             /\ Range(b) = {Head(b)} \cup Range(Tail(b))
             /\ a \o b = Append(a, Head(b)) \o Tail(b)
  <2>1. /\ Head(b) \in Messages /\ Tail(b) \in Seq(Messages) /\ Len(b) \in Nat \ {0} /\ Len(Tail(b)) = Len(b) - 1
        /\ b[1] = Head(b) /\ \A i \in 1..Len(Tail(b)) : Tail(b)[i] = b[i + 1]
        /\ DOMAIN b = 1..Len(b) /\ DOMAIN Tail(b) = 1..Len(Tail(b))
    BY <1>2, <1>3
  <2>2. Range(b) = {Head(b)} \cup Range(Tail(b))
    <3>1. \A i \in 1..Len(b) : i = 1 \/ ((i - 1) \in 1..Len(Tail(b)) /\ b[i] = Tail(b)[i - 1])
      BY <2>1
    <3>2. \A i \in 1..Len(Tail(b)) : (i + 1) \in 1..Len(b)
      BY <2>1
    <3>3. 1 \in 1..Len(b)
      BY <2>1
    <3>4. Range(b) = {b[i] : i \in 1..Len(b)} /\ Range(Tail(b)) = {Tail(b)[i] : i \in 1..Len(Tail(b))}
      BY <2>1 DEF Range
    <3>5. ASSUME NEW e \in Range(b) PROVE e = Head(b) \/ e \in Range(Tail(b))
      BY <2>1, <3>1, <3>4
    <3>6. Head(b) \in Range(b)
      BY <2>1, <3>3, <3>4
    <3>7. ASSUME NEW e \in Range(Tail(b)) PROVE e \in Range(b)
      BY <2>1, <3>2, <3>4
    <3>. QED BY <3>5, <3>6, <3>7
  <2>3. a \o b = Append(a, Head(b)) \o Tail(b)
    <3> DEFINE l == a \o b
               r == Append(a, Head(b)) \o Tail(b)
    <3>1. l \in Seq(Messages) /\ r \in Seq(Messages) /\ Len(l) = Len(a) + Len(b) /\ Len(r) = Len(a) + Len(b)
      BY <1>2, <2>1
    <3>2. ASSUME NEW i \in 1..Len(a) + Len(b) PROVE l[i] = r[i]
      <4>1. CASE i <= Len(a)
        BY <1>2, <2>1, <4>1
      <4>2. CASE i = Len(a) + 1
        BY <1>2, <2>1, <4>2
      <4>3. CASE i > Len(a) + 1
        <5>1. (i - Len(a) - 1) \in 1..Len(Tail(b)) /\ (i - Len(a)) \in 1..Len(b)
          BY <1>2, <2>1, <4>3
        <5>2. l[i] = b[i - Len(a)]
          BY <1>2, <2>1, <4>3, <5>1
        <5>3. Append(a, Head(b)) \in Seq(Messages) /\ Len(Append(a, Head(b))) = Len(a) + 1
          BY <1>2, <2>1
        <5>4. r[i] = Tail(b)[i - Len(a) - 1]
          BY <1>2, <2>1, <4>3, <5>1, <5>3
        <5>5. Tail(b)[i - Len(a) - 1] = b[i - Len(a)]
          BY <2>1, <5>1
        <5>. QED BY <5>2, <5>4, <5>5
      <4>4. i <= Len(a) \/ i = Len(a) + 1 \/ i > Len(a) + 1
        BY <1>2, <2>1
      <4>. QED BY <4>1, <4>2, <4>3, <4>4
    <3> HIDE DEF l, r
    <3>3. l = r
      BY <1>2, <2>1, <3>1, <3>2, SeqEqual
    <3>. QED BY <3>3 DEF l, r
  <2>. QED BY <2>1, <2>2, <2>3
<1>. QED BY <1>1, <1>3 DEF a, b

\* What the bus does keeps the channel a channel.
LEMMA BusPublishType ==
  ASSUME TypeOK, NEW s \in Subscribers, NEW m \in Messages, NEW from \in Nat, bus_publish(s, m, from)
  PROVE  /\ heard' \in [Subscribers -> Seq([message : Messages, from : Nat])]
         /\ UNCHANGED <<taken, receiving>>
<1>1. [message |-> m, from |-> from] \in [message : Messages, from : Nat]
  OBVIOUS
<1>2. heard \in [Subscribers -> Seq([message : Messages, from : Nat])]
  BY DEF TypeOK
<1> DEFINE entry == [message |-> m, from |-> from]
<1> HIDE DEF entry
<1>3. Append(heard[s], entry) \in Seq([message : Messages, from : Nat])
  <2>1. heard[s] \in Seq([message : Messages, from : Nat]) /\ entry \in [message : Messages, from : Nat]
    BY <1>1, <1>2 DEF entry
  <2>. QED BY <2>1
<1>4. heard' = [heard EXCEPT ![s] = Append(heard[s], entry)] \/ heard' = heard
  BY DEF bus_publish, entry
<1>. QED BY <1>2, <1>3, <1>4 DEF bus_publish

\* The types of what the local bus knows.
ChannelTypeOK ==
  /\ applying \subseteq Subscribers
  /\ missed \in [Subscribers -> SUBSET Messages]
  /\ heard \in [Subscribers -> Seq([message : Messages, from : Nat])]
  /\ taken \in [Subscribers -> Nat]
  /\ receiving \subseteq Subscribers

LEMMA ChannelTypeStep == TypeOK /\ [Next]_vars => ChannelTypeOK'
<1> SUFFICES ASSUME TypeOK, [Next]_vars PROVE ChannelTypeOK'
  OBVIOUS
<1>1. ChannelTypeOK
  BY DEF TypeOK, ChannelTypeOK
<1>2. CASE UNCHANGED <<applying, missed, channelVars>>
  BY <1>1, <1>2 DEF ChannelTypeOK, channelVars
<1>3. ASSUME NEW m \in Messages, NEW i \in Instances, publish(i, m) PROVE ChannelTypeOK'
  <2>1. UNCHANGED <<applying, missed>>
    BY <1>3 DEF publish, subscriberVars
  <2>2. CASE i \in Subscribers
    BY <1>1, <1>3, <2>1, <2>2, BusPublishType DEF publish, ChannelTypeOK
  <2>3. CASE i \notin Subscribers
    BY <1>2, <1>3, <2>1, <2>3 DEF publish
  <2>. QED BY <2>2, <2>3
<1>4. ASSUME NEW m \in Messages, PostArrives(m) \/ PostFails(m) \/ bus_dispatch(m) PROVE ChannelTypeOK'
  BY <1>2, <1>4 DEF PostArrives, PostFails, bus_dispatch, subscriberVars
<1>5. ASSUME NEW s \in Subscribers, request_pull(s) \/ relay_pull(s) \/ RequestLost(s) \/ ResponseLost(s)
      PROVE  ChannelTypeOK'
  BY <1>2, <1>5 DEF request_pull, relay_pull, RequestLost, ResponseLost
<1>6. ASSUME NEW s \in Subscribers, apply_message(s) PROVE ChannelTypeOK'
  <2>1. Head(reply[s].messages) \in Messages
    BY <1>6, RestOfResponse DEF apply_message
  <2>2. Len(injected[s]) + 1 \in Nat
    BY DEF TypeOK
  <2>3. heard' \in [Subscribers -> Seq([message : Messages, from : Nat])] /\ UNCHANGED <<taken, receiving>>
    BY <1>6, <2>1, <2>2, BusPublishType DEF apply_message
  <2>4. applying' = applying \cup {s} /\ missed' \in [Subscribers -> SUBSET Messages]
    BY <1>1, <1>6, <2>1 DEF apply_message, ChannelTypeOK
  <2>. QED BY <1>1, <2>3, <2>4 DEF ChannelTypeOK
<1>7. ASSUME NEW s \in Subscribers, apply_response(s) PROVE ChannelTypeOK'
  BY <1>1, <1>7 DEF apply_response, ChannelTypeOK, channelVars
<1>8. ASSUME NEW s \in Subscribers, SubscriberRestart(s) PROVE ChannelTypeOK'
  <2>1. Len(heard[s]) \in Nat
    BY <1>1 DEF ChannelTypeOK
  <2>. QED BY <1>1, <1>8, <2>1 DEF SubscriberRestart, ChannelTypeOK
<1>9. ASSUME NEW s \in Subscribers, take(s) \/ TriggerEnds(s) PROVE ChannelTypeOK'
  <2>1. Len(heard[s]) \in Nat
    BY <1>1 DEF ChannelTypeOK
  <2>2. UNCHANGED <<applying, missed, heard>> /\ receiving' \subseteq receiving
    <3>1. CASE take(s)
      BY <3>1 DEF take, subscriberVars
    <3>2. CASE TriggerEnds(s)
      BY <3>2 DEF TriggerEnds, subscriberVars
    <3>. QED BY <1>9, <3>1, <3>2
  <2>3. CASE take(s)
    <3>1. taken' = [taken EXCEPT ![s] = taken[s] + 1]
      BY <2>3 DEF take
    <3>2. taken' \in [Subscribers -> Nat]
      BY <1>1, <3>1 DEF ChannelTypeOK
    <3>. QED BY <1>1, <2>2, <3>2 DEF ChannelTypeOK
  <2>4. CASE TriggerEnds(s)
    <3>1. taken' = [taken EXCEPT ![s] = Len(heard[s])]
      BY <2>4 DEF TriggerEnds
    <3>. QED BY <1>1, <2>1, <2>2, <3>1 DEF ChannelTypeOK
  <2>. QED BY <1>9, <2>3, <2>4
<1>10. CASE PlaneRestart
  BY <1>2, <1>10 DEF PlaneRestart, subscriberVars
<1>11. CASE UNCHANGED vars
  BY <1>2, <1>11 DEF vars, channelVars
<1>. QED BY <1>3, <1>4, <1>5, <1>6, <1>7, <1>8, <1>9, <1>10, <1>11 DEF Next, Publish, Pull

\* Steps keep the types.
LEMMA TypeStep == TypeOK /\ [Next]_vars => TypeOK'
<1> SUFFICES ASSUME TypeOK, [Next]_vars PROVE TypeOK'
  OBVIOUS
<1>0. ChannelTypeOK'
  BY ChannelTypeStep
<1>1. ASSUME NEW m \in Messages, Publish(m) PROVE TypeOK'
  <2>1. mailbox' \in Seq(Messages)
    <3>1. mailbox' = mailbox \/ mailbox' = Append(mailbox, m)
      BY <1>1 DEF Publish, publish, PostArrives, PostFails, bus_dispatch, relay_publish, planeVars
    <3>2. mailbox \in Seq(Messages) /\ Append(mailbox, m) \in Seq(Messages)
      BY DEF TypeOK
    <3>. QED BY <3>1, <3>2
  <2>2. posts' \subseteq Messages /\ published' \subseteq Messages
    BY <1>1 DEF TypeOK, Publish, publish, PostArrives, PostFails, bus_dispatch
  <2>3. /\ UNCHANGED <<relay_cursors, cursors, asked, reply, injected, dropped, subscriberRestarts, planeRestarts>>
        /\ losses' \in Nat
    BY <1>1 DEF TypeOK, Publish, publish, PostArrives, PostFails, bus_dispatch, planeVars, subscriberVars, bounds
  <2>. QED BY <1>0, <2>1, <2>2, <2>3 DEF TypeOK, ChannelTypeOK
<1>2. ASSUME NEW s \in Subscribers, request_pull(s) \/ RequestLost(s) PROVE TypeOK'
  <2>1. asked' \in [Subscribers -> Nat \cup {None}] /\ losses' \in Nat
    <3>1. CASE request_pull(s)
      BY <3>1 DEF TypeOK, request_pull, bounds
    <3>2. CASE RequestLost(s)
      BY <3>2 DEF TypeOK, RequestLost
    <3>. QED BY <1>2, <3>1, <3>2
  <2>2. UNCHANGED <<mailbox, relay_cursors, posts, published, cursors, reply, injected, dropped, subscriberRestarts, planeRestarts>>
    BY <1>2 DEF request_pull, RequestLost, planeVars, bounds
  <2>. QED BY <1>0, <2>1, <2>2 DEF TypeOK, ChannelTypeOK
<1>3. ASSUME NEW s \in Subscribers, relay_pull(s) PROVE TypeOK'
  <2>1. asked' \in [Subscribers -> Nat \cup {None}]
    BY <1>3 DEF relay_pull, TypeOK
  <2>2. CASE mailbox = <<>>
    <3>1. [messages |-> <<>>, next |-> None] \in [messages : Seq(Messages), next : Nat \cup {None}]
      OBVIOUS
    <3>2. reply' \in [Subscribers -> [messages : Seq(Messages), next : Nat \cup {None}] \cup {None}]
      BY <1>3, <2>2, <3>1 DEF relay_pull, TypeOK
    <3>3. UNCHANGED <<mailbox, relay_cursors, posts, published, cursors, injected, dropped, bounds>>
      BY <1>3, <2>2 DEF relay_pull
    <3>. QED BY <1>0, <2>1, <3>2, <3>3 DEF TypeOK, ChannelTypeOK, bounds
  <2>3. CASE mailbox # <<>>
    <3>1. PICK from \in Nat, to \in Nat :
            Batch(s).messages = SubSeq(mailbox, from + 1, to) /\ (to <= Len(mailbox) \/ to = from) /\ Batch(s).next \in Nat
      BY <1>3, BatchSpec DEF relay_pull
    <3>2. SubSeq(mailbox, from + 1, to) \in Seq(Messages)
      BY <3>1 DEF TypeOK
    <3>3. Batch(s) \in [messages : Seq(Messages), next : Nat \cup {None}]
      <4>1. Batch(s) = [messages |-> Batch(s).messages, next |-> Batch(s).next]
        BY DEF Batch
      <4>. QED BY <3>1, <3>2, <4>1
    <3>. QED BY <1>0, <1>3, <2>1, <2>3, <3>1, <3>3 DEF relay_pull, TypeOK, ChannelTypeOK, bounds
  <2>. QED BY <2>2, <2>3
<1>4. ASSUME NEW s \in Subscribers, apply_message(s) \/ apply_response(s) PROVE TypeOK'
  <2>1. reply[s] # None /\ reply[s] \in [messages : Seq(Messages), next : Nat \cup {None}]
    BY <1>4, RestOfResponse DEF apply_message, apply_response
  <2>2. CASE apply_message(s)
    <3>1. Head(reply[s].messages) \in Messages /\ Tail(reply[s].messages) \in Seq(Messages)
      BY <2>1, <2>2, RestOfResponse DEF apply_message
    <3>2. reply' = [reply EXCEPT ![s].messages = Tail(reply[s].messages)]
      BY <2>2 DEF apply_message
    <3>3. reply' \in [Subscribers -> [messages : Seq(Messages), next : Nat \cup {None}] \cup {None}]
      BY <2>1, <3>1, <3>2 DEF TypeOK
    <3>4. injected' \in [Subscribers -> Seq(Messages)]
      BY <2>2, <3>1 DEF apply_message, TypeOK
    <3>5. UNCHANGED <<mailbox, relay_cursors, posts, published, cursors, asked, dropped, losses, subscriberRestarts, planeRestarts>>
      BY <2>2 DEF apply_message, planeVars, bounds
    <3>. QED BY <1>0, <3>3, <3>4, <3>5 DEF TypeOK, ChannelTypeOK
  <2>3. CASE apply_response(s)
    <3>1. /\ reply' \in [Subscribers -> [messages : Seq(Messages), next : Nat \cup {None}] \cup {None}]
          /\ cursors' \in [Subscribers -> Nat]
      BY <2>1, <2>3 DEF apply_response, TypeOK
    <3>2. UNCHANGED <<mailbox, relay_cursors, posts, published, injected, asked, dropped, losses, subscriberRestarts, planeRestarts>>
      BY <2>3 DEF apply_response, planeVars, bounds
    <3>. QED BY <1>0, <3>1, <3>2 DEF TypeOK, ChannelTypeOK
  <2>. QED BY <1>4, <2>2, <2>3
<1>5. ASSUME NEW s \in Subscribers, ResponseLost(s) \/ SubscriberRestart(s) PROVE TypeOK'
  <2>1. dropped' \in [Subscribers -> SUBSET Messages]
    <3>1. Drop(s)
      BY <1>5 DEF ResponseLost, SubscriberRestart
    <3>2. reply[s] # None => Range(reply[s].messages) \subseteq Messages
      BY DEF TypeOK, Range
    <3>. QED BY <3>1, <3>2 DEF Drop, TypeOK
  <2>2. cursors' \in [Subscribers -> Nat] /\ asked' \in [Subscribers -> Nat \cup {None}]
        /\ reply' \in [Subscribers -> [messages : Seq(Messages), next : Nat \cup {None}] \cup {None}]
    <3>1. CASE ResponseLost(s)
      BY <3>1 DEF ResponseLost, TypeOK
    <3>2. CASE SubscriberRestart(s)
      BY <3>2 DEF SubscriberRestart, TypeOK
    <3>. QED BY <1>5, <3>1, <3>2
  <2>3. losses' \in Nat /\ subscriberRestarts' \in Nat
    BY <1>5 DEF ResponseLost, SubscriberRestart, TypeOK
  <2>4. UNCHANGED <<mailbox, relay_cursors, posts, published, injected, planeRestarts>>
    BY <1>5 DEF ResponseLost, SubscriberRestart, planeVars
  <2>. QED BY <1>0, <2>1, <2>2, <2>3, <2>4 DEF TypeOK, ChannelTypeOK
<1>6. CASE PlaneRestart
  <2>1. mailbox' \in Seq(Messages) /\ relay_cursors' \in [Subscribers -> Nat] /\ planeRestarts' \in Nat
    BY <1>6 DEF PlaneRestart, TypeOK
  <2>2. UNCHANGED <<posts, published, cursors, asked, reply, injected, dropped, losses, subscriberRestarts>>
    BY <1>6 DEF PlaneRestart, subscriberVars
  <2>. QED BY <1>0, <2>1, <2>2 DEF TypeOK, ChannelTypeOK
<1>7. CASE UNCHANGED relayVars
  BY <1>0, <1>7 DEF relayVars, planeVars, subscriberVars, bounds, TypeOK, ChannelTypeOK
<1>. QED BY <1>1, <1>2, <1>3, <1>4, <1>5, <1>6, <1>7, StepsOfRelay DEF Pull

\* A subscriber has one exchange at a time.
LEMMA OneExchangeStep == TypeOK /\ OneExchange /\ [Next]_vars => OneExchange'
<1> SUFFICES ASSUME TypeOK, OneExchange, [Next]_vars PROVE OneExchange'
  OBVIOUS
<1>1. ASSUME NEW m \in Messages, Publish(m) PROVE OneExchange'
  BY <1>1 DEF OneExchange, Publish, publish, PostArrives, PostFails, bus_dispatch, subscriberVars
<1>2. ASSUME NEW s \in Subscribers, Pull(s) \/ SubscriberRestart(s) PROVE OneExchange'
  <2>1. CASE apply_message(s)
    BY <2>1 DEF OneExchange, apply_message, TypeOK
  <2>2. CASE ~apply_message(s)
    BY <1>2, <2>2 DEF OneExchange, Pull, request_pull, relay_pull, RequestLost, apply_response, ResponseLost,
       SubscriberRestart, TypeOK
  <2>. QED BY <2>1, <2>2
<1>3. CASE PlaneRestart \/ UNCHANGED relayVars
  BY <1>3 DEF OneExchange, PlaneRestart, subscriberVars, relayVars
<1>. QED BY <1>1, <1>2, <1>3, StepsOfRelay

\* What a step does to the mailbox: it stays, gets a message the plane has never had, or
\* is gone; and what the plane has accepted stays accepted.
LEMMA MailboxStep ==
  ASSUME TypeOK, AcceptedOnce, [Next]_vars
  PROVE  /\ published \ posts \subseteq published' \ posts' /\ posts' \subseteq published'
         /\ \/ mailbox' = mailbox
            \/ \E m \in Messages \ (published \ posts) : mailbox' = Append(mailbox, m) /\ m \in published' \ posts'
            \/ mailbox' = <<>>
<1>1. ASSUME NEW m \in Messages, PostFails(m) \/ \E i \in Instances : publish(i, m)
      PROVE  published \ posts \subseteq published' \ posts' /\ posts' \subseteq published' /\ mailbox' = mailbox
  BY <1>1 DEF publish, Fresh, PostFails, planeVars, AcceptedOnce
<1>2. ASSUME NEW m \in Messages, PostArrives(m) \/ bus_dispatch(m)
      PROVE  /\ published \ posts \subseteq published' \ posts' /\ posts' \subseteq published'
             /\ m \in Messages \ (published \ posts) /\ mailbox' = Append(mailbox, m) /\ m \in published' \ posts'
  BY <1>2 DEF PostArrives, bus_dispatch, Fresh, relay_publish, AcceptedOnce
<1>3. ASSUME NEW s \in Subscribers, Pull(s) \/ SubscriberRestart(s)
      PROVE  published' = published /\ posts' = posts /\ mailbox' = mailbox
  BY <1>3 DEF Pull, request_pull, relay_pull, RequestLost, apply_message, apply_response, ResponseLost, SubscriberRestart,
     planeVars
<1>4. CASE PlaneRestart \/ UNCHANGED relayVars
  BY <1>4 DEF PlaneRestart, relayVars, planeVars, AcceptedOnce
<1>. QED BY <1>1, <1>2, <1>3, <1>4, StepsOfRelay DEF Publish, AcceptedOnce

\* A message is accepted by the plane once.
LEMMA AcceptedOnceStep == TypeOK /\ AcceptedOnce /\ [Next]_vars => AcceptedOnce'
<1> SUFFICES ASSUME TypeOK, AcceptedOnce, [Next]_vars PROVE AcceptedOnce'
  OBVIOUS
<1>1. mailbox \in Seq(Messages)
  BY DEF TypeOK
<1>2. CASE mailbox' = mailbox
  BY <1>2, MailboxStep DEF AcceptedOnce
<1>3. CASE mailbox' = <<>>
  BY <1>3, MailboxStep DEF AcceptedOnce, IsInjective
<1>4. ASSUME NEW m \in Messages \ (published \ posts), mailbox' = Append(mailbox, m), m \in published' \ posts'
      PROVE  AcceptedOnce'
  <2>1. /\ Len(mailbox') = Len(mailbox) + 1 /\ DOMAIN mailbox' = 1..Len(mailbox')
        /\ \A p \in 1..Len(mailbox') : mailbox'[p] = IF p = Len(mailbox) + 1 THEN m ELSE mailbox[p]
    BY <1>1, <1>4
  <2>2. \A p \in 1..Len(mailbox) : mailbox[p] # m /\ mailbox[p] \in published' \ posts'
    BY MailboxStep DEF AcceptedOnce
  <2>3. IsInjective(mailbox)'
    BY <1>1, <2>1, <2>2 DEF AcceptedOnce, IsInjective
  <2>. QED BY <1>1, <1>4, <2>1, <2>2, <2>3, MailboxStep DEF AcceptedOnce
<1>. QED BY <1>2, <1>3, <1>4, MailboxStep

\* What a subscriber hears next is above all it has heard, and at most the floor.
LEMMA EachHearsBelowStep ==
  TypeOK /\ OneExchange /\ AcceptedOnce /\ EachHearsBelow /\ [Next]_vars => EachHearsBelow'
<1> SUFFICES ASSUME TypeOK, OneExchange, AcceptedOnce, EachHearsBelow, [Next]_vars, NEW s \in Subscribers
             PROVE  HeardBelow(Heard(s)', relay_cursors'[s], mailbox', published' \ posts')
  BY DEF EachHearsBelow
<1> DEFINE known == published \ posts
           floor == relay_cursors[s]
<1>1. /\ mailbox \in Seq(Messages) /\ floor \in Nat
      /\ injected[s] \in Seq(Messages) /\ InFlight(s) \in Seq(Messages) /\ Heard(s) \in Seq(Messages)
  <2>1. injected[s] \in Seq(Messages) /\ mailbox \in Seq(Messages) /\ floor \in Nat
    BY DEF TypeOK
  <2>2. reply[s] # None => reply[s].messages \in Seq(Messages)
    BY DEF TypeOK
  <2>3. InFlight(s) \in Seq(Messages)
    BY <2>2 DEF InFlight
  <2>. QED BY <2>1, <2>3 DEF Heard
<1>2. HeardBelow(Heard(s), floor, mailbox, known)
  BY DEF EachHearsBelow
<1>3. HeardBelow(injected[s], floor, mailbox, known)
  BY <1>1, <1>2, PrefixHeard DEF Heard
<1>a. known \subseteq published' \ posts'
  BY MailboxStep
<1> HIDE DEF known, floor
\* What the subscriber has heard stays, or what was under way to it is lost.
<1>4. ASSUME \/ injected'[s] = injected[s] /\ InFlight(s)' \in {<<>>, InFlight(s)}
             \/ Heard(s)' = Heard(s),
             relay_cursors'[s] = floor \/ (relay_cursors'[s] = 0 /\ mailbox' = <<>>)
      PROVE  HeardBelow(Heard(s)', relay_cursors'[s], mailbox', published' \ posts')
  <2>1. Heard(s)' \in {Heard(s), injected[s]}
    <3>1. CASE injected'[s] = injected[s] /\ InFlight(s)' = InFlight(s)
      BY <3>1 DEF Heard
    <3>2. CASE injected'[s] = injected[s] /\ InFlight(s)' = <<>>
      BY <1>1, <3>2 DEF Heard
    <3>3. CASE Heard(s)' = Heard(s)
      BY <3>3
    <3>. QED BY <1>4, <3>1, <3>2, <3>3
  <2>2. ASSUME NEW had \in {Heard(s), injected[s]}
        PROVE  HeardBelow(had, relay_cursors'[s], mailbox', published' \ posts')
    <3>1. HeardBelow(had, floor, mailbox, known) /\ had \in Seq(Messages)
      BY <1>1, <1>2, <1>3
    <3> DEFINE more == published' \ posts'
    <3>2. known \subseteq more /\ floor <= floor
      BY <1>1, <1>a
    <3>3. \/ mailbox' = mailbox \/ mailbox' = <<>>
          \/ \E m \in Messages \ known : mailbox' = Append(mailbox, m)
      BY MailboxStep DEF known
    <3> HIDE DEF more
    <3>4. /\ HeardBelow(had, floor, mailbox, more)
          /\ HeardBelow(had, 0, <<>>, more) /\ HeardBelow(had, floor, <<>>, more)
          /\ \A m \in Messages \ known : HeardBelow(had, floor, Append(mailbox, m), more)
      BY <1>1, <3>1, <3>2, StillHeard, Zenon
    <3>5. HeardBelow(had, relay_cursors'[s], mailbox', more)
      BY <1>4, <3>3, <3>4
    <3>. QED BY <3>5 DEF more
  <2>. QED BY <2>1, <2>2
<1>5. CASE relay_pull(s) /\ mailbox # <<>>
  <2>1. asked[s] # None /\ reply[s] = None /\ mailbox' = mailbox /\ published' = published /\ posts' = posts
    BY <1>5 DEF relay_pull, OneExchange
  <2>2. /\ injected' = injected /\ reply'[s] = Batch(s) /\ relay_cursors'[s] = Batch(s).next
    BY <1>5 DEF relay_pull, TypeOK
  <2>3. PICK from \in Nat, to \in Nat :
          /\ floor <= from /\ from <= to
          /\ Batch(s).messages = SubSeq(mailbox, from + 1, to)
          /\ to <= Len(mailbox) \/ to = from
          /\ Batch(s).next \in Nat /\ floor <= Batch(s).next
          /\ Batch(s).next = to \/ from = to
    BY <2>1, BatchSpec DEF floor
  <2>4. Batch(s) # None
    <3>1. Batch(s) = [messages |-> Batch(s).messages, next |-> Batch(s).next]
      BY DEF Batch
    <3>2. SubSeq(mailbox, from + 1, to) \in Seq(Messages)
      BY <1>1, <2>3
    <3>3. Batch(s) \in [messages : Seq(Messages), next : Nat \cup {None}]
      BY <2>3, <3>1, <3>2
    <3>. QED BY <3>3, RelayAssumption
  <2>5. Heard(s)' = injected[s] \o SubSeq(mailbox, from + 1, to)
    BY <2>2, <2>3, <2>4 DEF Heard, InFlight
  <2>6. HeardBelow(injected[s] \o SubSeq(mailbox, from + 1, to), Batch(s).next, mailbox, known)
    BY <1>1, <1>3, <2>3, BatchHeard DEF AcceptedOnce, known
  <2>. QED BY <2>1, <2>2, <2>5, <2>6 DEF known
<1>6. ASSUME NEW m \in Messages, Publish(m)
      PROVE  injected'[s] = injected[s] /\ InFlight(s)' = InFlight(s) /\ relay_cursors'[s] = floor
  BY <1>6 DEF Publish, publish, PostArrives, PostFails, bus_dispatch, planeVars, subscriberVars, floor, InFlight
<1>7. ASSUME NEW u \in Subscribers, u # s \/ ~(relay_pull(s) /\ mailbox # <<>>), Pull(u) \/ SubscriberRestart(u)
      PROVE  /\ \/ injected'[s] = injected[s] /\ InFlight(s)' \in {<<>>, InFlight(s)}
                \/ Heard(s)' = Heard(s)
             /\ relay_cursors'[s] = floor
  <2>1. CASE request_pull(u) \/ RequestLost(u)
    BY <2>1 DEF request_pull, RequestLost, planeVars, floor, InFlight
  <2>2. CASE relay_pull(u) /\ u # s
    BY <2>2 DEF relay_pull, TypeOK, floor, InFlight
  <2>3. CASE relay_pull(u) /\ u = s
    <3>1. relay_cursors'[s] = floor /\ injected' = injected
      BY <1>7, <2>3 DEF relay_pull, floor
    <3>2. reply'[s] = [messages |-> <<>>, next |-> None]
      BY <1>7, <2>3 DEF relay_pull, TypeOK
    <3>3. reply'[s].messages = <<>>
      BY <3>2
    <3>. QED BY <3>1, <3>3 DEF InFlight
  <2>4. CASE apply_message(u) \/ apply_response(u)
    <3>1. relay_cursors'[s] = floor
      BY <2>4 DEF apply_message, apply_response, planeVars, floor
    <3>2. CASE u # s
      <4>1. injected'[s] = injected[s] /\ reply'[s] = reply[s]
        BY <2>4, <3>2 DEF apply_message, apply_response, TypeOK
      <4>. QED BY <3>1, <4>1 DEF InFlight
    <3>3. CASE u = s /\ apply_message(s)
      <4>1. /\ reply[s] # None /\ reply[s].messages # <<>>
            /\ injected'[s] = Append(injected[s], Head(reply[s].messages))
            /\ reply' = [reply EXCEPT ![s].messages = Tail(reply[s].messages)]
        BY <3>3 DEF apply_message, TypeOK
      <4>2. reply'[s] = [messages |-> Tail(reply[s].messages), next |-> reply[s].next]
        BY <4>1, RestOfResponse DEF TypeOK
      <4>3. reply'[s].messages = Tail(reply[s].messages)
        BY <4>2
      <4>4. reply'[s] # None
        <5>1. reply[s].next \in Nat \cup {None} /\ Tail(reply[s].messages) \in Seq(Messages)
          BY <4>1, RestOfResponse
        <5>2. reply'[s] \in [messages : Seq(Messages), next : Nat \cup {None}]
          BY <4>2, <5>1
        <5>. QED BY <5>2, RelayAssumption
      <4>5. injected[s] \o reply[s].messages = Append(injected[s], Head(reply[s].messages)) \o Tail(reply[s].messages)
        BY <4>1, RestOfResponse
      <4>6. Heard(s)' = injected'[s] \o reply'[s].messages /\ Heard(s) = injected[s] \o reply[s].messages
        BY <4>1, <4>4 DEF Heard, InFlight
      <4>. QED BY <3>1, <4>1, <4>3, <4>5, <4>6
    <3>4. CASE u = s /\ apply_response(s)
      <4>1. InFlight(s) = <<>> /\ InFlight(s)' = <<>> /\ injected' = injected
        BY <3>4 DEF apply_response, InFlight, TypeOK
      <4>. QED BY <3>1, <4>1
    <3>. QED BY <2>4, <3>2, <3>3, <3>4
  <2>5. CASE ResponseLost(u) \/ SubscriberRestart(u)
    <3>1. reply'[s] = None \/ reply'[s] = reply[s]
      BY <2>5 DEF ResponseLost, SubscriberRestart, TypeOK
    <3>2. relay_cursors'[s] = floor /\ injected' = injected
      BY <2>5 DEF ResponseLost, SubscriberRestart, planeVars, floor
    <3>. QED BY <3>1, <3>2 DEF InFlight
  <2>. QED BY <1>7, <2>1, <2>2, <2>3, <2>4, <2>5 DEF Pull
<1>8. CASE PlaneRestart
  BY <1>4, <1>8 DEF PlaneRestart, subscriberVars, InFlight
<1>9. CASE UNCHANGED relayVars
  BY <1>4, <1>9 DEF relayVars, planeVars, subscriberVars, floor, InFlight
<1>. QED BY <1>4, <1>5, <1>6, <1>7, <1>8, <1>9, StepsOfRelay

\* While the plane has not restarted, a pull starts at the floor.
LEMMA PullStartsAtFloor ==
  ASSUME TypeOK, CursorsBelowFloor, planeRestarts = 0, NEW s \in Subscribers, asked[s] # None
  PROVE  PullFrom(s) = relay_cursors[s]
<1>1. asked[s] \in Nat /\ relay_cursors[s] \in Nat /\ asked[s] <= relay_cursors[s]
  BY DEF TypeOK, CursorsBelowFloor
<1>. QED BY <1>1, MaxOfTwo DEF PullFrom

\* While the plane has not restarted, the new floor of a pull is within the mailbox.
LEMMA NextWithinMailbox ==
  ASSUME TypeOK, CursorsBelowFloor, planeRestarts = 0, NEW s \in Subscribers, asked[s] # None
  PROVE  Batch(s).next \in Nat /\ relay_cursors[s] <= Batch(s).next /\ Batch(s).next <= Len(mailbox)
<1>1. PICK from \in Nat, to \in Nat :
        /\ to <= Len(mailbox) \/ to = from
        /\ Batch(s).next \in Nat /\ Batch(s).next <= to /\ relay_cursors[s] <= Batch(s).next
        /\ Batch(s).next = to \/ (Batch(s).next = PullFrom(s) /\ from = to)
        /\ from = PullFrom(s) \/ from = Evicted
  BY BatchSpec
<1>2. PullFrom(s) = relay_cursors[s] /\ relay_cursors[s] <= Len(mailbox) /\ relay_cursors[s] \in Nat
  BY PullStartsAtFloor DEF CursorsBelowFloor, TypeOK
<1>. QED BY <1>1, <1>2, EvictedRange

\* A step that leaves the plane alive only lengthens the mailbox.
LEMMA MailboxGrows ==
  ASSUME TypeOK, AcceptedOnce, [Next]_vars, planeRestarts' = 0
  PROVE  /\ planeRestarts = 0
         /\ Len(mailbox) <= Len(mailbox') /\ \A p \in 1..Len(mailbox) : mailbox'[p] = mailbox[p]
<1>0. mailbox \in Seq(Messages) /\ planeRestarts \in Nat
  BY DEF TypeOK
<1>1. ASSUME NEW m \in Messages, Publish(m)
      PROVE  planeRestarts = 0 /\ (mailbox' = mailbox \/ mailbox' = Append(mailbox, m))
  BY <1>1 DEF Publish, publish, PostArrives, PostFails, bus_dispatch, relay_publish, planeVars, bounds
<1>2. ASSUME NEW s \in Subscribers, Pull(s) \/ SubscriberRestart(s)
      PROVE  planeRestarts = 0 /\ mailbox' = mailbox
  BY <1>2 DEF Pull, request_pull, relay_pull, RequestLost, apply_message, apply_response, ResponseLost, SubscriberRestart,
     planeVars, bounds
<1>3. ~PlaneRestart
  BY <1>0 DEF PlaneRestart
<1>4. CASE UNCHANGED relayVars
  BY <1>0, <1>4 DEF relayVars, planeVars, bounds
<1>5. planeRestarts = 0 /\ (mailbox' = mailbox \/ \E m \in Messages : mailbox' = Append(mailbox, m))
  BY <1>1, <1>2, <1>3, <1>4, StepsOfRelay DEF relayVars, planeVars, bounds
<1>. QED BY <1>0, <1>5

\* A cursor stays at or below the floor until the plane restarts.
LEMMA CursorsBelowFloorStep ==
  TypeOK /\ OneExchange /\ AcceptedOnce /\ CursorsBelowFloor /\ [Next]_vars => CursorsBelowFloor'
<1> SUFFICES ASSUME TypeOK, OneExchange, AcceptedOnce, CursorsBelowFloor, [Next]_vars,
                    planeRestarts' = 0, NEW s \in Subscribers
             PROVE  /\ relay_cursors'[s] <= Len(mailbox')
                    /\ cursors'[s] <= relay_cursors'[s]
                    /\ asked'[s] # None => asked'[s] <= relay_cursors'[s]
                    /\ reply'[s] # None /\ reply'[s].next # None => reply'[s].next <= relay_cursors'[s]
  BY DEF CursorsBelowFloor
<1>1. planeRestarts = 0 /\ Len(mailbox) <= Len(mailbox')
  BY MailboxGrows
<1>2. /\ relay_cursors[s] <= Len(mailbox) /\ cursors[s] <= relay_cursors[s]
      /\ asked[s] # None => asked[s] <= relay_cursors[s]
      /\ reply[s] # None /\ reply[s].next # None => reply[s].next <= relay_cursors[s]
  BY <1>1 DEF CursorsBelowFloor
<1>3. /\ relay_cursors[s] \in Nat /\ cursors[s] \in Nat /\ Len(mailbox) \in Nat /\ Len(mailbox') \in Nat
      /\ asked[s] \in Nat \cup {None}
      /\ reply[s] # None => reply[s].next \in Nat \cup {None}
  <2>1. mailbox \in Seq(Messages) /\ mailbox' \in Seq(Messages)
    BY TypeStep DEF TypeOK
  <2>. QED BY <2>1 DEF TypeOK
<1>4. ASSUME NEW m \in Messages, Publish(m)
      PROVE  UNCHANGED <<relay_cursors, cursors, asked, reply>>
  BY <1>4 DEF Publish, publish, PostArrives, PostFails, bus_dispatch, planeVars, subscriberVars
<1>5. ASSUME NEW u \in Subscribers, request_pull(u) \/ RequestLost(u)
      PROVE  UNCHANGED <<relay_cursors, cursors, reply>> /\ asked'[s] \in {None, asked[s], cursors[s]}
  BY <1>5 DEF request_pull, RequestLost, planeVars, TypeOK
<1>6. ASSUME NEW u \in Subscribers, relay_pull(u)
      PROVE  /\ relay_cursors'[s] <= Len(mailbox')
             /\ cursors'[s] <= relay_cursors'[s]
             /\ asked'[s] # None => asked'[s] <= relay_cursors'[s]
             /\ reply'[s] # None /\ reply'[s].next # None => reply'[s].next <= relay_cursors'[s]
  <2>1. CASE u # s
    <3>1. relay_cursors'[s] = relay_cursors[s] /\ cursors'[s] = cursors[s] /\ asked'[s] = asked[s] /\ reply'[s] = reply[s]
      BY <1>6, <2>1 DEF relay_pull, TypeOK
    <3>. QED BY <1>1, <1>2, <1>3, <3>1
  <2>2. CASE u = s /\ mailbox = <<>>
    <3>1. relay_cursors' = relay_cursors /\ cursors' = cursors /\ asked'[s] = None
      BY <1>6, <2>2 DEF relay_pull, TypeOK
    <3>2. reply'[s] = [messages |-> <<>>, next |-> None]
      BY <1>6, <2>2 DEF relay_pull, TypeOK
    <3>3. reply'[s].next = None
      BY <3>2
    <3>. QED BY <1>1, <1>2, <1>3, <3>1, <3>3
  <2>3. CASE u = s /\ mailbox # <<>>
    <3>1. cursors' = cursors /\ asked'[s] = None /\ reply'[s] = Batch(s) /\ relay_cursors'[s] = Batch(s).next /\ asked[s] # None
      BY <1>6, <2>3 DEF relay_pull, TypeOK
    <3>2. Batch(s).next \in Nat /\ relay_cursors[s] <= Batch(s).next /\ Batch(s).next <= Len(mailbox)
      BY <1>1, <3>1, NextWithinMailbox
    <3>. QED BY <1>1, <1>2, <1>3, <3>1, <3>2
  <2>. QED BY <2>1, <2>2, <2>3
<1>7. ASSUME NEW u \in Subscribers, apply_message(u) \/ apply_response(u)
      PROVE  /\ UNCHANGED <<relay_cursors, asked>>
             /\ reply'[s] # None => reply[s] # None /\ reply'[s].next = reply[s].next
             /\ cursors'[s] = cursors[s] \/ (reply[s] # None /\ reply[s].next # None /\ cursors'[s] = reply[s].next)
  <2>1. CASE apply_message(u)
    <3>1. /\ UNCHANGED <<relay_cursors, asked, cursors>> /\ reply[u] # None
          /\ reply' = [reply EXCEPT ![u].messages = Tail(reply[u].messages)]
      BY <2>1 DEF apply_message, planeVars
    <3>2. reply[u] \in [messages : Seq(Messages), next : Nat \cup {None}]
      BY <3>1, RestOfResponse
    <3>3. reply'[s] = IF s = u THEN [messages |-> Tail(reply[u].messages), next |-> reply[u].next] ELSE reply[s]
      <4>1. reply'[u] = [messages |-> Tail(reply[u].messages), next |-> reply[u].next]
        BY <3>1, <3>2 DEF TypeOK
      <4>2. CASE s # u
        BY <3>1, <4>2 DEF TypeOK
      <4>. QED BY <4>1, <4>2
    <3>. QED BY <3>1, <3>3
  <2>2. CASE apply_response(u)
    BY <2>2 DEF apply_response, planeVars, TypeOK
  <2>. QED BY <1>7, <2>1, <2>2
<1>8. ASSUME NEW u \in Subscribers, ResponseLost(u) \/ SubscriberRestart(u)
      PROVE  /\ relay_cursors' = relay_cursors /\ cursors'[s] \in {0, cursors[s]}
             /\ asked'[s] \in {None, asked[s]} /\ reply'[s] \in {None, reply[s]}
  <2>1. CASE ResponseLost(u)
    BY <2>1 DEF ResponseLost, planeVars, TypeOK
  <2>2. CASE SubscriberRestart(u)
    BY <2>2 DEF SubscriberRestart, planeVars, TypeOK
  <2>. QED BY <1>8, <2>1, <2>2
<1>9. ~PlaneRestart
  BY <1>1 DEF PlaneRestart
<1>10. CASE \/ \E m \in Messages : Publish(m)
            \/ UNCHANGED relayVars
  <2>1. UNCHANGED <<relay_cursors, cursors, asked, reply>>
    BY <1>4, <1>10 DEF relayVars, planeVars, subscriberVars
  <2>. QED BY <1>1, <1>2, <1>3, <2>1
<1>11. ASSUME NEW u \in Subscribers, request_pull(u) \/ RequestLost(u)
       PROVE  /\ relay_cursors'[s] <= Len(mailbox')
              /\ cursors'[s] <= relay_cursors'[s]
              /\ asked'[s] # None => asked'[s] <= relay_cursors'[s]
              /\ reply'[s] # None /\ reply'[s].next # None => reply'[s].next <= relay_cursors'[s]
  BY <1>1, <1>2, <1>3, <1>5, <1>11
<1>12. ASSUME NEW u \in Subscribers, apply_message(u) \/ apply_response(u)
       PROVE  /\ relay_cursors'[s] <= Len(mailbox')
              /\ cursors'[s] <= relay_cursors'[s]
              /\ asked'[s] # None => asked'[s] <= relay_cursors'[s]
              /\ reply'[s] # None /\ reply'[s].next # None => reply'[s].next <= relay_cursors'[s]
  BY <1>1, <1>2, <1>3, <1>7, <1>12
<1>13. ASSUME NEW u \in Subscribers, ResponseLost(u) \/ SubscriberRestart(u)
       PROVE  /\ relay_cursors'[s] <= Len(mailbox')
              /\ cursors'[s] <= relay_cursors'[s]
              /\ asked'[s] # None => asked'[s] <= relay_cursors'[s]
              /\ reply'[s] # None /\ reply'[s].next # None => reply'[s].next <= relay_cursors'[s]
  BY <1>1, <1>2, <1>3, <1>8, <1>13
<1>. QED BY <1>6, <1>9, <1>10, <1>11, <1>12, <1>13, StepsOfRelay DEF Pull

\* The message was injected, is on its way, or was in a response that never arrived.
Accounted(s, m) == m \in Range(injected[s]) \cup dropped[s] \cup Range(InFlight(s))

\* The two ways to say it.
LEMMA AccountedMeans ==
  /\ \A s, m : Accounted(s, m) <=>
        \/ m \in Range(injected[s]) \cup dropped[s]
        \/ reply[s] # None /\ m \in Range(reply[s].messages)
  /\ \A s, m : Accounted(s, m)' <=>
        \/ m \in Range(injected'[s]) \cup dropped'[s]
        \/ reply'[s] # None /\ m \in Range(reply'[s].messages)
<1>1. Range(<<>>) = {}
  BY DEF Range
<1>. QED BY <1>1 DEF Accounted, InFlight

\* No step forgets a message that was accounted for.
LEMMA AccountedStays ==
  ASSUME TypeOK, OneExchange, [Next]_vars, NEW s \in Subscribers, NEW m, Accounted(s, m)
  PROVE  Accounted(s, m)'
<1>0. /\ injected[s] \in Seq(Messages)
      /\ reply[s] # None => reply[s].messages \in Seq(Messages)
  BY DEF TypeOK
<1>1. CASE UNCHANGED <<injected, dropped, reply>>
  BY <1>1 DEF Accounted, InFlight
<1>2. ASSUME NEW u \in Subscribers, relay_pull(u) PROVE Accounted(s, m)'
  <2>1. UNCHANGED <<injected, dropped>>
    BY <1>2 DEF relay_pull
  <2>2. CASE u # s
    <3>1. reply'[s] = reply[s]
      BY <1>2, <2>2 DEF relay_pull, TypeOK
    <3>. QED BY <2>1, <3>1 DEF Accounted, InFlight
  <2>3. CASE u = s
    <3>1. reply[s] = None
      BY <1>2, <2>3 DEF relay_pull, OneExchange
    <3>2. m \in Range(injected[s]) \cup dropped[s]
      BY <3>1 DEF Accounted, InFlight, Range
    <3>. QED BY <2>1, <3>2 DEF Accounted
  <2>. QED BY <2>2, <2>3
<1>3. ASSUME NEW u \in Subscribers, apply_message(u) \/ apply_response(u) PROVE Accounted(s, m)'
  <2>1. dropped' = dropped /\ reply[u] # None
    BY <1>3 DEF apply_message, apply_response
  <2>2. CASE u # s
    <3>1. reply'[s] = reply[s] /\ injected'[s] = injected[s]
      BY <1>3, <2>2 DEF apply_message, apply_response, TypeOK
    <3>. QED BY <2>1, <3>1 DEF Accounted, InFlight
  <2>3. CASE u = s /\ apply_response(s)
    <3>1. injected' = injected /\ InFlight(s) = <<>>
      BY <2>3 DEF apply_response, InFlight
    <3>. QED BY <2>1, <3>1 DEF Accounted, Range
  <2>4. CASE u = s /\ apply_message(s)
    <3> DEFINE old == injected[s]
               n == Head(reply[s].messages)
    <3>1. /\ injected'[s] = Append(old, n) /\ old \in Seq(Messages)
          /\ reply[s].messages # <<>> /\ reply' = [reply EXCEPT ![s].messages = Tail(reply[s].messages)]
      BY <1>0, <2>4 DEF apply_message, TypeOK
    <3>2. /\ reply[s] \in [messages : Seq(Messages), next : Nat \cup {None}]
          /\ n \in Messages /\ Tail(reply[s].messages) \in Seq(Messages)
          /\ Range(reply[s].messages) = {n} \cup Range(Tail(reply[s].messages))
      BY <2>1, <2>4, <3>1, RestOfResponse
    <3>3. reply'[s] = [messages |-> Tail(reply[s].messages), next |-> reply[s].next]
      BY <3>1, <3>2 DEF TypeOK
    <3>4. reply'[s].messages = Tail(reply[s].messages) /\ reply'[s] # None
      <4>1. reply'[s] \in [messages : Seq(Messages), next : Nat \cup {None}]
        BY <3>2, <3>3
      <4>2. reply'[s] # None
        BY <4>1, RelayAssumption
      <4>3. reply'[s].messages = Tail(reply[s].messages)
        BY <3>3
      <4>. QED BY <4>2, <4>3
    <3> HIDE DEF old, n
    <3>5. Range(old) \cup {n} \subseteq Range(Append(old, n))
      <4>1. \A i \in 1..Len(old) : old[i] = Append(old, n)[i] /\ i \in 1..Len(Append(old, n))
        BY <3>1
      <4>2. n = Append(old, n)[Len(old) + 1] /\ (Len(old) + 1) \in 1..Len(Append(old, n))
        BY <3>1
      <4>3. DOMAIN old = 1..Len(old) /\ DOMAIN Append(old, n) = 1..Len(Append(old, n))
        BY <3>1, <3>2
      <4>. QED BY <4>1, <4>2, <4>3 DEF Range
    <3>6. m \in Range(old) \cup dropped[s] \cup {n} \cup Range(InFlight(s)')
      BY <2>1, <2>4, <3>2, <3>4 DEF Accounted, InFlight, old
    <3>. QED BY <2>1, <3>1, <3>5, <3>6 DEF Accounted
  <2>. QED BY <1>3, <2>2, <2>3, <2>4
<1>4. ASSUME NEW u \in Subscribers, ResponseLost(u) \/ SubscriberRestart(u) PROVE Accounted(s, m)'
  <2>1. injected' = injected /\ Drop(u)
    BY <1>4 DEF ResponseLost, SubscriberRestart
  <2>2. reply'[s] = IF u = s THEN None ELSE reply[s]
    <3>1. reply' = [reply EXCEPT ![u] = None]
      BY <1>4 DEF ResponseLost, SubscriberRestart
    <3>. QED BY <3>1 DEF TypeOK
  <2>3. dropped'[s] = IF u = s /\ reply[s] # None THEN dropped[s] \cup Range(reply[s].messages) ELSE dropped[s]
    BY <2>1 DEF Drop, TypeOK
  <2>4. InFlight(s) = IF reply[s] = None THEN <<>> ELSE reply[s].messages
    BY DEF InFlight
  <2>5. Range(<<>>) = {}
    BY DEF Range
  <2>. QED BY <2>1, <2>2, <2>3, <2>4, <2>5 DEF Accounted, InFlight
<1>5. ASSUME NEW n \in Messages, Publish(n) PROVE UNCHANGED <<injected, dropped, reply>>
  BY <1>5 DEF Publish, publish, PostArrives, PostFails, bus_dispatch, subscriberVars
<1>6. ASSUME NEW u \in Subscribers, request_pull(u) \/ RequestLost(u) PROVE UNCHANGED <<injected, dropped, reply>>
  BY <1>6 DEF request_pull, RequestLost
<1>7. CASE PlaneRestart \/ UNCHANGED relayVars
  BY <1>1, <1>7 DEF PlaneRestart, relayVars, subscriberVars
<1>. QED BY <1>1, <1>2, <1>3, <1>4, <1>5, <1>6, <1>7, StepsOfRelay DEF Pull

\* The floor passes a message only when the subscriber has been given it.
LEMMA FloorAccountsStep ==
  /\ TypeOK /\ OneExchange /\ AcceptedOnce /\ CursorsBelowFloor /\ FloorAccountsForMessages
  /\ [Next]_vars
  => FloorAccountsForMessages'
<1> SUFFICES ASSUME TypeOK, OneExchange, AcceptedOnce, CursorsBelowFloor, FloorAccountsForMessages, [Next]_vars
             PROVE  FloorAccountsForMessages'
  OBVIOUS
<1>1. TypeOK' /\ CursorsBelowFloor'
  BY TypeStep, CursorsBelowFloorStep
<1>2. planeRestarts' = 0 => \A s \in Subscribers : relay_cursors'[s] <= Len(mailbox')
  BY <1>1 DEF CursorsBelowFloor
<1>3. ASSUME planeRestarts' = 0, NEW s \in Subscribers, NEW p \in (Evicted' + 1)..relay_cursors'[s],
             NEW m, m = mailbox'[p]
      PROVE  Accounted(s, m)'
  <2>1. planeRestarts = 0 /\ Len(mailbox) <= Len(mailbox') /\ \A q \in 1..Len(mailbox) : mailbox'[q] = mailbox[q]
    BY <1>3, MailboxGrows
  <2>2. /\ Evicted \in Nat /\ Len(mailbox) \in Nat /\ relay_cursors[s] \in Nat /\ relay_cursors'[s] \in Nat
        /\ relay_cursors[s] <= Len(mailbox)
    BY <1>1, <2>1, EvictedRange DEF TypeOK, CursorsBelowFloor
  <2>3. Evicted' \in Nat /\ Evicted <= Evicted'
    <3>1. Len(mailbox') \in Nat /\ RELAY_CAP \in Nat
      BY <1>1, RelayAssumption DEF TypeOK
    <3> DEFINE a == Len(mailbox) - RELAY_CAP
               b == Len(mailbox') - RELAY_CAP
    <3>2. a \in Int /\ b \in Int /\ a <= b
      BY <2>1, <2>2, <3>1
    <3>3. Evicted' = Max({0, b}) /\ Evicted = Max({0, a})
      BY DEF Evicted
    <3> HIDE DEF a, b
    <3>4. Max({0, a}) = (IF 0 >= a THEN 0 ELSE a) /\ Max({0, b}) = (IF 0 >= b THEN 0 ELSE b)
      BY <3>2, MaxOfTwo
    <3>. QED BY <3>2, <3>3, <3>4
  <2>a. p \in Nat /\ Evicted' + 1 <= p /\ p <= relay_cursors'[s]
    BY <1>3, <2>2, <2>3
  <2>4. CASE p <= relay_cursors[s]
    <3>1. p \in (Evicted + 1)..relay_cursors[s] /\ p \in 1..Len(mailbox)
      BY <2>2, <2>3, <2>4, <2>a, Between
    <3>2. Accounted(s, mailbox[p])
      BY <2>1, <3>1, AccountedMeans DEF FloorAccountsForMessages
    <3>3. m = mailbox[p]
      BY <1>3, <2>1, <3>1
    <3>. QED BY <3>2, <3>3, AccountedStays
  <2>5. CASE p > relay_cursors[s]
    <3>1. relay_cursors'[s] # relay_cursors[s]
      BY <2>2, <2>3, <2>5, <2>a
    <3>2. relay_pull(s) /\ mailbox # <<>>
      <4>1. ASSUME NEW n \in Messages, Publish(n) PROVE FALSE
        BY <3>1, <4>1 DEF Publish, publish, PostArrives, PostFails, bus_dispatch, planeVars
      <4>2. ASSUME NEW u \in Subscribers, Pull(u) \/ SubscriberRestart(u), ~relay_pull(u) PROVE FALSE
        BY <3>1, <4>2 DEF Pull, request_pull, RequestLost, apply_message, apply_response, ResponseLost, SubscriberRestart, planeVars
      <4>3. ~PlaneRestart
        BY <1>3, <2>1 DEF PlaneRestart
      <4>4. ASSUME NEW u \in Subscribers, relay_pull(u) PROVE u = s /\ mailbox # <<>>
        BY <3>1, <4>4 DEF relay_pull, TypeOK
      <4>. QED BY <3>1, <4>1, <4>2, <4>3, <4>4, StepsOfRelay DEF relayVars, planeVars
    <3>3. asked[s] # None /\ mailbox' = mailbox /\ reply'[s] = Batch(s) /\ relay_cursors'[s] = Batch(s).next
      BY <3>2 DEF relay_pull, TypeOK
    <3>4. PICK from \in Nat, to \in Nat :
            /\ Batch(s).messages = SubSeq(mailbox, from + 1, to)
            /\ to <= Len(mailbox) \/ to = from
            /\ Batch(s).next = to \/ (Batch(s).next = PullFrom(s) /\ from = to)
            /\ from = PullFrom(s) \/ from = Evicted
      BY <3>3, BatchSpec
    <3>5. PullFrom(s) = relay_cursors[s]
      BY <2>1, <3>3, PullStartsAtFloor
    <3>6. Evicted' = Evicted
      BY <3>3 DEF Evicted
    <3>7. from < p /\ p <= to /\ to <= Len(mailbox)
      BY <2>2, <2>3, <2>5, <2>a, <3>3, <3>4, <3>5, <3>6
    <3>8. m \in Range(SubSeq(mailbox, from + 1, to))
      <4>1. mailbox \in Seq(Messages) /\ p \in Nat
        BY <2>a DEF TypeOK
      <4>2. /\ (p - from) \in 1..Len(SubSeq(mailbox, from + 1, to))
            /\ SubSeq(mailbox, from + 1, to)[p - from] = mailbox[p]
            /\ DOMAIN SubSeq(mailbox, from + 1, to) = 1..Len(SubSeq(mailbox, from + 1, to))
        BY <3>7, <4>1
      <4>. QED BY <1>3, <3>3, <4>2 DEF Range
    <3>9. reply'[s] # None
      <4>1. reply'[s] = [messages |-> Batch(s).messages, next |-> Batch(s).next]
        BY <3>3 DEF Batch
      <4>2. SubSeq(mailbox, from + 1, to) \in Seq(Messages) /\ Batch(s).next \in Nat
        <5>1. mailbox \in Seq(Messages) /\ Batch(s).next \in Nat
          BY <2>2, <3>3 DEF TypeOK
        <5>. QED BY <3>7, <5>1
      <4>3. reply'[s] \in [messages : Seq(Messages), next : Nat \cup {None}]
        BY <3>4, <4>1, <4>2
      <4>. QED BY <4>3, RelayAssumption
    <3>. QED BY <3>3, <3>4, <3>8, <3>9 DEF Accounted, InFlight
  <2>. QED BY <2>2, <2>4, <2>5, <2>a
<1>. QED BY <1>2, <1>3, AccountedMeans DEF FloorAccountsForMessages

\* What an entry is.
Entry == [message : Messages, from : Nat]

\* More offered and more published changes nothing.
LEMMA StillFollows ==
  ASSUME NEW entries \in Seq(Entry), NEW offered \in Seq(Messages), NEW known, NEW more, known \subseteq more,
         FollowsRelay(entries, offered, known)
  PROVE  /\ FollowsRelay(entries, offered, more)
         /\ \A m \in Messages : FollowsRelay(entries, Append(offered, m), more)
<1>1. FollowsRelay(entries, offered, more)
  BY DEF FollowsRelay
<1>2. ASSUME NEW m \in Messages PROVE FollowsRelay(entries, Append(offered, m), more)
  <2>1. \A k \in 1..Len(offered) : k \in 1..Len(Append(offered, m)) /\ Append(offered, m)[k] = offered[k]
    OBVIOUS
  <2>. QED BY <1>1, <2>1 DEF FollowsRelay
<1>. QED BY <1>1, <1>2

\* A message the instance publishes was in no channel before.
LEMMA OwnFollows ==
  ASSUME NEW entries \in Seq(Entry), NEW offered \in Seq(Messages), NEW known, NEW more, known \subseteq more,
         FollowsRelay(entries, offered, known), NEW m \in Messages, m \notin known, m \in more
  PROVE  FollowsRelay(Append(entries, [message |-> m, from |-> 0]), offered, more)
<1> DEFINE entry == [message |-> m, from |-> 0]
           all == Append(entries, entry)
<1>1. entry \in Entry /\ entry.message = m /\ entry.from = 0
  BY DEF Entry
<1> HIDE DEF entry
<1>2. /\ Len(all) = Len(entries) + 1 /\ Len(entries) \in Nat
      /\ \A j \in 1..Len(all) : all[j] = IF j = Len(entries) + 1 THEN entry ELSE entries[j]
  BY <1>1
<1> HIDE DEF all
<1>3. ASSUME NEW j \in 1..Len(all)
      PROVE  /\ all[j].message \in more
             /\ ~Own(all[j]) => all[j].from \in 1..Len(offered) /\ offered[all[j].from] = all[j].message
             /\ \A i \in 1..Len(all) : i < j =>
                  /\ all[i].message = all[j].message => Own(all[i]) /\ ~Own(all[j])
                  /\ ~Own(all[i]) /\ ~Own(all[j]) => all[i].from < all[j].from
  <2>1. CASE j = Len(entries) + 1
    <3>1. all[j] = entry /\ Own(entry)
      BY <1>1, <1>2, <2>1 DEF Own
    <3>2. \A i \in 1..Len(all) : i < j => i \in 1..Len(entries) /\ all[i] = entries[i]
      BY <1>2, <2>1
    <3>3. \A i \in 1..Len(entries) : entries[i].message # m
      BY DEF FollowsRelay
    <3>. QED BY <1>1, <3>1, <3>2, <3>3
  <2>2. CASE j # Len(entries) + 1
    <3>1. j \in 1..Len(entries) /\ \A i \in 1..Len(all) : i <= j => i \in 1..Len(entries) /\ all[i] = entries[i]
      BY <1>2, <2>2
    <3>2. all[j] = entries[j]
      BY <3>1
    <3>. QED BY <3>1, <3>2 DEF FollowsRelay
  <2>. QED BY <2>1, <2>2
<1>4. QED BY <1>3 DEF FollowsRelay, all, entry

\* A message from the relay is the latest it has offered.
LEMMA RelayedFollows ==
  ASSUME NEW entries \in Seq(Entry), NEW offered \in Seq(Messages), NEW known,
         FollowsRelay(entries, offered, known), NEW m \in Messages, m \in known,
         \A k \in 1..Len(offered) : offered[k] # m
  PROVE  FollowsRelay(Append(entries, [message |-> m, from |-> Len(offered) + 1]), Append(offered, m), known)
<1> DEFINE entry == [message |-> m, from |-> Len(offered) + 1]
           all == Append(entries, entry)
<1>1. entry \in Entry /\ entry.message = m /\ entry.from = Len(offered) + 1 /\ Len(offered) \in Nat
  BY DEF Entry
<1> HIDE DEF entry
<1>2. /\ Len(all) = Len(entries) + 1 /\ Len(entries) \in Nat
      /\ \A j \in 1..Len(all) : all[j] = IF j = Len(entries) + 1 THEN entry ELSE entries[j]
  BY <1>1
<1> HIDE DEF all
<1>3. /\ Len(Append(offered, m)) = Len(offered) + 1 /\ Append(offered, m)[Len(offered) + 1] = m
      /\ FollowsRelay(entries, Append(offered, m), known)
  BY StillFollows
<1>4. ASSUME NEW j \in 1..Len(all)
      PROVE  /\ all[j].message \in known
             /\ ~Own(all[j]) => all[j].from \in 1..Len(Append(offered, m)) /\ Append(offered, m)[all[j].from] = all[j].message
             /\ \A i \in 1..Len(all) : i < j =>
                  /\ all[i].message = all[j].message => Own(all[i]) /\ ~Own(all[j])
                  /\ ~Own(all[i]) /\ ~Own(all[j]) => all[i].from < all[j].from
  <2>1. CASE j = Len(entries) + 1
    <3>1. all[j] = entry /\ ~Own(entry)
      BY <1>1, <1>2, <2>1 DEF Own
    <3>2. \A i \in 1..Len(all) : i < j => i \in 1..Len(entries) /\ all[i] = entries[i]
      BY <1>2, <2>1
    <3>3. \A i \in 1..Len(entries) : ~Own(entries[i]) => entries[i].message # m /\ entries[i].from < Len(offered) + 1
      <4> SUFFICES ASSUME NEW i \in 1..Len(entries), ~Own(entries[i])
                   PROVE  entries[i].message # m /\ entries[i].from < Len(offered) + 1
        OBVIOUS
      <4>1. entries[i].from \in 1..Len(offered) /\ offered[entries[i].from] = entries[i].message
        BY DEF FollowsRelay
      <4>. QED BY <1>1, <4>1
    <3>. QED BY <1>1, <1>3, <3>1, <3>2, <3>3
  <2>2. CASE j # Len(entries) + 1
    <3>1. j \in 1..Len(entries) /\ \A i \in 1..Len(all) : i <= j => i \in 1..Len(entries) /\ all[i] = entries[i]
      BY <1>2, <2>2
    <3>2. all[j] = entries[j]
      BY <3>1
    <3>3. /\ entries[j].message \in known
          /\ ~Own(entries[j]) => entries[j].from \in 1..Len(Append(offered, m))
                                 /\ Append(offered, m)[entries[j].from] = entries[j].message
      BY <1>3, <3>1 DEF FollowsRelay
    <3>4. \A i \in 1..Len(entries) : i < j =>
            /\ entries[i].message = entries[j].message => Own(entries[i]) /\ ~Own(entries[j])
            /\ ~Own(entries[i]) /\ ~Own(entries[j]) => entries[i].from < entries[j].from
      BY <3>1 DEF FollowsRelay
    <3>. QED BY <3>1, <3>2, <3>3, <3>4
  <2>. QED BY <2>1, <2>2
<1>5. QED BY <1>4 DEF FollowsRelay, all, entry

\* The next message of a response was published, and the relay has not offered it yet.
LEMMA NextIsNew ==
  ASSUME TypeOK, EachHearsBelow, NEW s \in Subscribers, reply[s] # None, reply[s].messages # <<>>
  PROVE  /\ Head(reply[s].messages) \in published
         /\ \A k \in 1..Len(injected[s]) : injected[s][k] # Head(reply[s].messages)
<1> DEFINE a == injected[s]
           b == reply[s].messages
<1>1. a \in Seq(Messages) /\ b \in Seq(Messages) /\ b # <<>>
  BY RestOfResponse DEF TypeOK
<1>2. HeardBelow(a \o b, relay_cursors[s], mailbox, published \ posts)
  BY DEF EachHearsBelow, Heard, InFlight
<1> HIDE DEF a, b
<1>3. /\ (Len(a) + 1) \in 1..Len(a \o b) /\ (a \o b)[Len(a) + 1] = Head(b) /\ DOMAIN (a \o b) = 1..Len(a \o b)
      /\ \A k \in 1..Len(a) : k \in 1..Len(a \o b) /\ (a \o b)[k] = a[k] /\ k # Len(a) + 1
  BY <1>1
<1>4. Head(b) \in published
  BY <1>2, <1>3 DEF HeardBelow
<1>5. \A k \in 1..Len(a) : a[k] # Head(b)
  BY <1>2, <1>3 DEF HeardBelow, IsInjective
<1>. QED BY <1>4, <1>5 DEF a, b

\* Every step keeps the channels in line with the relay.
LEMMA ChannelFollowsStep == TypeOK /\ EachHearsBelow /\ ChannelFollowsRelay /\ [Next]_vars => ChannelFollowsRelay'
<1> SUFFICES ASSUME TypeOK, EachHearsBelow, ChannelFollowsRelay, [Next]_vars, NEW s \in Subscribers
             PROVE  FollowsRelay(heard'[s], injected'[s], published')
  BY DEF ChannelFollowsRelay
<1>1. /\ heard[s] \in Seq(Entry) /\ injected[s] \in Seq(Messages)
      /\ FollowsRelay(heard[s], injected[s], published)
  BY DEF TypeOK, ChannelFollowsRelay, Entry
<1>2. CASE heard'[s] = heard[s] /\ injected'[s] = injected[s] /\ published \subseteq published'
  BY <1>1, <1>2, StillFollows
<1>3. ASSUME NEW m \in Messages, NEW i \in Instances, publish(i, m)
      PROVE  FollowsRelay(heard'[s], injected'[s], published')
  <2>1. m \notin published /\ published' = published \cup {m} /\ injected' = injected
    BY <1>3 DEF publish, Fresh, subscriberVars
  <2>2. CASE i = s /\ Room(s)
    <3>1. heard'[s] = Append(heard[s], [message |-> m, from |-> 0])
      BY <1>3, <2>2 DEF publish, bus_publish, TypeOK
    <3>. QED BY <1>1, <2>1, <3>1, OwnFollows
  <2>3. CASE ~(i = s /\ Room(s))
    <3>1. heard'[s] = heard[s]
      BY <1>3, <2>3 DEF publish, bus_publish, channelVars, TypeOK
    <3>. QED BY <1>2, <2>1, <3>1
  <2>. QED BY <2>2, <2>3
<1>4. ASSUME NEW m \in Messages, PostArrives(m) \/ PostFails(m) \/ bus_dispatch(m)
      PROVE  FollowsRelay(heard'[s], injected'[s], published')
  BY <1>2, <1>4 DEF PostArrives, PostFails, bus_dispatch, subscriberVars, channelVars
<1>5. ASSUME NEW u \in Subscribers, apply_message(u)
      PROVE  FollowsRelay(heard'[s], injected'[s], published')
  <2>1. published' = published
    BY <1>5 DEF apply_message
  <2>2. CASE u # s
    <3>1. heard'[s] = heard[s] /\ injected'[s] = injected[s]
      BY <1>5, <2>2 DEF apply_message, bus_publish, TypeOK
    <3>. QED BY <1>2, <2>1, <3>1
  <2>3. CASE u = s
    <3> DEFINE m == Head(reply[s].messages)
    <3>1. /\ m \in Messages /\ m \in published /\ \A k \in 1..Len(injected[s]) : injected[s][k] # m
      BY <1>5, <2>3, NextIsNew, RestOfResponse DEF apply_message
    <3>2. injected'[s] = Append(injected[s], m)
      BY <1>5, <2>3 DEF apply_message, TypeOK
    <3>3. heard'[s] \in {heard[s], Append(heard[s], [message |-> m, from |-> Len(injected[s]) + 1])}
      BY <1>5, <2>3 DEF apply_message, bus_publish, TypeOK
    <3> HIDE DEF m
    <3>4. FollowsRelay(heard[s], Append(injected[s], m), published)
      BY <1>1, <3>1, StillFollows
    <3>5. FollowsRelay(Append(heard[s], [message |-> m, from |-> Len(injected[s]) + 1]), Append(injected[s], m), published)
      BY <1>1, <3>1, RelayedFollows
    <3>. QED BY <2>1, <3>2, <3>3, <3>4, <3>5
  <2>. QED BY <2>2, <2>3
<1>6. ASSUME NEW u \in Subscribers,
             \/ request_pull(u) \/ relay_pull(u) \/ RequestLost(u) \/ apply_response(u) \/ ResponseLost(u)
             \/ SubscriberRestart(u) \/ take(u) \/ TriggerEnds(u)
      PROVE  FollowsRelay(heard'[s], injected'[s], published')
  <2>1. UNCHANGED <<heard, injected, published>>
    BY <1>6 DEF request_pull, relay_pull, RequestLost, apply_response, ResponseLost, SubscriberRestart, take, TriggerEnds,
       channelVars, subscriberVars
  <2>. QED BY <1>2, <2>1
<1>7. CASE PlaneRestart \/ UNCHANGED vars
  BY <1>2, <1>7 DEF PlaneRestart, vars, subscriberVars, channelVars
<1>. QED BY <1>3, <1>4, <1>5, <1>6, <1>7 DEF Next, Publish, Pull

\* Init establishes the inductive invariant.
LEMMA InitHolds == Init => IInv
<1> SUFFICES ASSUME Init PROVE IInv
  OBVIOUS
<1>1. TypeOK
  BY DEF Init, TypeOK
<1>2. OneExchange /\ AcceptedOnce
  BY DEF Init, OneExchange, AcceptedOnce, IsInjective
<1>3. EachHearsBelow
  <2> SUFFICES ASSUME NEW s \in Subscribers
               PROVE  HeardBelow(Heard(s), relay_cursors[s], mailbox, published \ posts)
    BY DEF EachHearsBelow
  <2>1. injected[s] = <<>> /\ InFlight(s) = <<>>
    BY DEF Init, InFlight
  <2>2. <<>> \o <<>> = <<>>
    OBVIOUS
  <2>3. Heard(s) = <<>>
    BY <2>1, <2>2 DEF Heard
  <2>. QED BY <2>3 DEF HeardBelow, IsInjective
<1>4. Evicted \in Nat
  BY <1>1, EvictedRange
<1>5. CursorsBelowFloor /\ FloorAccountsForMessages
  BY <1>4 DEF Init, CursorsBelowFloor, FloorAccountsForMessages
<1>6. ChannelFollowsRelay
  BY DEF Init, ChannelFollowsRelay, FollowsRelay
<1>. QED BY <1>1, <1>2, <1>3, <1>5, <1>6 DEF IInv

-----------------------------------------------------------------------------
(* The results. *)

\* The inductive invariant holds in every state.
THEOREM Invariance == Spec => []IInv
<1>1. IInv /\ [Next]_vars => IInv'
  BY TypeStep, OneExchangeStep, AcceptedOnceStep, EachHearsBelowStep, ChannelFollowsStep, CursorsBelowFloorStep, FloorAccountsStep DEF IInv
<1>. QED BY <1>1, InitHolds, PTL DEF Spec

\* relay_api.rs, "at-most-once per cursor": whatever is lost or restarts, a queue trigger
\* gets no message from the relay twice, gets them in the order of the mailbox, and gets
\* a message twice only when its own instance published it, which comes first.
THEOREM HeardOnceInOrder == Spec => []RelayedOnceInOrder
<1>1. IInv => RelayedOnceInOrder
  <2> SUFFICES ASSUME IInv, NEW s \in Subscribers, NEW i \in 1..Len(heard[s]), NEW j \in 1..Len(heard[s]), i < j
               PROVE  /\ heard[s][i].message = heard[s][j].message => Own(heard[s][i]) /\ ~Own(heard[s][j])
                      /\ ~Own(heard[s][i]) /\ ~Own(heard[s][j]) =>
                           \A p, q \in 1..Len(mailbox) :
                             mailbox[p] = heard[s][i].message /\ mailbox[q] = heard[s][j].message => p < q
    BY DEF RelayedOnceInOrder
  <2>1. /\ injected[s] \in Seq(Messages) /\ mailbox \in Seq(Messages) /\ relay_cursors[s] \in Nat
        /\ reply[s] # None => reply[s].messages \in Seq(Messages)
    BY DEF IInv, TypeOK
  <2>2. InFlight(s) \in Seq(Messages)
    BY <2>1 DEF InFlight
  <2>3. HeardBelow(injected[s] \o InFlight(s), relay_cursors[s], mailbox, published \ posts)
    BY DEF IInv, EachHearsBelow, Heard
  <2>4. HeardBelow(injected[s], relay_cursors[s], mailbox, published \ posts)
    BY <2>1, <2>2, <2>3, PrefixHeard
  <2>5. FollowsRelay(heard[s], injected[s], published)
    BY DEF IInv, ChannelFollowsRelay
  <2>6. heard[s][i].message = heard[s][j].message => Own(heard[s][i]) /\ ~Own(heard[s][j])
    BY <2>5 DEF FollowsRelay
  <2>7. ASSUME ~Own(heard[s][i]), ~Own(heard[s][j]), NEW p \in 1..Len(mailbox), NEW q \in 1..Len(mailbox),
               mailbox[p] = heard[s][i].message, mailbox[q] = heard[s][j].message
        PROVE  p < q
    <3>1. /\ heard[s][i].from \in 1..Len(injected[s]) /\ injected[s][heard[s][i].from] = heard[s][i].message
          /\ heard[s][j].from \in 1..Len(injected[s]) /\ injected[s][heard[s][j].from] = heard[s][j].message
          /\ heard[s][i].from < heard[s][j].from
      BY <2>5, <2>7 DEF FollowsRelay
    <3>. QED BY <2>4, <2>7, <3>1 DEF HeardBelow
  <2>. QED BY <2>6, <2>7
<1>. QED BY <1>1, Invariance, PTL

\* The floor the plane keeps for a subscriber skips no retained message: what is at or
\* below it was injected, is on its way, or was in a response that never arrived.
THEOREM FloorSkipsNothing == Spec => []FloorAccountsForMessages
<1>1. IInv => FloorAccountsForMessages
  BY DEF IInv
<1>. QED BY <1>1, Invariance, PTL

-----------------------------------------------------------------------------
(* The supervisor of an instance. *)

\* Where the task may be when its instance is published as stopped or failed.
Resting == {"loop", "post", "closing", "done", "cancelled"}

\* What the published state and the process have to do with each other at each
\* point of the task: the part of the induction NoProcessLeaked does not say.
PointOfTask ==
  /\ pc \in {"launch", "launchPaused", "settle", "sleep"} => child = "none"
  /\ pc \in {"loop", "post"} => /\ state \in {"running", "paused", "stopped", "failed"}
                                /\ state \in {"running", "paused"} <=> child # "none"
  /\ pc = "probe" => child # "none" /\ state \in {"running", "paused"}
  /\ state \in {"stopped", "failed"} => pc \in Resting

\* Each respawn was counted as an attempt beforehand, and one under way is still
\* within the budget.
RespawnsCounted ==
  /\ respawns <= attempts
  /\ pc \in {"backoff", "sleep"} => Restart /\ respawns < attempts /\ respawns + 1 < MaxRestarts

SupervisorInv == SupervisorTypeOK /\ PointOfTask /\ RespawnsCounted /\ RestartBudget

\* What a policy decision leads to.
LEMMA RestartOrFail ==
  ASSUME SupervisorInv, restart_or_fail, respawns' = respawns
  PROVE  /\ attempts' \in Nat
         /\ pc' \in {"backoff", "failing"}
         /\ state' \in {"restarting", state}
         /\ pc' = "backoff" => state' = "restarting"
         /\ pc' = "failing" => state' = state
         /\ RespawnsCounted' /\ RestartBudget'
<1>1. attempts \in Nat /\ respawns \in Nat /\ respawns <= attempts /\ RestartBudget
  BY DEF SupervisorInv, SupervisorTypeOK, RespawnsCounted
<1>2. MaxRestarts \in Nat /\ Restart \in BOOLEAN
  BY SupervisorAssumption
<1>3. CASE restart_backoff(attempts + 1)
  BY <1>1, <1>2, <1>3 DEF restart_or_fail, restart_backoff, RespawnsCounted, RestartBudget
<1>4. CASE ~restart_backoff(attempts + 1)
  BY <1>1, <1>2, <1>4 DEF restart_or_fail, RespawnsCounted, RestartBudget
<1>. QED BY <1>3, <1>4

\* The paused flag of the process is Boolean; kept apart from the rest of SupervisorTypeOK,
\* which needs arithmetic.
LEMMA GateStep == gate \in BOOLEAN /\ [SupervisorNext]_supervisorVars => gate' \in BOOLEAN
<1> SUFFICES ASSUME gate \in BOOLEAN, [SupervisorNext]_supervisorVars PROVE gate' \in BOOLEAN
  OBVIOUS
<1>1. CASE spawn_child
  BY <1>1, Zenon DEF spawn_child
<1>2. CASE admin_post
  <2>1. gate' \in {gate, posting = "pause"}
    BY <1>2, Zenon DEF admin_post
  <2>. QED BY <2>1, Zenon
<1>3. CASE ~spawn_child /\ ~admin_post
  <2>1. gate' = gate
    BY <1>3, Zenon DEF SupervisorNext, Probe, StartStopped, terminate_child, handle_command, ChildExited, supervise_tick,
       apply_health, ProbeFails, BackoffOver, ChannelClosed, Crash, Hang, send, shutdown, ShutdownReturns,
       ShutdownTimesOut, DropManager, AgentExits, supervisorVars
  <2>. QED BY <2>1, Zenon
<1>. QED BY <1>1, <1>2, <1>3

\* SupervisorInit establishes the inductive invariant.
LEMMA SupervisorStarts == SupervisorInit => SupervisorInv
<1> SUFFICES ASSUME SupervisorInit PROVE SupervisorInv
  OBVIOUS
<1>1. gate \in BOOLEAN
  BY Zenon DEF SupervisorInit
<1>2. respawns = 0 /\ attempts = 0 /\ pc \in {"launch", "launchPaused", "settle"} /\ state = "starting"
  BY DEF SupervisorInit
<1>3. SupervisorTypeOK
  BY <1>1 DEF SupervisorInit, SupervisorTypeOK, InstanceState
<1>4. RespawnsCounted /\ RestartBudget
  BY <1>2, SupervisorAssumption DEF RespawnsCounted, RestartBudget
<1>5. PointOfTask
  BY DEF SupervisorInit, PointOfTask
<1>. QED BY <1>3, <1>4, <1>5 DEF SupervisorInv

\* Every step keeps the inductive invariant.
LEMMA SupervisorSteps == SupervisorInv /\ [SupervisorNext]_supervisorVars => SupervisorInv'
<1> SUFFICES ASSUME SupervisorInv, [SupervisorNext]_supervisorVars PROVE SupervisorInv'
  OBVIOUS
<1>0. SupervisorTypeOK /\ PointOfTask /\ RespawnsCounted /\ RestartBudget
  BY DEF SupervisorInv
<1>b. gate' \in BOOLEAN
  BY <1>0, GateStep DEF SupervisorTypeOK
<1>a. MaxRestarts \in Nat /\ Restart \in BOOLEAN
  BY SupervisorAssumption
<1>1. CASE spawn_child
  BY <1>0, <1>b, <1>1 DEF spawn_child, SupervisorInv, SupervisorTypeOK, PointOfTask, Resting, RespawnsCounted, RestartBudget,
     InstanceState, Fault, NoFault
<1>2. CASE StartStopped
  BY <1>0, <1>b, <1>2 DEF StartStopped, SupervisorInv, SupervisorTypeOK, PointOfTask, Resting, RespawnsCounted, RestartBudget, InstanceState
<1>3. CASE terminate_child
  <2>1. pc \in {"stopping", "restarting", "backoff", "failing", "closing"} /\ child' = "none"
    BY <1>3 DEF terminate_child
  <2>2. CASE pc \in {"stopping", "failing"}
    <3>1. pc' = "loop" /\ state' \in {"stopped", "failed"}
      BY <1>3, <2>2 DEF terminate_child
    <3>. QED BY <1>0, <1>3, <2>1, <3>1 DEF terminate_child, SupervisorInv, SupervisorTypeOK, PointOfTask, Resting,
             RespawnsCounted, RestartBudget, InstanceState
  <2>3. CASE pc = "restarting"
    <3>1. pc' = "launch" /\ state' = "starting"
      BY <1>3, <2>3 DEF terminate_child
    <3>. QED BY <1>0, <1>3, <2>1, <3>1 DEF terminate_child, SupervisorInv, SupervisorTypeOK, PointOfTask, Resting,
             RespawnsCounted, RestartBudget, InstanceState
  <2>4. CASE pc = "backoff"
    <3>1. pc' = "sleep" /\ state' = state
      BY <1>3, <2>4 DEF terminate_child
    <3>. QED BY <1>0, <1>3, <2>1, <2>4, <3>1 DEF terminate_child, SupervisorInv, SupervisorTypeOK, PointOfTask, Resting,
             RespawnsCounted, RestartBudget, InstanceState
  <2>5. CASE pc = "closing"
    <3>1. pc' = "done" /\ state' = state
      BY <1>3, <2>5 DEF terminate_child
    <3>. QED BY <1>0, <1>3, <2>1, <3>1 DEF terminate_child, SupervisorInv, SupervisorTypeOK, PointOfTask, Resting,
             RespawnsCounted, RestartBudget, InstanceState
  <2>. QED BY <2>1, <2>2, <2>3, <2>4, <2>5
<1>4. CASE handle_command
  <2>1. queue' \in Seq(InstanceCommand) /\ Head(queue) \in InstanceCommand
    BY <1>0, <1>4 DEF handle_command, SupervisorTypeOK
  <2>. QED BY <1>0, <1>4, <2>1 DEF handle_command, Accepts, SupervisorInv, SupervisorTypeOK, PointOfTask, Resting,
           RespawnsCounted, RestartBudget, InstanceState
<1>5. CASE admin_post
  BY <1>0, <1>b, <1>5 DEF admin_post, SupervisorInv, SupervisorTypeOK, PointOfTask, Resting, RespawnsCounted, RestartBudget,
     InstanceState, Fault, NoFault
<1>6. CASE ChildExited
  <2>1. state # "stopping" /\ restart_or_fail /\ child' = "none"
    BY <1>0, <1>6 DEF ChildExited, PointOfTask
  <2>2. state \in {"running", "paused"}
    BY <1>0, <1>6 DEF ChildExited, PointOfTask
  <2>. QED BY <1>0, <1>6, <2>1, <2>2, RestartOrFail DEF ChildExited, SupervisorInv, SupervisorTypeOK, PointOfTask, Resting, InstanceState
<1>7. CASE supervise_tick
  BY <1>0, <1>b, <1>7 DEF supervise_tick, SupervisorInv, SupervisorTypeOK, PointOfTask, Resting, RespawnsCounted, RestartBudget
<1>8. CASE apply_health
  <2>1. state' \in {"running", "paused"}
    BY <1>0, <1>8 DEF apply_health, SupervisorTypeOK, PointOfTask
  <2>. QED BY <1>0, <1>b, <1>8, <2>1 DEF apply_health, SupervisorInv, SupervisorTypeOK, PointOfTask, Resting, RespawnsCounted, RestartBudget, InstanceState
<1>9. CASE ProbeFails
  <2>1. state \in {"running", "paused"} /\ child # "none" /\ pc = "probe"
    BY <1>0, <1>b, <1>9 DEF ProbeFails, PointOfTask, Resting
  <2>2. CASE failures + 1 >= HealthFailures
    BY <1>0, <1>b, <1>9, <2>1, <2>2, RestartOrFail DEF ProbeFails, SupervisorInv, SupervisorTypeOK, PointOfTask, Resting, InstanceState, Fault, NoFault
  <2>3. CASE ~(failures + 1 >= HealthFailures)
    BY <1>0, <1>b, <1>9, <2>1, <2>3 DEF ProbeFails, SupervisorInv, SupervisorTypeOK, PointOfTask, Resting,
       RespawnsCounted, RestartBudget, Fault, NoFault
  <2>. QED BY <2>2, <2>3
<1>10. CASE BackoffOver
  BY <1>0, <1>a, <1>10 DEF BackoffOver, SupervisorInv, SupervisorTypeOK, PointOfTask, Resting, RespawnsCounted, RestartBudget, InstanceState
<1>11. CASE ChannelClosed
  BY <1>0, <1>11 DEF ChannelClosed, SupervisorInv, SupervisorTypeOK, PointOfTask, Resting, RespawnsCounted, RestartBudget
<1>12. CASE Crash \/ Hang
  BY <1>0, <1>12 DEF Crash, Hang, task, Fault, SupervisorInv, SupervisorTypeOK, PointOfTask, Resting, RespawnsCounted, RestartBudget
<1>13. ASSUME NEW command \in InstanceCommand, send(command) PROVE SupervisorInv'
  BY <1>0, <1>13 DEF send, task, SupervisorInv, SupervisorTypeOK, PointOfTask, Resting, RespawnsCounted, RestartBudget
<1>14. CASE shutdown
  <2>1. "stop" \in InstanceCommand
    BY DEF InstanceCommand
  <2>. QED BY <1>0, <1>14, <2>1 DEF shutdown, task, SupervisorInv, SupervisorTypeOK, PointOfTask, Resting, RespawnsCounted, RestartBudget
<1>15. CASE ShutdownReturns \/ ShutdownTimesOut \/ DropManager
  BY <1>0, <1>15 DEF ShutdownReturns, ShutdownTimesOut, DropManager, task, SupervisorInv, SupervisorTypeOK, PointOfTask, Resting,
     RespawnsCounted, RestartBudget
<1>16. CASE AgentExits
  BY <1>0, <1>16 DEF AgentExits, SupervisorInv, SupervisorTypeOK, PointOfTask, Resting, RespawnsCounted, RestartBudget
<1>17. CASE UNCHANGED supervisorVars
  BY <1>0, <1>17 DEF supervisorVars, SupervisorInv, SupervisorTypeOK, PointOfTask, Resting, RespawnsCounted, RestartBudget
<1>. QED BY <1>1, <1>2, <1>3, <1>4, <1>5, <1>6, <1>7, <1>8, <1>9, <1>10, <1>11, <1>12, <1>13, <1>14, <1>15,
         <1>16, <1>17 DEF SupervisorNext, Probe

\* The inductive invariant holds throughout.
LEMMA SupervisorInvariance == SupervisorSpec => []SupervisorInv
BY SupervisorStarts, SupervisorSteps, PTL DEF SupervisorSpec

\* The supervisor's variables keep their types.
THEOREM SupervisorTypeCorrect == SupervisorSpec => []SupervisorTypeOK
<1>1. SupervisorInv => SupervisorTypeOK
  BY DEF SupervisorInv
<1>. QED BY <1>1, SupervisorInvariance, PTL

\* process.rs: for every policy and every sequence of commands and crashes, no
\* process is launched over another one, and a running state has a process.
THEOREM OneProcessAtATime == SupervisorSpec => []NoProcessLeaked
<1>1. SupervisorInv => NoProcessLeaked
  BY DEF SupervisorInv, PointOfTask, NoProcessLeaked
<1>. QED BY <1>1, SupervisorInvariance, PTL

\* policy.rs: for every policy, the respawns stay within its budget.
THEOREM BudgetRespected == SupervisorSpec => []RestartBudget
<1>1. SupervisorInv => RestartBudget
  BY DEF SupervisorInv
<1>. QED BY <1>1, SupervisorInvariance, PTL

\* supervise_tick: only a command revives a stopped or failed instance.
THEOREM RevivedByCommandsOnly == SupervisorSpec => OnlyCommandsRevive
<1>1. SupervisorInv /\ [SupervisorNext]_supervisorVars =>
        [(state \in {"stopped", "failed"} /\ state' # state) => (pc = "loop" /\ queue' = Tail(queue))]_supervisorVars
  <2> SUFFICES ASSUME SupervisorInv, SupervisorNext, state \in {"stopped", "failed"}, state' # state
               PROVE  pc = "loop" /\ queue' = Tail(queue)
    OBVIOUS
  <2>1. pc \in Resting /\ (pc \in {"loop", "post"} => child = "none")
    BY DEF SupervisorInv, PointOfTask
  <2>2. ~(spawn_child \/ StartStopped \/ BackoffOver \/ apply_health \/ ProbeFails)
    BY <2>1 DEF Resting, spawn_child, StartStopped, BackoffOver, apply_health, ProbeFails
  <2>3. ~terminate_child
    BY <2>1 DEF Resting, terminate_child
  <2>4. ~(admin_post \/ ChildExited)
    BY <2>1 DEF Resting, admin_post, ChildExited
  <2>5. ~(supervise_tick \/ ChannelClosed \/ Crash \/ Hang \/ shutdown \/ ShutdownReturns \/ ShutdownTimesOut
          \/ DropManager \/ AgentExits \/ \E command \in InstanceCommand : send(command))
    BY DEF supervise_tick, ChannelClosed, Crash, Hang, shutdown, ShutdownReturns, ShutdownTimesOut,
       DropManager, AgentExits, send, task
  <2>6. handle_command
    BY <2>2, <2>3, <2>4, <2>5 DEF SupervisorNext, Probe
  <2>. QED BY <2>6 DEF handle_command
<1>. QED BY SupervisorInvariance, <1>1, PTL DEF SupervisorSpec, OnlyCommandsRevive
=============================================================================
