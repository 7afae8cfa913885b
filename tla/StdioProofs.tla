----------------------------- MODULE StdioProofs ----------------------------
(***************************************************************************)
(* For any calls, deployments, faults and batch size: every call of an     *)
(* external store, bus or sink behaves like RemoteCalls, and a stream      *)
(* yields the rows of the bus in order, each once.                         *)
(***************************************************************************)
EXTENDS Stdio, SequenceTheorems, TLAPS

-----------------------------------------------------------------------------
(* The inductive invariant: a client, its process and their conversation.  *)
(* The parameters are the client's name, its host and ext, and status,     *)
(* applied and read.                                                       *)

\* The values of the fields of host and ext.
Sessions == {"none", "initializing", "ready", "calling"}
Batches == [records : Seq(Publishes), done : BOOLEAN]
Lines == [id : 0..IDS, ok : BOOLEAN, value : Saves \cup {None} \cup Batches]
Asked == [id : 1..IDS, op : Ops \cup {"initialize"}]
Hosts == [waiting : Seq(Ops), holder : Ops \cup {None}, session : Sessions, next_id : 1..IDS]
Exts == [child : {"none", "alive", "dead"}, stdin : Seq(Asked), working : Seq(Lines), stdout : Seq(Lines),
         last_id : Nat, stopped : BOOLEAN]

\* Waiters wait, the holder calls, and neither has had an effect before the request is out.
Mutex(c, h, at, done) ==
  /\ \A i \in 1..Len(h.waiting) :
       at[h.waiting[i]] = "waiting" /\ Client(h.waiting[i]) = c /\ h.waiting[i] \notin done
  /\ \A i, j \in 1..Len(h.waiting) : h.waiting[i] = h.waiting[j] => i = j
  /\ h.holder # None => at[h.holder] = "calling" /\ Client(h.holder) = c
  /\ h.session \in {"initializing", "calling"} => h.holder # None
  /\ h.session # "calling" /\ h.holder # None => h.holder \notin done

\* The id of the request under way, and what a line with this id says: that the call has
\* had its effect, and what it found.
Cur(h) == IF h.next_id = 1 THEN IDS ELSE h.next_id - 1
Answers(h, line, done, found) ==
  /\ line.id = Cur(h)
  /\ h.session = "calling" /\ line.ok =>
       /\ h.holder \in Calls => h.holder \in done
       /\ h.holder \in Loads => line.value = found[h.holder]
       /\ h.holder = "pull" => line.value \in Batches

\* Lines that answer no request.
Strays(lines) == \A i \in 1..Len(lines) : lines[i].id = 0

\* Between requests the pipes have stray lines at most; during one, the request, or the
\* answer in the making, or the answer, once, among stray lines.
Conversation(h, e, done, found) ==
  /\ h.session = "none" => e = NoProcess
  /\ h.session \in {"none", "ready"} => e.stdin = <<>> /\ e.working = <<>> /\ Strays(e.stdout)
  /\ e.stdin # <<>> =>
       /\ e.stdin = <<[id |-> Cur(h), op |-> IF h.session = "initializing" THEN "initialize" ELSE h.holder]>>
       /\ e.working = <<>> /\ Strays(e.stdout)
       /\ h.holder \notin done /\ e.child = "alive"
  /\ e.working # <<>> => Len(e.working) = 1 /\ Answers(h, e.working[1], done, found) /\ Strays(e.stdout)
  /\ \A i \in 1..Len(e.stdout) : e.stdout[i].id # 0 => Answers(h, e.stdout[i], done, found)
  /\ \A i, j \in 1..Len(e.stdout) : e.stdout[i].id # 0 /\ e.stdout[j].id # 0 => i = j

\* A client and its process as they should be.
Good(c, h, e, at, done, found) ==
  h \in Hosts /\ e \in Exts /\ Mutex(c, h, at, done) /\ Conversation(h, e, done, found)

-----------------------------------------------------------------------------
(* What one client and its process do. *)

\* The clients of the calls.
LEMMA Clientele ==
  /\ \A op \in Ops : Client(op) \in Clients /\ op # None /\ op # "initialize"
  /\ \A op \in Publishes : Client(op) = "bus"
  /\ \A op \in Sends : Client(op) = "sink"
  /\ \A op \in Saves \cup Deletes \cup Loads : Client(op) = "store"
  /\ \A op \in FlowOps : op \notin Calls /\ Client(op) = "flow"
  /\ Calls \subseteq Ops /\ FlowOps \subseteq Ops /\ None \notin Ops
  /\ IDS \in Nat /\ IDS > 2
<1>1. /\ None \notin Ops /\ (FlowOps \cup {"initialize"}) \cap Calls = {} /\ IDS \in Nat /\ IDS > 2
      /\ Publishes \cap Sends = {} /\ (Publishes \cup Sends) \cap (Saves \cup Deletes \cup Loads) = {}
  BY StdioAssumption
<1>2. "initialize" \notin FlowOps /\ "initialize" \notin Calls
  BY <1>1 DEF FlowOps
<1>3. \A op \in Ops : Client(op) \in Clients
  BY DEF Client, Clients
<1>4. \A op \in FlowOps : op \notin Calls /\ Client(op) = "flow"
  BY <1>1 DEF Client, Calls
<1>. QED BY <1>1, <1>2, <1>3, <1>4 DEF Client, Ops, Calls

\* Removing one of a sequence leaves the others, in their order.
LEMMA Removed ==
  ASSUME NEW X, NEW q \in Seq(X), NEW n \in 1..Len(q)
  PROVE  /\ RemoveAt(q, n) \in Seq(X) /\ Len(RemoveAt(q, n)) = Len(q) - 1
         /\ \A i \in 1..(Len(q) - 1) : RemoveAt(q, n)[i] = IF i < n THEN q[i] ELSE q[i + 1]
<1> DEFINE a == SubSeq(q, 1, n - 1)
           b == SubSeq(q, n + 1, Len(q))
<1>1. a \in Seq(X) /\ Len(a) = n - 1 /\ \A i \in 1..(n - 1) : a[i] = q[i]
  OBVIOUS
<1>2. b \in Seq(X) /\ Len(b) = Len(q) - n /\ \A i \in 1..(Len(q) - n) : b[i] = q[n + i]
  OBVIOUS
<1>3. RemoveAt(q, n) = a \o b
  BY DEF RemoveAt
<1> HIDE DEF a, b
<1>4. PICK m \in Nat, k \in Nat : m = n - 1 /\ k = Len(q) - n /\ Len(q) - 1 = m + k /\ n = m + 1
  <2>1. PICK l \in Nat : l = Len(q) /\ n \in 1..l
    OBVIOUS
  <2>2. n - 1 \in Nat /\ l - n \in Nat /\ l - 1 = (n - 1) + (l - n) /\ n = (n - 1) + 1
    BY <2>1
  <2>. QED BY <2>1, <2>2
<1>5. a \o b \in Seq(X) /\ Len(a \o b) = m + k
  <2>1. a \in Seq(X) /\ b \in Seq(X) /\ Len(a) = m /\ Len(b) = k
    BY <1>1, <1>2, <1>4
  <2>2. a \o b \in Seq(X) /\ Len(a \o b) = Len(a) + Len(b)
    BY <2>1, ConcatProperties
  <2>. QED BY <2>1, <2>2
<1>6. ASSUME NEW i \in 1..(m + k) PROVE (a \o b)[i] = IF i < n THEN q[i] ELSE q[i + 1]
  <2>1. CASE i < n
    BY <1>1, <1>2, <1>4, <2>1
  <2>2. CASE ~(i < n)
    <3>1. (a \o b)[i] = b[i - m] /\ i - m \in 1..k /\ n + (i - m) = i + 1
      BY <1>1, <1>2, <1>4, <2>2
    <3>. QED BY <1>2, <1>4, <2>2, <3>1
  <2>. QED BY <2>1, <2>2
<1>. QED BY <1>3, <1>4, <1>5, <1>6

\* What another client does concerns none of this client's callers.
LEMMA GoodElsewhere ==
  ASSUME NEW c, NEW h, NEW e, NEW at, NEW done, NEW found, NEW at2, NEW done2, NEW found2,
         Good(c, h, e, at, done, found),
         \A op \in Ops : Client(op) = c =>
           at2[op] = at[op] /\ (op \in done2 <=> op \in done) /\ (op \in Loads => found2[op] = found[op])
  PROVE  Good(c, h, e, at2, done2, found2)
<1>1. h \in Hosts /\ e \in Exts
  BY DEF Good
<1>2. \A i \in 1..Len(h.waiting) : h.waiting[i] \in Ops
  BY <1>1 DEF Hosts
<1>3. h.holder \in Ops \cup {None}
  BY <1>1 DEF Hosts
<1>4. Mutex(c, h, at2, done2)
  BY <1>2, <1>3, Clientele DEF Mutex, Good
<1>5. ASSUME NEW line, Answers(h, line, done, found) PROVE Answers(h, line, done2, found2)
  <2>1. h.session = "calling" => h.holder \in Ops /\ Client(h.holder) = c
    BY <1>3 DEF Good, Mutex
  <2>. QED BY <1>5, <2>1 DEF Answers
<1>6. e.stdin # <<>> => h.holder \notin done2
  <2>1. e.stdin # <<>> => h.holder # None
    BY <1>1 DEF Good, Mutex, Conversation, Hosts, Sessions
  <2>. QED BY <1>3, <2>1 DEF Good, Mutex, Conversation
<1>7. Conversation(h, e, done2, found2)
  BY <1>5, <1>6 DEF Good, Conversation
<1>. QED BY <1>1, <1>4, <1>7 DEF Good

\* A caller joins the waiters.
LEMMA GoodAsked ==
  ASSUME NEW c, NEW h, NEW e, NEW at \in [Ops -> {"idle", "waiting", "calling", "ok", "error"}], NEW done, NEW found,
         Good(c, h, e, at, done, found),
         NEW op \in Ops, Client(op) = c, at[op] \notin {"waiting", "calling"}
  PROVE  Good(c, [h EXCEPT !.waiting = Append(@, op)], e, [at EXCEPT ![op] = "waiting"], done \ {op}, found)
<1> DEFINE h2 == [h EXCEPT !.waiting = Append(@, op)]
           at2 == [at EXCEPT ![op] = "waiting"]
<1>1. h \in Hosts /\ e \in Exts /\ Mutex(c, h, at, done) /\ Conversation(h, e, done, found)
  BY DEF Good
<1>2. /\ h2 \in Hosts /\ h2.holder = h.holder /\ h2.session = h.session /\ h2.next_id = h.next_id
      /\ h2.waiting = Append(h.waiting, op) /\ h.waiting \in Seq(Ops)
  <2>1. h.waiting \in Seq(Ops)
    BY <1>1 DEF Hosts
  <2>2. PICK w \in Seq(Ops) : w = Append(h.waiting, op)
    <3>1. ASSUME NEW q \in Seq(Ops) PROVE Append(q, op) \in Seq(Ops)
      OBVIOUS
    <3>. QED BY <2>1, <3>1
  <2>3. h2 = [h EXCEPT !.waiting = w]
    BY <2>2
  <2>. QED BY <1>1, <2>1, <2>2, <2>3 DEF Hosts
<1>3. /\ Len(h2.waiting) = Len(h.waiting) + 1 /\ h2.waiting[Len(h.waiting) + 1] = op /\ Len(h.waiting) \in Nat
      /\ \A i \in 1..Len(h.waiting) : h2.waiting[i] = h.waiting[i] /\ h.waiting[i] \in Ops
  BY <1>2
<1>4. at2[op] = "waiting" /\ \A other \in Ops : other # op => at2[other] = at[other]
  OBVIOUS
<1>5. \A i \in 1..Len(h.waiting) : h.waiting[i] # op
  BY <1>1 DEF Mutex
<1>6. h.holder # op /\ h.holder \in Ops \cup {None}
  BY <1>1, Clientele DEF Mutex, Hosts
<1> HIDE DEF h2, at2
<1>7. Mutex(c, h2, at2, done \ {op})
  <2>1. ASSUME NEW i \in 1..Len(h2.waiting)
        PROVE  at2[h2.waiting[i]] = "waiting" /\ Client(h2.waiting[i]) = c /\ h2.waiting[i] \notin done \ {op}
    <3>1. CASE i = Len(h.waiting) + 1
      BY <1>3, <1>4, <3>1
    <3>2. CASE i \in 1..Len(h.waiting)
      BY <1>1, <1>3, <1>4, <3>2 DEF Mutex
    <3>. QED BY <1>3, <3>1, <3>2
  <2>2. \A i, j \in 1..Len(h2.waiting) : h2.waiting[i] = h2.waiting[j] => i = j
    <3>1. \A i, j \in 1..Len(h.waiting) : h2.waiting[i] = h2.waiting[j] => i = j
      BY <1>1, <1>3 DEF Mutex
    <3>2. \A i \in 1..Len(h.waiting) : h2.waiting[i] # h2.waiting[Len(h.waiting) + 1]
      BY <1>3, <1>5
    <3>3. PICK n \in Nat : n = Len(h.waiting) /\ Len(h2.waiting) = n + 1
      BY <1>3
    <3>4. \A i \in 1..(n + 1) : i \in 1..n \/ i = n + 1
      OBVIOUS
    <3>. QED BY <3>1, <3>2, <3>3, <3>4
  <2>. QED BY <1>1, <1>2, <1>4, <1>6, <2>1, <2>2 DEF Mutex
<1>8. ASSUME NEW line, Answers(h, line, done, found) PROVE Answers(h2, line, done \ {op}, found)
  BY <1>2, <1>6, <1>8 DEF Answers, Cur
<1>9. Conversation(h2, e, done \ {op}, found)
  BY <1>1, <1>2, <1>6, <1>8 DEF Conversation, Cur
<1>10. Good(c, h2, e, at2, done \ {op}, found)
  BY <1>1, <1>2, <1>7, <1>9 DEF Good
<1>. QED BY <1>10 DEF h2, at2

\* A waiter gets the mutex, or, to stop a trigger without a process, is done.
LEMMA GoodLocked ==
  ASSUME NEW c, NEW h, NEW e, NEW at \in [Ops -> {"idle", "waiting", "calling", "ok", "error"}], NEW done, NEW found,
         Good(c, h, e, at, done, found),
         NEW n \in 1..Len(h.waiting), NEW op, op = h.waiting[n], h.holder = None
  PROVE  /\ op \in Ops /\ Client(op) = c /\ at[op] = "waiting"
         /\ Good(c, [h EXCEPT !.waiting = RemoveAt(@, n), !.holder = op], e, [at EXCEPT ![op] = "calling"], done, found)
         /\ Good(c, [h EXCEPT !.waiting = RemoveAt(@, n)], e, [at EXCEPT ![op] = "ok"], done, found)
<1>1. h \in Hosts /\ e \in Exts /\ Mutex(c, h, at, done) /\ Conversation(h, e, done, found)
  BY DEF Good
<1>2. PICK q \in Seq(Ops) : q = h.waiting
  BY <1>1 DEF Hosts
<1>3. PICK q2 \in Seq(Ops) : q2 = RemoveAt(h.waiting, n)
  BY <1>2, Removed
<1>4. /\ Len(q2) = Len(q) - 1 /\ Len(q) \in Nat /\ n \in 1..Len(q) /\ op = q[n]
      /\ \A i \in 1..(Len(q) - 1) : q2[i] = IF i < n THEN q[i] ELSE q[i + 1]
  <2>1. n \in 1..Len(q) /\ op = q[n] /\ q2 = RemoveAt(q, n) /\ Len(q) \in Nat
    BY <1>2, <1>3
  <2>2. /\ Len(RemoveAt(q, n)) = Len(q) - 1
        /\ \A i \in 1..(Len(q) - 1) : RemoveAt(q, n)[i] = IF i < n THEN q[i] ELSE q[i + 1]
    BY <2>1, Removed
  <2>. QED BY <2>1, <2>2
<1>5. op \in Ops /\ Client(op) = c /\ at[op] = "waiting" /\ op \notin done /\ op # None
  BY <1>1, <1>2, <1>4, Clientele DEF Mutex
<1>6. \A i \in 1..Len(q2) : \E j \in 1..Len(q) : j # n /\ q2[i] = q[j]
  <2> SUFFICES ASSUME NEW i \in 1..Len(q2) PROVE \E j \in 1..Len(q) : j # n /\ q2[i] = q[j]
    OBVIOUS
  <2>1. CASE i < n
    BY <1>4, <2>1
  <2>2. CASE ~(i < n)
    BY <1>4, <2>2
  <2>. QED BY <2>1, <2>2
<1>7. \A i, j \in 1..Len(q2) : q2[i] = q2[j] => i = j
  <2>0. \A i, j \in 1..Len(q) : q[i] = q[j] => i = j
    BY <1>1, <1>2 DEF Mutex
  <2> SUFFICES ASSUME NEW i \in 1..Len(q2), NEW j \in 1..Len(q2), q2[i] = q2[j] PROVE i = j
    OBVIOUS
  <2>1. PICK a \in 1..Len(q), b \in 1..Len(q) :
          /\ a = (IF i < n THEN i ELSE i + 1) /\ b = (IF j < n THEN j ELSE j + 1) /\ q2[i] = q[a] /\ q2[j] = q[b]
    <3>1. (IF i < n THEN i ELSE i + 1) \in 1..Len(q) /\ (IF j < n THEN j ELSE j + 1) \in 1..Len(q)
      BY <1>4
    <3>. QED BY <1>4, <3>1
  <2>2. a = b
    BY <2>0, <2>1
  <2>. QED BY <1>4, <2>1, <2>2
<1>8. \A i \in 1..Len(q2) : q2[i] \in Ops /\ q2[i] # op /\ at[q2[i]] = "waiting" /\ Client(q2[i]) = c /\ q2[i] \notin done
  <2>0. \A i, j \in 1..Len(q) : q[i] = q[j] => i = j
    BY <1>1, <1>2 DEF Mutex
  <2>1. \A j \in 1..Len(q) : q[j] \in Ops /\ at[q[j]] = "waiting" /\ Client(q[j]) = c /\ q[j] \notin done
    BY <1>1, <1>2 DEF Mutex
  <2>. QED BY <1>4, <1>6, <2>0, <2>1
<1>9. h.session \in {"none", "ready"} /\ e.stdin = <<>> /\ e.working = <<>> /\ Strays(e.stdout)
      /\ (h.session = "none" => e = NoProcess)
  BY <1>1 DEF Hosts, Sessions, Mutex, Conversation
<1>10. ASSUME NEW h2 \in Hosts, h2.waiting = q2, h2.session = h.session, h2.next_id = h.next_id, NEW at2,
              \A other \in Ops : other # op => at2[other] = at[other],
              \/ h2.holder = None
              \/ h2.holder = op /\ at2[op] = "calling"
       PROVE  Good(c, h2, e, at2, done, found)
  <2>1. Mutex(c, h2, at2, done)
    BY <1>5, <1>7, <1>8, <1>9, <1>10 DEF Mutex
  <2>2. Conversation(h2, e, done, found)
    BY <1>9, <1>10 DEF Conversation, Strays
  <2>. QED BY <1>1, <2>1, <2>2 DEF Good
<1>11. PICK h2 \in Hosts : h2 = [h EXCEPT !.waiting = RemoveAt(@, n), !.holder = op]
  <2>1. [h EXCEPT !.waiting = q2, !.holder = op] \in Hosts
    BY <1>1, <1>5 DEF Hosts
  <2>. QED BY <1>3, <2>1
<1>12. h2.waiting = q2 /\ h2.session = h.session /\ h2.next_id = h.next_id /\ h2.holder = op
  <2>1. h2 = [h EXCEPT !.waiting = q2, !.holder = op]
    BY <1>3, <1>11
  <2>. QED BY <1>1, <2>1 DEF Hosts
<1>13. PICK h3 \in Hosts : h3 = [h EXCEPT !.waiting = RemoveAt(@, n)]
  <2>1. [h EXCEPT !.waiting = q2] \in Hosts
    BY <1>1 DEF Hosts
  <2>. QED BY <1>3, <2>1
<1>14. h3.waiting = q2 /\ h3.session = h.session /\ h3.next_id = h.next_id /\ h3.holder = None
  <2>1. h3 = [h EXCEPT !.waiting = q2]
    BY <1>3, <1>13
  <2>. QED BY <1>1, <2>1 DEF Hosts
<1>15. Good(c, h2, e, [at EXCEPT ![op] = "calling"], done, found)
  BY <1>5, <1>10, <1>12
<1>16. Good(c, h3, e, [at EXCEPT ![op] = "ok"], done, found)
  BY <1>5, <1>10, <1>14
<1>. QED BY <1>5, <1>11, <1>13, <1>15, <1>16

\* A client without a process has empty pipes.
LEMMA NothingRuns ==
  /\ NoProcess \in Exts /\ NoProcess.child = "none" /\ NoProcess.last_id = 0
  /\ NoProcess.stdin = <<>> /\ NoProcess.working = <<>> /\ NoProcess.stdout = <<>>
BY DEF NoProcess, Exts

\* A process starts, and is asked to initialize.
LEMMA GoodSpawned ==
  ASSUME NEW c, NEW h, NEW e, NEW at, NEW done, NEW found,
         Good(c, h, e, at, done, found), h.holder # None, h.session = "none"
  PROVE  Good(c, [h EXCEPT !.session = "initializing", !.next_id = take_id(1)],
              [NoProcess EXCEPT !.child = "alive", !.stdin = <<[id |-> 1, op |-> "initialize"]>>], at, done, found)
<1> DEFINE h2 == [h EXCEPT !.session = "initializing", !.next_id = take_id(1)]
           e2 == [NoProcess EXCEPT !.child = "alive", !.stdin = <<[id |-> 1, op |-> "initialize"]>>]
<1>1. h \in Hosts /\ Mutex(c, h, at, done)
  BY DEF Good
<1>2. take_id(1) = 2 /\ 2 \in 1..IDS /\ 1 \in 1..IDS
  BY Clientele DEF take_id
<1>3. h2 \in Hosts /\ h2.waiting = h.waiting /\ h2.holder = h.holder /\ h2.session = "initializing" /\ h2.next_id = 2
  BY <1>1, <1>2 DEF Hosts, Sessions
<1>4. /\ e2 \in Exts /\ e2.child = "alive" /\ e2.stdin = <<[id |-> 1, op |-> "initialize"]>>
      /\ e2.working = <<>> /\ e2.stdout = <<>>
  <2>1. [id |-> 1, op |-> "initialize"] \in Asked
    BY <1>2 DEF Asked
  <2>2. ASSUME NEW x \in Asked PROVE <<x>> \in Seq(Asked)
    OBVIOUS
  <2>3. PICK q \in Seq(Asked) : q = <<[id |-> 1, op |-> "initialize"]>>
    BY <2>1, <2>2
  <2>4. PICK none \in Exts : none = NoProcess /\ none.working = <<>> /\ none.stdout = <<>>
    BY NothingRuns
  <2>5. e2 = [none EXCEPT !.child = "alive", !.stdin = q]
    BY <2>3, <2>4
  <2>6. e2 \in Exts /\ e2.child = "alive" /\ e2.stdin = q /\ e2.working = none.working /\ e2.stdout = none.stdout
    BY <2>5 DEF Exts
  <2> HIDE DEF e2
  <2>. QED BY <2>3, <2>4, <2>6
<1> HIDE DEF h2, e2
<1>5. Mutex(c, h2, at, done)
  BY <1>1, <1>3 DEF Mutex
<1>6. Cur(h2) = 1
  BY <1>3 DEF Cur
<1>7. Conversation(h2, e2, done, found)
  BY <1>1, <1>3, <1>4, <1>6 DEF Conversation, Strays, Mutex
<1>8. Good(c, h2, e2, at, done, found)
  BY <1>3, <1>4, <1>5, <1>7 DEF Good
<1>. QED BY <1>8 DEF h2, e2

\* A call fails: its process is gone and the mutex free.
LEMMA GoodReset ==
  ASSUME NEW c, NEW h, NEW e, NEW at \in [Ops -> {"idle", "waiting", "calling", "ok", "error"}], NEW done, NEW found,
         Good(c, h, e, at, done, found), h.holder # None
  PROVE  /\ Good(c, [h EXCEPT !.holder = None, !.session = "none"], NoProcess, [at EXCEPT ![h.holder] = "error"], done, found)
         /\ h.session = "none" => [h EXCEPT !.holder = None] = [h EXCEPT !.holder = None, !.session = "none"] /\ e = NoProcess
         /\ h.holder \in Ops /\ Client(h.holder) = c /\ at[h.holder] = "calling"
<1> DEFINE h2 == [h EXCEPT !.holder = None, !.session = "none"]
           at2 == [at EXCEPT ![h.holder] = "error"]
<1>1. h \in Hosts /\ Mutex(c, h, at, done) /\ Conversation(h, e, done, found)
  BY DEF Good
<1>2. h2 \in Hosts /\ h2.waiting = h.waiting /\ h2.holder = None /\ h2.session = "none"
  BY <1>1 DEF Hosts, Sessions
<1>3. NoProcess \in Exts /\ NoProcess.stdin = <<>> /\ NoProcess.working = <<>> /\ NoProcess.stdout = <<>>
  BY NothingRuns
<1>4. h.holder \in Ops /\ Client(h.holder) = c /\ at[h.holder] = "calling"
  BY <1>1 DEF Hosts, Mutex
<1>5. \A i \in 1..Len(h.waiting) : h.waiting[i] \in Ops /\ at[h.waiting[i]] = "waiting"
  BY <1>1 DEF Hosts, Mutex
<1>6. \A i \in 1..Len(h.waiting) : at2[h.waiting[i]] = "waiting"
  BY <1>4, <1>5
<1> HIDE DEF h2, at2
<1>7. Mutex(c, h2, at2, done)
  BY <1>1, <1>2, <1>6 DEF Mutex
<1>8. Conversation(h2, NoProcess, done, found)
  BY <1>2, <1>3 DEF Conversation, Strays
<1>9. Good(c, h2, NoProcess, at2, done, found)
  BY <1>2, <1>3, <1>7, <1>8 DEF Good
<1>10. h.session = "none" => [h EXCEPT !.holder = None] = h2 /\ e = NoProcess
  BY <1>1 DEF h2, Hosts, Conversation
<1>. QED BY <1>4, <1>9, <1>10 DEF h2, at2

\* The request of the holder is written.
LEMMA GoodWritten ==
  ASSUME NEW c, NEW h, NEW e, NEW at, NEW done, NEW found,
         Good(c, h, e, at, done, found), h.holder # None, h.session = "ready", e.child = "alive"
  PROVE  /\ Good(c, [h EXCEPT !.session = "calling", !.next_id = take_id(@)],
                 [e EXCEPT !.stdin = Append(@, [id |-> h.next_id, op |-> h.holder])], at, done, found)
         /\ e.stdin = <<>> /\ e.working = <<>> /\ Strays(e.stdout)
<1> DEFINE h2 == [h EXCEPT !.session = "calling", !.next_id = take_id(@)]
           e2 == [e EXCEPT !.stdin = Append(@, [id |-> h.next_id, op |-> h.holder])]
<1>1. h \in Hosts /\ e \in Exts /\ Mutex(c, h, at, done) /\ Conversation(h, e, done, found)
  BY DEF Good
<1>2. PICK n \in 1..IDS, op \in Ops, m \in 1..IDS : n = h.next_id /\ op = h.holder /\ m = take_id(n) /\ m = (n % IDS) + 1
  <2>1. h.next_id \in 1..IDS /\ h.holder \in Ops
    BY <1>1 DEF Hosts
  <2>2. \A n \in 1..IDS : (n % IDS) + 1 \in 1..IDS
    BY Clientele
  <2>. QED BY <2>1, <2>2 DEF take_id
<1>3. (IF m = 1 THEN IDS ELSE m - 1) = n
  <2>1. CASE n = IDS
    <3>1. n % IDS = 0
      BY <2>1, Clientele
    <3>. QED BY <1>2, <2>1, <3>1
  <2>2. CASE n < IDS
    <3>1. n % IDS = n
      BY <2>2, Clientele
    <3>. QED BY <1>2, <2>2, <3>1, Clientele
  <2>. QED BY <1>2, <2>1, <2>2, Clientele
<1>4. h2 \in Hosts /\ h2.waiting = h.waiting /\ h2.holder = h.holder /\ h2.session = "calling" /\ h2.next_id = m
  BY <1>1, <1>2 DEF Hosts, Sessions
<1>5. e.stdin = <<>> /\ e.working = <<>> /\ Strays(e.stdout)
  BY <1>1 DEF Conversation
<1>6. PICK x \in Asked : x = [id |-> h.next_id, op |-> h.holder]
  BY <1>2 DEF Asked
<1>7. PICK q \in Seq(Asked) : q = Append(e.stdin, [id |-> h.next_id, op |-> h.holder]) /\ q = <<x>>
  <2>1. ASSUME NEW p \in Seq(Asked), p = <<>> PROVE Append(p, x) = <<x>> /\ <<x>> \in Seq(Asked)
    BY <2>1
  <2>2. e.stdin \in Seq(Asked)
    BY <1>1 DEF Exts
  <2>. QED BY <1>5, <1>6, <2>1, <2>2
<1>8. e2 \in Exts /\ e2.child = "alive" /\ e2.stdin = q /\ e2.working = <<>> /\ e2.stdout = e.stdout
  <2>1. e2 = [e EXCEPT !.stdin = q]
    BY <1>7
  <2>2. e2 \in Exts /\ e2.child = e.child /\ e2.stdin = q /\ e2.working = e.working /\ e2.stdout = e.stdout
    BY <1>1, <2>1 DEF Exts
  <2>. QED BY <1>5, <2>2
<1> HIDE DEF h2, e2
<1>9. Mutex(c, h2, at, done)
  BY <1>1, <1>4 DEF Mutex
<1>10. Cur(h2) = n
  BY <1>3, <1>4 DEF Cur
<1>11. h.holder \notin done
  BY <1>1 DEF Mutex
<1>12. e2.stdin = <<[id |-> Cur(h2), op |-> IF h2.session = "initializing" THEN "initialize" ELSE h2.holder]>>
  BY <1>2, <1>4, <1>6, <1>7, <1>8, <1>10
<1>13. Conversation(h2, e2, done, found)
  BY <1>4, <1>5, <1>8, <1>11, <1>12 DEF Conversation, Strays
<1>14. Good(c, h2, e2, at, done, found)
  BY <1>4, <1>8, <1>9, <1>13 DEF Good
<1>. QED BY <1>5, <1>14 DEF h2, e2

\* A line with the id of the request under way is its answer, and the only one.
LEMMA GoodLine ==
  ASSUME NEW c, NEW h, NEW e, NEW at, NEW done, NEW found, Good(c, h, e, at, done, found),
         h.session \in {"initializing", "calling"}, e.stdout # <<>>, Head(e.stdout).id = Cur(h)
  PROVE  /\ Head(e.stdout) \in Lines /\ Answers(h, Head(e.stdout), done, found) /\ Cur(h) \in 1..IDS
         /\ e.stdin = <<>> /\ e.working = <<>>
         /\ Tail(e.stdout) \in Seq(Lines) /\ Strays(Tail(e.stdout))
         /\ [e EXCEPT !.stdout = Tail(@)] \in Exts
         /\ [e EXCEPT !.stdout = Tail(@)].stdin = <<>> /\ [e EXCEPT !.stdout = Tail(@)].working = <<>>
         /\ Strays([e EXCEPT !.stdout = Tail(@)].stdout)
         /\ [e EXCEPT !.stdout = Tail(@)].child = e.child /\ [e EXCEPT !.stdout = Tail(@)].last_id = e.last_id
<1>1. h \in Hosts /\ e \in Exts /\ Conversation(h, e, done, found)
  BY DEF Good
<1>2. Cur(h) \in 1..IDS
  <2>1. h.next_id \in 1..IDS
    BY <1>1 DEF Hosts
  <2>. QED BY <2>1, Clientele DEF Cur
<1>3. PICK q \in Seq(Lines) : q = e.stdout
  BY <1>1 DEF Exts
<1>4. /\ q # <<>> /\ Head(q) = q[1] /\ 1 \in 1..Len(q) /\ Tail(q) \in Seq(Lines) /\ Len(q) \in Nat
      /\ Len(Tail(q)) = Len(q) - 1 /\ \A i \in 1..(Len(q) - 1) : Tail(q)[i] = q[i + 1]
  BY <1>3
<1>5. q[1].id = Cur(h) /\ q[1].id # 0 /\ q[1] \in Lines
  BY <1>2, <1>3, <1>4
<1>6. ~Strays(e.stdout)
  BY <1>3, <1>4, <1>5 DEF Strays
<1>7. e.stdin = <<>> /\ e.working = <<>> /\ Answers(h, q[1], done, found)
  BY <1>1, <1>3, <1>4, <1>5, <1>6 DEF Conversation
<1>8. Strays(Tail(q))
  <2> SUFFICES ASSUME NEW i \in 1..(Len(q) - 1) PROVE q[i + 1].id = 0
    BY <1>4 DEF Strays
  <2>1. i + 1 \in 1..Len(q) /\ i + 1 # 1
    BY <1>4
  <2>. QED BY <1>1, <1>3, <1>4, <1>5, <2>1 DEF Conversation
<1>9. PICK t \in Seq(Lines) : t = Tail(e.stdout) /\ t = Tail(q)
  BY <1>3, <1>4
<1>10. /\ [e EXCEPT !.stdout = t] \in Exts /\ [e EXCEPT !.stdout = t].stdin = e.stdin
       /\ [e EXCEPT !.stdout = t].working = e.working /\ [e EXCEPT !.stdout = t].stdout = t
       /\ [e EXCEPT !.stdout = t].child = e.child /\ [e EXCEPT !.stdout = t].last_id = e.last_id
  BY <1>1 DEF Exts
<1>11. [e EXCEPT !.stdout = Tail(@)] = [e EXCEPT !.stdout = t]
  BY <1>9
<1>. QED BY <1>2, <1>3, <1>4, <1>5, <1>7, <1>8, <1>9, <1>10, <1>11

\* The answer is read: the client is ready, and after a call the mutex is free.
LEMMA GoodAnswered ==
  ASSUME NEW c, NEW h, NEW e, NEW at \in [Ops -> {"idle", "waiting", "calling", "ok", "error"}], NEW done, NEW found,
         Good(c, h, e, at, done, found),
         h.session \in {"initializing", "calling"}, e.stdout # <<>>, Head(e.stdout).id = Cur(h)
  PROVE  /\ h.session = "initializing" =>
              Good(c, [h EXCEPT !.session = "ready"], [e EXCEPT !.stdout = Tail(@)], at, done, found)
         /\ h.session = "calling" =>
              Good(c, [h EXCEPT !.session = "ready", !.holder = None], [e EXCEPT !.stdout = Tail(@)],
                   [at EXCEPT ![h.holder] = "ok"], done, found)
<1> DEFINE h2 == [h EXCEPT !.session = "ready"]
           h3 == [h EXCEPT !.session = "ready", !.holder = None]
           at3 == [at EXCEPT ![h.holder] = "ok"]
<1>1. h \in Hosts /\ Mutex(c, h, at, done)
  BY DEF Good
<1>2. PICK e2 \in Exts : /\ e2 = [e EXCEPT !.stdout = Tail(@)]
                         /\ e2.stdin = <<>> /\ e2.working = <<>> /\ Strays(e2.stdout)
  BY GoodLine
<1>3. h2 \in Hosts /\ h2.waiting = h.waiting /\ h2.holder = h.holder /\ h2.session = "ready"
  BY <1>1 DEF Hosts, Sessions
<1>4. h3 \in Hosts /\ h3.waiting = h.waiting /\ h3.holder = None /\ h3.session = "ready"
  BY <1>1 DEF Hosts, Sessions
<1>5. \A i \in 1..Len(h.waiting) : h.waiting[i] \in Ops /\ at[h.waiting[i]] = "waiting"
  BY <1>1 DEF Hosts, Mutex
<1>6. h.holder \in Ops /\ at[h.holder] = "calling"
  BY <1>1 DEF Hosts, Mutex
<1>7. \A i \in 1..Len(h.waiting) : at3[h.waiting[i]] = "waiting"
  BY <1>5, <1>6
<1> HIDE DEF h2, h3, at3
<1>8. ASSUME NEW x, x.session = "ready" PROVE Conversation(x, e2, done, found)
  BY <1>2, <1>8 DEF Conversation, Strays
<1>9. h.session = "initializing" => Mutex(c, h2, at, done)
  BY <1>1, <1>3 DEF Mutex
<1>10. Mutex(c, h3, at3, done)
  BY <1>1, <1>4, <1>7 DEF Mutex
<1>11. /\ h.session = "initializing" => Good(c, h2, e2, at, done, found)
       /\ Good(c, h3, e2, at3, done, found)
  BY <1>2, <1>3, <1>4, <1>8, <1>9, <1>10 DEF Good
<1>. QED BY <1>2, <1>11 DEF h2, h3, at3

\* What stdin holds is the one request under way.
LEMMA GoodRequest ==
  ASSUME NEW c, NEW h, NEW e, NEW at, NEW done, NEW found, Good(c, h, e, at, done, found), e.stdin # <<>>
  PROVE  /\ Head(e.stdin).id = Cur(h) /\ Cur(h) \in 1..IDS /\ Tail(e.stdin) = <<>>
         /\ h.session \in {"initializing", "calling"} /\ h.holder \in Ops /\ Client(h.holder) = c /\ at[h.holder] = "calling"
         /\ h.session = "initializing" => Head(e.stdin).op = "initialize"
         /\ h.session = "calling" => Head(e.stdin).op = h.holder
         /\ h.holder \notin done /\ Strays(e.stdout) /\ e.working = <<>> /\ e.child = "alive"
<1>1. h \in Hosts /\ e \in Exts /\ Mutex(c, h, at, done) /\ Conversation(h, e, done, found)
  BY DEF Good
<1>2. PICK x : x = [id |-> Cur(h), op |-> IF h.session = "initializing" THEN "initialize" ELSE h.holder]
  OBVIOUS
<1>3. x.id = Cur(h) /\ x.op = IF h.session = "initializing" THEN "initialize" ELSE h.holder
  BY <1>2
<1>4. e.stdin = <<x>> /\ Strays(e.stdout) /\ e.working = <<>> /\ h.holder \notin done /\ e.child = "alive"
  BY <1>1, <1>2 DEF Conversation
<1>5. Head(e.stdin) = x /\ Tail(e.stdin) = <<>>
  BY <1>4
<1>6. h.session \in {"initializing", "calling"}
  BY <1>1 DEF Conversation, Hosts, Sessions
<1>7. h.holder \in Ops /\ Client(h.holder) = c /\ at[h.holder] = "calling"
  BY <1>1, <1>6 DEF Mutex, Hosts
<1>8. h.next_id \in 1..IDS
  BY <1>1 DEF Hosts
<1>9. Cur(h) \in 1..IDS
  BY <1>8, Clientele DEF Cur
<1>. QED BY <1>3, <1>4, <1>5, <1>6, <1>7, <1>9

\* The process takes the request: it is executed, or answered with an error.
LEMMA GoodExecuted ==
  ASSUME NEW c, NEW h, NEW e, NEW at, NEW done, NEW found, NEW done2, NEW found2, NEW line \in Lines, NEW e2 \in Exts,
         Good(c, h, e, at, done, found), e.stdin # <<>>,
         line.id = Head(e.stdin).id,
         e2.child = "alive", e2.stdin = Tail(e.stdin), e2.working = <<line>>, e2.stdout = e.stdout,
         \/ line.ok = FALSE /\ done2 = done /\ found2 = found
         \/ /\ done2 = done \cup ({Head(e.stdin).op} \cap Calls)
            /\ Head(e.stdin).op \in Loads => line.value = found2[Head(e.stdin).op]
            /\ Head(e.stdin).op = "pull" => line.value \in Batches
  PROVE  Good(c, h, e2, at, done2, found2)
<1>1. h \in Hosts /\ e \in Exts /\ Mutex(c, h, at, done) /\ Conversation(h, e, done, found)
  BY DEF Good
<1>2. /\ Head(e.stdin).id = Cur(h) /\ Cur(h) \in 1..IDS /\ Tail(e.stdin) = <<>>
      /\ h.session \in {"initializing", "calling"} /\ h.holder \in Ops /\ Client(h.holder) = c /\ at[h.holder] = "calling"
      /\ h.session = "initializing" => Head(e.stdin).op = "initialize"
      /\ h.session = "calling" => Head(e.stdin).op = h.holder
      /\ h.holder \notin done /\ Strays(e.stdout) /\ e.working = <<>> /\ e.child = "alive"
  BY GoodRequest
<1>3. "initialize" \notin Calls
  BY StdioAssumption
<1>4. h.session = "initializing" => done2 = done
  BY <1>2, <1>3
<1>5. \A op : op \in done2 => op \in done \/ (h.session = "calling" /\ op = h.holder)
  BY <1>2, <1>3
<1>6. Mutex(c, h, at, done2)
  <2>1. \A i \in 1..Len(h.waiting) : h.waiting[i] # h.holder
    BY <1>1, <1>2 DEF Mutex
  <2>. QED BY <1>1, <1>2, <1>4, <1>5, <2>1 DEF Mutex
<1>7. Answers(h, line, done2, found2)
  BY <1>2 DEF Answers, Calls
<1>8. e2.stdin = <<>> /\ Len(e2.working) = 1 /\ e2.working[1] = line /\ e2.working # <<>> /\ Strays(e2.stdout)
  BY <1>2
<1>9. Conversation(h, e2, done2, found2)
  BY <1>2, <1>7, <1>8 DEF Conversation, Strays
<1>. QED BY <1>1, <1>6, <1>9 DEF Good

\* A line is appended to stdout: the answer, or a stray one.
LEMMA GoodPrinted ==
  ASSUME NEW c, NEW h, NEW e, NEW at, NEW done, NEW found, NEW line \in Lines, NEW e2 \in Exts,
         Good(c, h, e, at, done, found), e.child = "alive",
         e2.child = "alive", e2.stdin = e.stdin, e2.stdout = Append(e.stdout, line),
         \/ e.working = <<line>> /\ e2.working = <<>>
         \/ line.id = 0 /\ e2.working = e.working
  PROVE  Good(c, h, e2, at, done, found)
<1>1. h \in Hosts /\ e \in Exts /\ Mutex(c, h, at, done) /\ Conversation(h, e, done, found)
  BY DEF Good
<1>2. PICK q \in Seq(Lines) : q = e.stdout
  BY <1>1 DEF Exts
<1>3. PICK q2 \in Seq(Lines) : q2 = e2.stdout /\ q2 = Append(q, line)
  BY <1>2 DEF Exts
<1>4. PICK n \in Nat : /\ n = Len(q) /\ Len(q2) = n + 1 /\ q2[n + 1] = line /\ \A i \in 1..n : q2[i] = q[i]
  BY <1>2, <1>3
<1>5. \A i \in 1..(n + 1) : i \in 1..n \/ i = n + 1
  OBVIOUS
<1>6. h.session # "none"
  BY <1>1, NothingRuns DEF Conversation
<1>7. CASE line.id = 0 /\ e2.working = e.working
  <2>1. \A i \in 1..Len(e2.stdout) : e2.stdout[i].id # 0 => i \in 1..Len(e.stdout) /\ e2.stdout[i] = e.stdout[i]
    BY <1>2, <1>3, <1>4, <1>5, <1>7
  <2>2. Strays(e.stdout) => Strays(e2.stdout)
    BY <2>1 DEF Strays
  <2>3. Conversation(h, e2, done, found)
    BY <1>1, <1>6, <1>7, <2>1, <2>2 DEF Conversation
  <2>. QED BY <1>1, <2>3 DEF Good
<1>8. CASE e.working = <<line>> /\ e2.working = <<>>
  <2>1. e.working # <<>> /\ e.working[1] = line
    BY <1>8
  <2>2. Answers(h, line, done, found) /\ Strays(e.stdout) /\ e.stdin = <<>> /\ h.session \notin {"none", "ready"}
    BY <1>1, <2>1 DEF Conversation
  <2>3. \A i \in 1..n : q2[i].id = 0
    BY <1>2, <1>4, <2>2 DEF Strays
  <2>4. \A i \in 1..Len(e2.stdout) : e2.stdout[i].id # 0 => i = n + 1 /\ e2.stdout[i] = line
    BY <1>3, <1>4, <1>5, <2>3
  <2>5. Conversation(h, e2, done, found)
    BY <1>8, <2>2, <2>4 DEF Conversation
  <2>. QED BY <1>1, <2>5 DEF Good
<1>. QED BY <1>7, <1>8

\* The process dies; what it has written can still be read.
LEMMA GoodCrashed ==
  ASSUME NEW c, NEW h, NEW e, NEW at, NEW done, NEW found, NEW e2 \in Exts,
         Good(c, h, e, at, done, found), e.child = "alive",
         e2.child = "dead", e2.stdin = <<>>, e2.working = <<>>, e2.stdout = e.stdout
  PROVE  Good(c, h, e2, at, done, found)
<1>1. h \in Hosts /\ e \in Exts /\ Mutex(c, h, at, done) /\ Conversation(h, e, done, found)
  BY DEF Good
<1>2. h.session # "none"
  BY <1>1, NothingRuns DEF Conversation
<1>3. Conversation(h, e2, done, found)
  BY <1>1, <1>2 DEF Conversation
<1>. QED BY <1>1, <1>3 DEF Good

-----------------------------------------------------------------------------
(* All clients. *)

\* Where a call may be.
Places == {"idle", "waiting", "calling", "ok", "error"}

\* Type correctness.
TypeOK ==
  /\ ops \subseteq Calls /\ flow \in {"trigger", "source", "none"}
  /\ status \in [Ops -> Places] /\ applied \subseteq Calls
  /\ host \in [Clients -> Hosts] /\ ext \in [Clients -> Exts]
  /\ log \in [{"bus", "sink"} -> Seq(Calls)] /\ log["bus"] \in Seq(Publishes)
  /\ disk \in Saves \cup {None}
  /\ read \in [Loads -> Saves \cup {None}] /\ got \in [Loads -> Saves \cup {None}]
  /\ serving \in {"starting", "running", "stopping", "failed", "ended"} /\ stream \in {"closed", "open", "ended"}
  /\ buffered \in Seq(Publishes) /\ emitted \in Seq(Publishes) /\ finished \in BOOLEAN

\* Every client talks to its process as it should.
InOrder == \A c \in Clients : Good(c, host[c], ext[c], status, applied, read)

\* What the refinement of RemoteCalls needs.
CInv == TypeOK /\ InOrder

\* A step of one client and its callers leaves the others in order.
LEMMA OneClient ==
  ASSUME TypeOK, InOrder, NEW c \in Clients, NEW h2, NEW e2,
         host' = [host EXCEPT ![c] = h2], ext' = [ext EXCEPT ![c] = e2],
         Good(c, h2, e2, status', applied', read'),
         \A op \in Ops : Client(op) # c =>
           status'[op] = status[op] /\ (op \in applied' <=> op \in applied) /\ (op \in Loads => read'[op] = read[op])
  PROVE  InOrder' /\ host' \in [Clients -> Hosts] /\ ext' \in [Clients -> Exts]
<1>1. h2 \in Hosts /\ e2 \in Exts
  BY DEF Good
<1>2. host \in [Clients -> Hosts] /\ ext \in [Clients -> Exts]
  BY DEF TypeOK
<1>3. ASSUME NEW d \in Clients PROVE Good(d, host'[d], ext'[d], status', applied', read')
  <2>1. CASE d = c
    BY <1>2, <2>1
  <2>2. CASE d # c
    <3>1. host'[d] = host[d] /\ ext'[d] = ext[d]
      BY <1>2, <2>2
    <3>2. Good(d, host[d], ext[d], status, applied, read)
      BY DEF InOrder
    <3>3. Good(d, host[d], ext[d], status', applied', read')
      BY <2>2, <3>2, GoodElsewhere
    <3>. QED BY <3>1, <3>3
  <2>. QED BY <2>1, <2>2
<1>. QED BY <1>1, <1>2, <1>3 DEF InOrder

\* A caller asks for the mutex.
LEMMA AskKeeps ==
  ASSUME TypeOK, InOrder, NEW op \in Ops, status[op] \notin {"waiting", "calling"}, Ask(op), UNCHANGED <<ext, read>>
  PROVE  /\ InOrder' /\ status' \in [Ops -> Places] /\ applied' \subseteq Calls
         /\ host' \in [Clients -> Hosts]
<1> DEFINE c == Client(op)
           h2 == [host[c] EXCEPT !.waiting = Append(@, op)]
<1>1. c \in Clients
  BY Clientele
<1>2. status \in [Ops -> Places] /\ host \in [Clients -> Hosts] /\ ext \in [Clients -> Exts] /\ applied \subseteq Calls
  BY DEF TypeOK
<1>3. Good(c, h2, ext[c], status', applied', read')
  <2>1. Good(c, host[c], ext[c], status, applied, read)
    BY <1>1 DEF InOrder
  <2>2. status \in [Ops -> {"idle", "waiting", "calling", "ok", "error"}]
    BY <1>2 DEF Places
  <2>3. Good(c, h2, ext[c], [status EXCEPT ![op] = "waiting"], applied \ {op}, read)
    BY <2>1, <2>2, GoodAsked
  <2>. QED BY <2>3 DEF Ask
<1>4. host' = [host EXCEPT ![c] = h2] /\ ext' = [ext EXCEPT ![c] = ext[c]]
  BY <1>1, <1>2 DEF Ask
<1>5. \A o \in Ops : Client(o) # c =>
        status'[o] = status[o] /\ (o \in applied' <=> o \in applied) /\ (o \in Loads => read'[o] = read[o])
  BY <1>2 DEF Ask
<1>6. InOrder' /\ host' \in [Clients -> Hosts]
  <2> HIDE DEF h2, c
  <2>. QED BY <1>1, <1>3, <1>4, <1>5, OneClient
<1>. QED BY <1>2, <1>6 DEF Ask, Places

\* A waiter gets the mutex, or has nothing to stop.
LEMMA LockKeeps ==
  ASSUME CInv, NEW c \in Clients, lock(c)
  PROVE  /\ InOrder' /\ host' \in [Clients -> Hosts]
         /\ \E op \in Ops :
              /\ Client(op) = c /\ status[op] = "waiting" /\ host[c].holder = None
              /\ \/ op = "stop" /\ host[c].session = "none" /\ status' = [status EXCEPT ![op] = "ok"] /\ host'[c].holder = None
                 \/ status' = [status EXCEPT ![op] = "calling"] /\ host'[c].holder = op
              /\ host'[c].session = host[c].session
              /\ \A d \in Clients : d # c => host'[d] = host[d]
<1>1. TypeOK /\ InOrder /\ UNCHANGED <<ext, applied, read>> /\ host[c].holder = None
  BY DEF CInv, lock, dataVars
<1>2. status \in [Ops -> {"idle", "waiting", "calling", "ok", "error"}] /\ host \in [Clients -> Hosts] /\ ext \in [Clients -> Exts]
  BY <1>1 DEF TypeOK, Places
<1>3. Good(c, host[c], ext[c], status, applied, read)
  BY <1>1 DEF InOrder
<1>4. PICK n \in 1..Len(host[c].waiting) :
        LET op == host[c].waiting[n] IN
        IF op = "stop" /\ host[c].session = "none"
        THEN /\ host' = [host EXCEPT ![c].waiting = RemoveAt(@, n)]
             /\ status' = [status EXCEPT ![op] = "ok"]
        ELSE /\ host' = [host EXCEPT ![c].waiting = RemoveAt(@, n), ![c].holder = op]
             /\ status' = [status EXCEPT ![op] = "calling"]
  BY DEF lock
<1> DEFINE op == host[c].waiting[n]
           h2 == [host[c] EXCEPT !.waiting = RemoveAt(@, n), !.holder = op]
           h3 == [host[c] EXCEPT !.waiting = RemoveAt(@, n)]
<1>5. /\ op \in Ops /\ Client(op) = c /\ status[op] = "waiting"
      /\ Good(c, h2, ext[c], [status EXCEPT ![op] = "calling"], applied, read)
      /\ Good(c, h3, ext[c], [status EXCEPT ![op] = "ok"], applied, read)
  <2>1. PICK o : o = op
    OBVIOUS
  <2>2. Good(c, host[c], ext[c], status, applied, read) /\ o = host[c].waiting[n] /\ host[c].holder = None
    BY <1>1, <1>3, <2>1
  <2>3. /\ o \in Ops /\ Client(o) = c /\ status[o] = "waiting"
        /\ Good(c, [host[c] EXCEPT !.waiting = RemoveAt(@, n), !.holder = o], ext[c], [status EXCEPT ![o] = "calling"], applied, read)
        /\ Good(c, [host[c] EXCEPT !.waiting = RemoveAt(@, n)], ext[c], [status EXCEPT ![o] = "ok"], applied, read)
    <3>1. PICK h : h = host[c]
      OBVIOUS
    <3>2. Good(c, h, ext[c], status, applied, read) /\ o = h.waiting[n] /\ h.holder = None /\ n \in 1..Len(h.waiting)
      BY <2>2, <3>1
    <3>3. o \in Ops /\ Client(o) = c /\ status[o] = "waiting"
      BY <3>2 DEF Good, Mutex, Hosts
    <3>4. Good(c, [h EXCEPT !.waiting = RemoveAt(@, n), !.holder = o], ext[c], [status EXCEPT ![o] = "calling"], applied, read)
      BY <1>2, <3>2, GoodLocked
    <3>5. Good(c, [h EXCEPT !.waiting = RemoveAt(@, n)], ext[c], [status EXCEPT ![o] = "ok"], applied, read)
      BY <1>2, <3>2, GoodLocked
    <3>. QED BY <3>1, <3>3, <3>4, <3>5
  <2>. QED BY <2>1, <2>3
<1>6. ext' = [ext EXCEPT ![c] = ext[c]]
  BY <1>1, <1>2
<1>7. CASE op = "stop" /\ host[c].session = "none"
  <2>1. host' = [host EXCEPT ![c] = h3] /\ status' = [status EXCEPT ![op] = "ok"]
    BY <1>2, <1>4, <1>7
  <2>2. Good(c, h3, ext[c], status', applied', read')
    BY <1>1, <1>5, <2>1
  <2>3. \A o \in Ops : Client(o) # c =>
          status'[o] = status[o] /\ (o \in applied' <=> o \in applied) /\ (o \in Loads => read'[o] = read[o])
    BY <1>1, <1>2, <1>5, <2>1
  <2>4. h3.holder = None /\ h3.session = host[c].session
    <3>1. PICK q : q = RemoveAt(host[c].waiting, n)
      OBVIOUS
    <3>2. h3 = [host[c] EXCEPT !.waiting = q]
      BY <3>1
    <3>. QED BY <1>1, <1>2, <3>2 DEF Hosts
  <2> HIDE DEF h3
  <2>5. InOrder' /\ host' \in [Clients -> Hosts]
    BY <1>1, <1>6, <2>1, <2>2, <2>3, OneClient
  <2>6. host'[c] = h3 /\ \A d \in Clients : d # c => host'[d] = host[d]
    BY <1>2, <2>1
  <2>. QED BY <1>1, <1>5, <1>7, <2>1, <2>4, <2>5, <2>6
<1>8. CASE ~(op = "stop" /\ host[c].session = "none")
  <2>1. host' = [host EXCEPT ![c] = h2] /\ status' = [status EXCEPT ![op] = "calling"]
    BY <1>2, <1>4, <1>8
  <2>2. Good(c, h2, ext[c], status', applied', read')
    BY <1>1, <1>5, <2>1
  <2>3. \A o \in Ops : Client(o) # c =>
          status'[o] = status[o] /\ (o \in applied' <=> o \in applied) /\ (o \in Loads => read'[o] = read[o])
    BY <1>1, <1>2, <1>5, <2>1
  <2>4. h2.holder = op /\ h2.session = host[c].session
    <3>1. PICK q : q = RemoveAt(host[c].waiting, n)
      OBVIOUS
    <3>2. h2 = [host[c] EXCEPT !.waiting = q, !.holder = op]
      BY <3>1
    <3>. QED BY <1>1, <1>2, <3>2 DEF Hosts
  <2> HIDE DEF h2
  <2>5. InOrder' /\ host' \in [Clients -> Hosts]
    BY <1>1, <1>6, <2>1, <2>2, <2>3, OneClient
  <2>6. host'[c] = h2 /\ \A d \in Clients : d # c => host'[d] = host[d]
    BY <1>2, <2>1
  <2>. QED BY <1>1, <1>5, <2>1, <2>4, <2>5, <2>6
<1>. QED BY <1>7, <1>8

\* A call fails.
LEMMA FailKeeps ==
  ASSUME CInv, NEW c \in Clients, host[c].holder # None, reset_client(c), Failed(host[c].holder), UNCHANGED <<applied, read>>
  PROVE  /\ InOrder' /\ host' \in [Clients -> Hosts] /\ ext' \in [Clients -> Exts]
         /\ host[c].holder \in Ops /\ Client(host[c].holder) = c /\ status[host[c].holder] = "calling"
<1>1. TypeOK /\ InOrder
  BY DEF CInv
<1>2. status \in [Ops -> {"idle", "waiting", "calling", "ok", "error"}] /\ host \in [Clients -> Hosts] /\ ext \in [Clients -> Exts]
  BY <1>1 DEF TypeOK, Places
<1>3. Good(c, host[c], ext[c], status, applied, read)
  BY <1>1 DEF InOrder
<1> DEFINE op == host[c].holder
           h2 == [host[c] EXCEPT !.holder = None, !.session = "none"]
<1>4. /\ Good(c, h2, NoProcess, [status EXCEPT ![op] = "error"], applied, read)
      /\ op \in Ops /\ Client(op) = c /\ status[op] = "calling"
  BY <1>2, <1>3, GoodReset
<1>5. host' = [host EXCEPT ![c] = h2] /\ ext' = [ext EXCEPT ![c] = NoProcess] /\ status' = [status EXCEPT ![op] = "error"]
  BY <1>2 DEF reset_client, Failed
<1>6. Good(c, h2, NoProcess, status', applied', read')
  BY <1>4, <1>5
<1>7. \A o \in Ops : Client(o) # c =>
        status'[o] = status[o] /\ (o \in applied' <=> o \in applied) /\ (o \in Loads => read'[o] = read[o])
  BY <1>2, <1>4, <1>5
<1> HIDE DEF h2
<1>8. InOrder' /\ host' \in [Clients -> Hosts] /\ ext' \in [Clients -> Exts]
  BY <1>1, <1>5, <1>6, <1>7, OneClient
<1>. QED BY <1>4, <1>8

\* The two ways spawn ends.
LEMMA SpawnKeeps ==
  ASSUME CInv, NEW c \in Clients, spawn(c)
  PROVE  /\ InOrder' /\ host' \in [Clients -> Hosts] /\ ext' \in [Clients -> Exts]
         /\ \/ /\ host' = [host EXCEPT ![c] = [host[c] EXCEPT !.session = "initializing", !.next_id = take_id(1)]]
               /\ ext' = [ext EXCEPT ![c] = [NoProcess EXCEPT !.child = "alive", !.stdin = <<[id |-> 1, op |-> "initialize"]>>]]
               /\ UNCHANGED <<status, flowVars, got>>
            \/ host[c].holder # None /\ reset_client(c) /\ Failed(host[c].holder)
<1>1. TypeOK /\ InOrder /\ UNCHANGED <<applied, read>> /\ host[c].holder # None /\ host[c].session = "none"
  BY DEF CInv, spawn, dataVars
<1>2. status \in [Ops -> {"idle", "waiting", "calling", "ok", "error"}] /\ host \in [Clients -> Hosts] /\ ext \in [Clients -> Exts]
  BY <1>1 DEF TypeOK, Places
<1>3. Good(c, host[c], ext[c], status, applied, read)
  BY <1>1 DEF InOrder
<1> DEFINE h2 == [host[c] EXCEPT !.session = "initializing", !.next_id = take_id(1)]
           e2 == [NoProcess EXCEPT !.child = "alive", !.stdin = <<[id |-> 1, op |-> "initialize"]>>]
<1>4. CASE /\ host' = [host EXCEPT ![c].session = "initializing", ![c].next_id = take_id(1)]
           /\ ext' = [ext EXCEPT ![c] = [NoProcess EXCEPT !.child = "alive", !.stdin = <<[id |-> 1, op |-> "initialize"]>>]]
           /\ UNCHANGED <<status, flowVars, got>>
  <2>1. host' = [host EXCEPT ![c] = h2] /\ ext' = [ext EXCEPT ![c] = e2]
    BY <1>2, <1>4
  <2>2. Good(c, h2, e2, status, applied, read)
    BY <1>1, <1>3, GoodSpawned
  <2>3. Good(c, h2, e2, status', applied', read')
    BY <1>1, <1>4, <2>2
  <2>4. \A o \in Ops : Client(o) # c =>
          status'[o] = status[o] /\ (o \in applied' <=> o \in applied) /\ (o \in Loads => read'[o] = read[o])
    BY <1>1, <1>4
  <2>5. InOrder' /\ host' \in [Clients -> Hosts] /\ ext' \in [Clients -> Exts]
    <3> HIDE DEF h2, e2
    <3>. QED BY <1>1, <2>1, <2>3, <2>4, OneClient
  <2>. QED BY <1>4, <2>1, <2>5
<1>5. CASE Failed(host[c].holder) /\ host' = [host EXCEPT ![c].holder = None] /\ UNCHANGED ext
  <2>1. [host[c] EXCEPT !.holder = None] = [host[c] EXCEPT !.holder = None, !.session = "none"] /\ ext[c] = NoProcess
    <3>1. host[c] \in Hosts
      BY <1>2
    <3>2. [host[c] EXCEPT !.holder = None] = [host[c] EXCEPT !.holder = None, !.session = "none"]
      BY <1>1, <3>1 DEF Hosts
    <3>. QED BY <1>1, <1>3, <3>2 DEF Good, Conversation
  <2>2. host' = [host EXCEPT ![c] = [host[c] EXCEPT !.holder = None, !.session = "none"]]
    BY <1>2, <1>5, <2>1
  <2>3. host' = [host EXCEPT ![c].holder = None, ![c].session = "none"]
    BY <1>2, <2>2
  <2>4. reset_client(c)
    BY <1>2, <1>5, <2>1, <2>3 DEF reset_client
  <2>. QED BY <1>1, <1>5, <2>4, FailKeeps
<1>. QED BY <1>4, <1>5 DEF spawn

\* The two ways write ends.
LEMMA WriteKeeps ==
  ASSUME CInv, NEW c \in Clients, write(c)
  PROVE  /\ InOrder' /\ host' \in [Clients -> Hosts] /\ ext' \in [Clients -> Exts]
         /\ host[c].holder # None /\ host[c].session = "ready"
         /\ \/ /\ ext[c].child = "alive"
               /\ host' = [host EXCEPT ![c] = [host[c] EXCEPT !.session = "calling", !.next_id = take_id(@)]]
               /\ ext' = [ext EXCEPT ![c] = [ext[c] EXCEPT !.stdin = Append(@, [id |-> host[c].next_id, op |-> host[c].holder])]]
               /\ UNCHANGED <<status, flowVars, got>>
            \/ reset_client(c) /\ Failed(host[c].holder)
<1>1. TypeOK /\ InOrder /\ UNCHANGED <<applied, read>> /\ host[c].holder # None /\ host[c].session = "ready"
  BY DEF CInv, write, dataVars
<1>2. status \in [Ops -> {"idle", "waiting", "calling", "ok", "error"}] /\ host \in [Clients -> Hosts] /\ ext \in [Clients -> Exts]
  BY <1>1 DEF TypeOK, Places
<1>3. Good(c, host[c], ext[c], status, applied, read)
  BY <1>1 DEF InOrder
<1> DEFINE h2 == [host[c] EXCEPT !.session = "calling", !.next_id = take_id(@)]
           e2 == [ext[c] EXCEPT !.stdin = Append(@, [id |-> host[c].next_id, op |-> host[c].holder])]
<1>4. CASE ext[c].child = "alive"
  <2>0. /\ ext' = [ext EXCEPT ![c].stdin = Append(@, [id |-> host[c].next_id, op |-> host[c].holder])]
        /\ host' = [host EXCEPT ![c].session = "calling", ![c].next_id = take_id(@)]
        /\ UNCHANGED <<status, flowVars, got>>
    BY <1>4 DEF write
  <2>1. host' = [host EXCEPT ![c] = h2]
    BY <1>2, <2>0
  <2>1a. ext' = [ext EXCEPT ![c] = e2]
    BY <1>2, <2>0
  <2>2. Good(c, h2, e2, status, applied, read)
    BY <1>1, <1>3, <1>4, GoodWritten
  <2>3. Good(c, h2, e2, status', applied', read')
    BY <1>1, <2>0, <2>2
  <2>4. \A o \in Ops : Client(o) # c =>
          status'[o] = status[o] /\ (o \in applied' <=> o \in applied) /\ (o \in Loads => read'[o] = read[o])
    BY <1>1, <2>0
  <2>5. InOrder' /\ host' \in [Clients -> Hosts] /\ ext' \in [Clients -> Exts]
    <3> HIDE DEF h2, e2
    <3>. QED BY <1>1, <2>1, <2>1a, <2>3, <2>4, OneClient
  <2>. QED BY <1>1, <1>4, <2>0, <2>1, <2>1a, <2>5
<1>5. CASE ext[c].child # "alive"
  <2>1. reset_client(c) /\ Failed(host[c].holder)
    BY <1>5 DEF write
  <2>. QED BY <1>1, <2>1, FailKeeps
<1>. QED BY <1>4, <1>5

\* The three ways request ends: the process is initialized, the call succeeds, or fails.
LEMMA RequestCases ==
  ASSUME CInv, NEW c \in Clients, request(c)
  PROVE  /\ host[c].session \in {"initializing", "calling"} /\ host[c].holder # None
         /\ \/ /\ host[c].session = "initializing" /\ ext[c].stdout # <<>> /\ Head(ext[c].stdout).id = Cur(host[c])
               /\ host' = [host EXCEPT ![c] = [host[c] EXCEPT !.session = "ready"]]
               /\ ext' = [ext EXCEPT ![c] = [ext[c] EXCEPT !.stdout = Tail(@)]]
               /\ UNCHANGED <<status, flowVars, got>>
            \/ /\ host[c].session = "calling" /\ ext[c].stdout # <<>> /\ Head(ext[c].stdout).id = Cur(host[c])
               /\ Head(ext[c].stdout).ok /\ Acceptable(host[c].holder, Head(ext[c].stdout))
               /\ host' = [host EXCEPT ![c] = [host[c] EXCEPT !.session = "ready", !.holder = None]]
               /\ ext' = [ext EXCEPT ![c] = [ext[c] EXCEPT !.stdout = Tail(@)]]
               /\ Succeeded(host[c].holder, Head(ext[c].stdout).value)
            \/ reset_client(c) /\ Failed(host[c].holder)
<1>1. TypeOK /\ InOrder /\ host[c].session \in {"initializing", "calling"}
  BY DEF CInv, request
<1>2. host \in [Clients -> Hosts] /\ ext \in [Clients -> Exts]
  BY <1>1 DEF TypeOK
<1>3. host[c].holder # None
  BY <1>1 DEF InOrder, Good, Mutex
<1> DEFINE op == host[c].holder
           line == IF ext[c].stdout = <<>> THEN Stray ELSE Head(ext[c].stdout)
           valid == ext[c].stdout # <<>> /\ line.id = Cur(host[c])
<1>4. IF host[c].session = "initializing" /\ valid /\ line.ok
      THEN /\ host' = [host EXCEPT ![c].session = "ready"]
           /\ ext' = [ext EXCEPT ![c].stdout = Tail(@)]
           /\ UNCHANGED <<status, flowVars, got>>
      ELSE IF host[c].session = "calling" /\ valid /\ Acceptable(op, line)
      THEN /\ host' = [host EXCEPT ![c].session = "ready", ![c].holder = None]
           /\ ext' = [ext EXCEPT ![c].stdout = Tail(@)]
           /\ Succeeded(op, line.value)
      ELSE reset_client(c) /\ Failed(op)
  BY DEF request, validate_jsonrpc, Cur
<1>5. CASE host[c].session = "initializing" /\ valid /\ line.ok
  <2>1. host' = [host EXCEPT ![c].session = "ready"] /\ ext' = [ext EXCEPT ![c].stdout = Tail(@)] /\ UNCHANGED <<status, flowVars, got>>
    BY <1>4, <1>5
  <2>2. host' = [host EXCEPT ![c] = [host[c] EXCEPT !.session = "ready"]]
    BY <1>2, <2>1
  <2>3. ext' = [ext EXCEPT ![c] = [ext[c] EXCEPT !.stdout = Tail(@)]]
    BY <1>2, <2>1
  <2>4. ext[c].stdout # <<>> /\ Head(ext[c].stdout).id = Cur(host[c])
    BY <1>5
  <2>. QED BY <1>1, <1>3, <1>5, <2>1, <2>2, <2>3, <2>4
<1>6. CASE ~(host[c].session = "initializing" /\ valid /\ line.ok) /\ host[c].session = "calling" /\ valid /\ Acceptable(op, line)
  <2>1. /\ host' = [host EXCEPT ![c].session = "ready", ![c].holder = None]
        /\ ext' = [ext EXCEPT ![c].stdout = Tail(@)] /\ Succeeded(op, line.value)
    BY <1>4, <1>6
  <2>2. host' = [host EXCEPT ![c] = [host[c] EXCEPT !.session = "ready", !.holder = None]]
    BY <1>2, <2>1
  <2>3. ext' = [ext EXCEPT ![c] = [ext[c] EXCEPT !.stdout = Tail(@)]]
    BY <1>2, <2>1
  <2>4. ext[c].stdout # <<>> /\ line = Head(ext[c].stdout) /\ line.id = Cur(host[c]) /\ line.ok
    BY <1>6 DEF Acceptable
  <2>5. Succeeded(host[c].holder, Head(ext[c].stdout).value) /\ Acceptable(host[c].holder, Head(ext[c].stdout))
    BY <1>6, <2>1, <2>4
  <2> HIDE DEF line, valid
  <2>. QED BY <1>1, <1>3, <1>6, <2>2, <2>3, <2>4, <2>5
<1>7. CASE ~(host[c].session = "initializing" /\ valid /\ line.ok) /\ ~(host[c].session = "calling" /\ valid /\ Acceptable(op, line))
  <2>1. reset_client(c) /\ Failed(op)
    BY <1>4, <1>7
  <2>. QED BY <1>1, <1>3, <2>1
<1>. QED BY <1>5, <1>6, <1>7

\* Reading a line keeps everything in order.
LEMMA RequestKeeps ==
  ASSUME CInv, NEW c \in Clients, request(c)
  PROVE  InOrder' /\ host' \in [Clients -> Hosts] /\ ext' \in [Clients -> Exts]
<1>1. TypeOK /\ InOrder /\ UNCHANGED <<applied, read>>
  BY DEF CInv, request, dataVars
<1>2. status \in [Ops -> {"idle", "waiting", "calling", "ok", "error"}] /\ host \in [Clients -> Hosts] /\ ext \in [Clients -> Exts]
  BY <1>1 DEF TypeOK, Places
<1>3. Good(c, host[c], ext[c], status, applied, read)
  BY <1>1 DEF InOrder
<1> DEFINE op == host[c].holder
           h2 == [host[c] EXCEPT !.session = "ready"]
           h3 == [host[c] EXCEPT !.session = "ready", !.holder = None]
           e2 == [ext[c] EXCEPT !.stdout = Tail(@)]
<1>4. host[c].session \in {"initializing", "calling"} /\ op # None
  BY RequestCases
<1>5. op \in Ops /\ Client(op) = c
  BY <1>2, <1>3, <1>4 DEF Good, Mutex, Hosts
<1>6. CASE /\ host[c].session = "initializing" /\ ext[c].stdout # <<>> /\ Head(ext[c].stdout).id = Cur(host[c])
           /\ host' = [host EXCEPT ![c] = h2] /\ ext' = [ext EXCEPT ![c] = e2] /\ UNCHANGED <<status, flowVars, got>>
  <2>1. Good(c, h2, e2, status, applied, read)
    BY <1>2, <1>3, <1>4, <1>6, GoodAnswered
  <2>2. Good(c, h2, e2, status', applied', read')
    BY <1>1, <1>6, <2>1
  <2>3. \A o \in Ops : Client(o) # c =>
          status'[o] = status[o] /\ (o \in applied' <=> o \in applied) /\ (o \in Loads => read'[o] = read[o])
    BY <1>1, <1>6
  <2> HIDE DEF h2, e2
  <2>. QED BY <1>1, <1>6, <2>2, <2>3, OneClient
<1>7. CASE /\ host[c].session = "calling" /\ ext[c].stdout # <<>> /\ Head(ext[c].stdout).id = Cur(host[c])
           /\ host' = [host EXCEPT ![c] = h3] /\ ext' = [ext EXCEPT ![c] = e2] /\ Succeeded(op, Head(ext[c].stdout).value)
  <2>1. Good(c, h3, e2, [status EXCEPT ![op] = "ok"], applied, read)
    BY <1>2, <1>3, <1>4, <1>7, GoodAnswered
  <2>2. status' = [status EXCEPT ![op] = "ok"]
    BY <1>7 DEF Succeeded
  <2>3. Good(c, h3, e2, status', applied', read')
    BY <1>1, <2>1, <2>2
  <2>4. \A o \in Ops : Client(o) # c =>
          status'[o] = status[o] /\ (o \in applied' <=> o \in applied) /\ (o \in Loads => read'[o] = read[o])
    BY <1>1, <1>2, <1>5, <2>2
  <2> HIDE DEF h3, e2
  <2>. QED BY <1>1, <1>7, <2>3, <2>4, OneClient
<1>8. CASE reset_client(c) /\ Failed(op)
  BY <1>1, <1>4, <1>8, FailKeeps
<1>. QED BY <1>6, <1>7, <1>8, RequestCases

\* A pull answers with a batch: rows after last_id, in order, or nothing.
LEMMA PulledRows ==
  ASSUME CInv, NEW c \in Clients, NEW d \in BOOLEAN
  PROVE  /\ Pulled(c, d) \in Batches
         /\ LET r == Pulled(c, d).records
                n == ext[c].last_id
            IN \/ r = <<>>
               \/ n + Len(r) <= Len(log["bus"]) /\ \A i \in 1..Len(r) : r[i] = log["bus"][n + i]
<1>1. PICK n \in Nat, q \in Seq(Publishes), b \in Nat : n = ext[c].last_id /\ q = log["bus"] /\ b = BATCH
  BY StdioAssumption DEF CInv, TypeOK, Exts
<1>2. Len(q) \in Nat /\ n + b \in Nat
  BY <1>1
<1>3. PICK m \in Nat : m = Min({n + b, Len(q)}) /\ m <= Len(q)
  <2>1. ASSUME NEW x \in Nat, NEW y \in Nat PROVE Min({x, y}) \in {x, y} /\ Min({x, y}) <= x /\ Min({x, y}) <= y
    <3>1. \E z \in {x, y} : \A k \in {x, y} : z <= k
      <4>1. CASE x <= y
        BY <4>1
      <4>2. CASE y <= x
        BY <4>2
      <4>. QED BY <4>1, <4>2
    <3>. QED BY <3>1 DEF Min
  <2>. QED BY <1>2, <2>1
<1>4. PICK r \in Seq(Publishes) :
        /\ r = SubSeq(q, n + 1, m) /\ Len(r) = (IF n + 1 <= m THEN m - (n + 1) + 1 ELSE 0)
        /\ \A i \in 1..(m - (n + 1) + 1) : r[i] = q[(n + 1) + i - 1]
  <2>1. \A i \in (n + 1)..m : q[i] \in Publishes
    BY <1>3
  <2>2. PICK a \in Int : a = n + 1
    OBVIOUS
  <2>3. m \in Int /\ \A i \in a..m : q[i] \in Publishes
    BY <2>1, <2>2
  <2>4. /\ SubSeq(q, a, m) \in Seq(Publishes) /\ Len(SubSeq(q, a, m)) = (IF a <= m THEN m - a + 1 ELSE 0)
        /\ \A i \in 1..(m - a + 1) : SubSeq(q, a, m)[i] = q[a + i - 1]
    BY <2>3, SubSeqProperties
  <2>. QED BY <2>2, <2>4
<1>5. r = <<>> \/ (n + Len(r) <= Len(q) /\ \A i \in 1..Len(r) : r[i] = q[n + i])
  <2>1. CASE n + 1 <= m
    <3>1. Len(r) = m - n /\ m - (n + 1) + 1 = m - n
      BY <1>4, <2>1
    <3>2. ASSUME NEW i \in 1..(m - n) PROVE r[i] = q[n + i]
      <4>1. (n + 1) + i - 1 = n + i
        OBVIOUS
      <4>. QED BY <1>4, <3>1, <4>1
    <3>3. n + (m - n) <= Len(q)
      BY <1>2, <1>3
    <3>. QED BY <3>1, <3>2, <3>3
  <2>2. CASE ~(n + 1 <= m)
    <3>1. Len(r) = 0
      BY <1>4, <2>2
    <3>. QED BY <3>1, EmptySeq
  <2>. QED BY <2>1, <2>2
<1>6. Pulled(c, d) = IF ext[c].stopped THEN [records |-> <<>>, done |-> TRUE] ELSE [records |-> r, done |-> d]
  BY <1>1, <1>3, <1>4 DEF Pulled
<1>7. PICK e \in Seq(Publishes) : e = <<>>
  BY EmptySeq
<1>8. [records |-> e, done |-> TRUE] \in Batches /\ [records |-> r, done |-> d] \in Batches
  BY DEF Batches
<1>9. [records |-> e, done |-> TRUE].records = <<>> /\ [records |-> r, done |-> d].records = r
  BY <1>7
<1>10. CASE ext[c].stopped
  BY <1>6, <1>7, <1>8, <1>9, <1>10
<1>11. CASE ~ext[c].stopped
  BY <1>1, <1>5, <1>6, <1>8, <1>9, <1>11
<1>. QED BY <1>10, <1>11

\* What the process makes of a request: an answer in the making, and the effect.
Handled(c, op, line, e2) ==
  /\ ext' = [ext EXCEPT ![c] = e2]
  /\ line.id = Head(ext[c].stdin).id
  /\ e2.child = "alive" /\ e2.stdin = Tail(ext[c].stdin) /\ e2.working = <<line>> /\ e2.stdout = ext[c].stdout
  /\ \/ line.ok = FALSE /\ e2.last_id = ext[c].last_id /\ UNCHANGED dataVars
     \/ /\ line.ok = TRUE
        /\ \/ /\ op = "pull" /\ \E d \in BOOLEAN : line.value = Pulled(c, d)
              /\ line.value \in Batches /\ e2.last_id = ext[c].last_id + Len(line.value.records)
           \/ op # "pull" /\ line.value = disk /\ e2.last_id = ext[c].last_id
        /\ log' = IF op \in Publishes \cup Sends THEN [log EXCEPT ![c] = Append(@, op)] ELSE log
        /\ disk' = IF op \in Saves THEN op ELSE IF op \in Deletes THEN None ELSE disk
        /\ read' = IF op \in Loads THEN [read EXCEPT ![op] = disk] ELSE read
        /\ applied' = applied \cup ({op} \cap Calls)

\* A request that the process takes is handled.
LEMMA HandleCases ==
  ASSUME CInv, NEW c \in Clients, handle(c)
  PROVE  /\ ext[c].stdin # <<>> /\ ext[c].child = "alive"
         /\ \E line \in Lines, e2 \in Exts : Handled(c, Head(ext[c].stdin).op, line, e2)
<1> DEFINE op == Head(ext[c].stdin).op
           id == Head(ext[c].stdin).id
<1>1. ext[c].stdin # <<>> /\ ext[c].child = "alive"
  BY DEF handle
<1>2. ext \in [Clients -> Exts] /\ ext[c] \in Exts /\ disk \in Saves \cup {None} /\ Good(c, host[c], ext[c], status, applied, read)
  BY DEF CInv, TypeOK, InOrder
<1>3. PICK i \in 0..IDS : i = id
  <2>1. id = Cur(host[c]) /\ Cur(host[c]) \in 1..IDS
    BY <1>1, <1>2, GoodRequest
  <2>. QED BY <2>1, Clientele
<1>4. PICK t \in Seq(Asked) : t = Tail(ext[c].stdin)
  <2>1. Tail(ext[c].stdin) = <<>>
    BY <1>1, <1>2, GoodRequest
  <2>. QED BY <2>1, EmptySeq
<1>5. ASSUME NEW x \in Lines PROVE <<x>> \in Seq(Lines)
  OBVIOUS
<1>7. CASE /\ ext' = [ext EXCEPT ![c].stdin = Tail(@), ![c].working = <<[id |-> id, ok |-> FALSE, value |-> None]>>]
           /\ UNCHANGED dataVars
  <2>1. PICK line \in Lines : line = [id |-> i, ok |-> FALSE, value |-> None] /\ line.id = i /\ line.ok = FALSE
    <3>1. [id |-> i, ok |-> FALSE, value |-> None] \in Lines
      BY DEF Lines
    <3>. QED BY <3>1
  <2>2. PICK w \in Seq(Lines) : w = <<line>>
    BY <1>5
  <2>3. PICK e2 : e2 = [ext[c] EXCEPT !.stdin = t, !.working = w]
    OBVIOUS
  <2>4. e2 \in Exts /\ e2.child = ext[c].child /\ e2.stdin = t /\ e2.working = w /\ e2.stdout = ext[c].stdout /\ e2.last_id = ext[c].last_id
    BY <1>2, <2>3 DEF Exts
  <2>5. ext' = [ext EXCEPT ![c].stdin = t, ![c].working = w]
    BY <1>3, <1>4, <1>7, <2>1, <2>2
  <2>6. ext' = [ext EXCEPT ![c] = e2]
    BY <1>2, <2>3, <2>5
  <2>7. Handled(c, op, line, e2)
    <3> HIDE DEF op
    <3>. QED BY <1>1, <1>3, <1>4, <1>7, <2>1, <2>2, <2>4, <2>6 DEF Handled
  <2>. QED BY <1>1, <2>4, <2>7
<1>8. CASE Execute(c, op)
  <2>1. PICK d \in BOOLEAN :
          LET value == IF op = "pull" THEN Pulled(c, d) ELSE disk
          IN /\ ext' = [ext EXCEPT ![c].stdin = Tail(@),
                                   ![c].working = <<[id |-> id, ok |-> TRUE, value |-> value]>>,
                                   ![c].last_id = IF op = "pull" THEN @ + Len(value.records) ELSE @,
                                   ![c].stopped = CASE op = "start" -> FALSE [] op = "stop" -> TRUE [] OTHER -> @]
             /\ log' = IF op \in Publishes \cup Sends THEN [log EXCEPT ![c] = Append(@, op)] ELSE log
             /\ disk' = IF op \in Saves THEN op ELSE IF op \in Deletes THEN None ELSE disk
             /\ read' = IF op \in Loads THEN [read EXCEPT ![op] = disk] ELSE read
             /\ applied' = applied \cup ({op} \cap Calls)
    <3>1. ASSUME NEW X PROVE (IF X THEN BOOLEAN ELSE {FALSE}) \subseteq BOOLEAN
      OBVIOUS
    <3>. QED BY <1>8, <3>1 DEF Execute
  <2>2. PICK value \in Saves \cup {None} \cup Batches :
          /\ value = (IF op = "pull" THEN Pulled(c, d) ELSE disk)
          /\ op = "pull" => value \in Batches
    <3>1. Pulled(c, d) \in Batches
      BY PulledRows
    <3>. QED BY <1>2, <3>1
  <2>3. PICK line \in Lines : line = [id |-> i, ok |-> TRUE, value |-> value] /\ line.id = i /\ line.ok = TRUE /\ line.value = value
    <3>1. [id |-> i, ok |-> TRUE, value |-> value] \in Lines
      BY DEF Lines
    <3>. QED BY <3>1
  <2>4. PICK w \in Seq(Lines) : w = <<line>>
    BY <1>5
  <2>5. PICK n \in Nat : n = IF op = "pull" THEN ext[c].last_id + Len(value.records) ELSE ext[c].last_id
    <3>1. ext[c].last_id \in Nat
      BY <1>2 DEF Exts
    <3>2. op = "pull" => Len(value.records) \in Nat
      BY <2>2 DEF Batches
    <3>. QED BY <3>1, <3>2
  <2>6. PICK b \in BOOLEAN : b = CASE op = "start" -> FALSE [] op = "stop" -> TRUE [] OTHER -> ext[c].stopped
    <3>1. ext[c].stopped \in BOOLEAN
      BY <1>2 DEF Exts
    <3>. QED BY <3>1
  <2>7. PICK e2 : e2 = [ext[c] EXCEPT !.stdin = t, !.working = w, !.last_id = n, !.stopped = b]
    OBVIOUS
  <2>8. e2 \in Exts /\ e2.child = ext[c].child /\ e2.stdin = t /\ e2.working = w /\ e2.stdout = ext[c].stdout /\ e2.last_id = n
    BY <1>2, <2>7 DEF Exts
  <2>9. ext' = [ext EXCEPT ![c].stdin = t, ![c].working = w, ![c].last_id = n, ![c].stopped = b]
    <3>1. ext' = [ext EXCEPT ![c].stdin = Tail(@), ![c].working = <<[id |-> id, ok |-> TRUE, value |-> value]>>,
                             ![c].last_id = IF op = "pull" THEN @ + Len(value.records) ELSE @,
                             ![c].stopped = CASE op = "start" -> FALSE [] op = "stop" -> TRUE [] OTHER -> @]
      BY <2>1, <2>2
    <3>2. <<[id |-> id, ok |-> TRUE, value |-> value]>> = w
      BY <1>3, <2>3, <2>4
    <3> HIDE DEF op, id
    <3>. QED BY <1>2, <1>4, <2>5, <2>6, <3>1, <3>2
  <2>10. ext' = [ext EXCEPT ![c] = e2]
    BY <1>2, <2>7, <2>9
  <2>11. \/ op = "pull" /\ (\E x \in BOOLEAN : line.value = Pulled(c, x)) /\ line.value \in Batches /\ e2.last_id = ext[c].last_id + Len(line.value.records)
         \/ op # "pull" /\ line.value = disk /\ e2.last_id = ext[c].last_id
    BY <2>2, <2>3, <2>5, <2>8
  <2>12. /\ log' = IF op \in Publishes \cup Sends THEN [log EXCEPT ![c] = Append(@, op)] ELSE log
         /\ disk' = IF op \in Saves THEN op ELSE IF op \in Deletes THEN None ELSE disk
         /\ read' = IF op \in Loads THEN [read EXCEPT ![op] = disk] ELSE read
         /\ applied' = applied \cup ({op} \cap Calls)
    BY <2>1
  <2>13. e2.child = "alive" /\ e2.stdin = Tail(ext[c].stdin) /\ e2.working = <<line>> /\ line.id = id
    BY <1>1, <1>3, <1>4, <2>3, <2>4, <2>8
  <2>14. Handled(c, op, line, e2)
    <3> HIDE DEF op
    <3>. QED BY <2>3, <2>8, <2>10, <2>11, <2>12, <2>13 DEF Handled
  <2>. QED BY <1>1, <2>3, <2>8, <2>14
<1>. QED BY <1>7, <1>8 DEF handle

\* Executing a request keeps everything in order.
LEMMA HandleKeeps ==
  ASSUME CInv, NEW c \in Clients, handle(c)
  PROVE  InOrder' /\ host' \in [Clients -> Hosts] /\ ext' \in [Clients -> Exts]
<1>1. TypeOK /\ InOrder /\ UNCHANGED <<status, host>>
  BY DEF CInv, handle
<1>2. host \in [Clients -> Hosts] /\ ext \in [Clients -> Exts] /\ read \in [Loads -> Saves \cup {None}]
  BY <1>1 DEF TypeOK
<1>3. Good(c, host[c], ext[c], status, applied, read)
  BY <1>1 DEF InOrder
<1> DEFINE op == Head(ext[c].stdin).op
<1>4. ext[c].stdin # <<>> /\ \E line \in Lines, e2 \in Exts : Handled(c, op, line, e2)
  BY HandleCases
<1>h. PICK line \in Lines, e2 \in Exts : Handled(c, op, line, e2)
  BY <1>4
<1>5. /\ ext' = [ext EXCEPT ![c] = e2]
      /\ line.id = Head(ext[c].stdin).id
      /\ e2.child = "alive" /\ e2.stdin = Tail(ext[c].stdin) /\ e2.working = <<line>> /\ e2.stdout = ext[c].stdout
      /\ \/ line.ok = FALSE /\ applied' = applied /\ read' = read
         \/ /\ op = "pull" => line.value \in Batches
            /\ op # "pull" => line.value = disk
            /\ read' = IF op \in Loads THEN [read EXCEPT ![op] = disk] ELSE read
            /\ applied' = applied \cup ({op} \cap Calls)
  <2> HIDE DEF op
  <2>. QED BY <1>h DEF Handled, dataVars
<1>6. op \in Loads => op # "pull"
  BY Clientele DEF FlowOps, Calls
<1>7. \/ line.ok = FALSE /\ applied' = applied /\ read' = read
      \/ /\ applied' = applied \cup ({op} \cap Calls)
         /\ op \in Loads => line.value = read'[op]
         /\ op = "pull" => line.value \in Batches
  <2> HIDE DEF op
  <2>1. op \in Loads => [read EXCEPT ![op] = disk][op] = disk
    BY <1>2
  <2>. QED BY <1>5, <1>6, <2>1
<1>8. Good(c, host[c], e2, status, applied', read')
  BY <1>3, <1>4, <1>5, <1>7, GoodExecuted
<1>9. op = "initialize" \/ (op \in Ops /\ Client(op) = c)
  BY <1>3, <1>4, GoodRequest
<1>10. "initialize" \notin Calls
  BY StdioAssumption
<1>11. \A o \in Ops : Client(o) # c =>
        status'[o] = status[o] /\ (o \in applied' <=> o \in applied) /\ (o \in Loads => read'[o] = read[o])
  <2> SUFFICES ASSUME NEW o \in Ops, Client(o) # c
               PROVE  status'[o] = status[o] /\ (o \in applied' <=> o \in applied) /\ (o \in Loads => read'[o] = read[o])
    OBVIOUS
  <2>1. o # op \/ op \notin Calls
    BY <1>9, <1>10
  <2>2. op \in Loads => op \in Calls
    BY DEF Calls
  <2>. QED BY <1>1, <1>2, <1>5, <2>1, <2>2
<1>12. host' = [host EXCEPT ![c] = host[c]] /\ ext' = [ext EXCEPT ![c] = e2]
  BY <1>1, <1>2, <1>5
<1>13. Good(c, host[c], e2, status', applied', read')
  BY <1>1, <1>8
<1>. QED BY <1>1, <1>11, <1>12, <1>13, OneClient

\* The answer, a stray line, a crash.
LEMMA ProcessKeeps ==
  ASSUME CInv, NEW c \in Clients, respond(c) \/ Crash(c) \/ PrintsStray(c)
  PROVE  /\ InOrder' /\ host' \in [Clients -> Hosts] /\ ext' \in [Clients -> Exts] /\ ext[c].child = "alive"
         /\ \E e2 \in Exts :
              /\ ext' = [ext EXCEPT ![c] = e2]
              /\ \/ \E line \in Lines : /\ e2.child = "alive" /\ e2.stdin = ext[c].stdin /\ e2.stdout = Append(ext[c].stdout, line)
                                        /\ e2.last_id = ext[c].last_id
                                        /\ \/ ext[c].working = <<line>> /\ e2.working = <<>>
                                           \/ line.id = 0 /\ e2.working = ext[c].working
                 \/ e2.child = "dead" /\ e2.stdin = <<>> /\ e2.working = <<>> /\ e2.stdout = ext[c].stdout /\ e2.last_id = 0
<1>1. TypeOK /\ InOrder /\ UNCHANGED <<status, host, applied, read>>
  BY DEF CInv, respond, Crash, PrintsStray, dataVars
<1>2. host \in [Clients -> Hosts] /\ ext \in [Clients -> Exts] /\ ext[c] \in Exts
  BY <1>1 DEF TypeOK
<1>3. Good(c, host[c], ext[c], status, applied, read) /\ ext[c].child = "alive"
  BY <1>1 DEF InOrder, respond, Crash, PrintsStray
<1>4. ASSUME NEW e2, Good(c, host[c], e2, status, applied, read), ext' = [ext EXCEPT ![c] = e2]
      PROVE  InOrder' /\ host' \in [Clients -> Hosts] /\ ext' \in [Clients -> Exts]
  <2>1. Good(c, host[c], e2, status', applied', read')
    BY <1>1, <1>4
  <2>2. host' = [host EXCEPT ![c] = host[c]]
    BY <1>1, <1>2
  <2>3. \A o \in Ops : Client(o) # c =>
        status'[o] = status[o] /\ (o \in applied' <=> o \in applied) /\ (o \in Loads => read'[o] = read[o])
    BY <1>1
  <2>. QED BY <1>1, <1>4, <2>1, <2>2, <2>3, OneClient
<1>5. PICK q \in Seq(Lines) : q = ext[c].stdout
  BY <1>2 DEF Exts
<1>6. CASE respond(c)
  <2>1. ext[c].working # <<>> /\ ext' = [ext EXCEPT ![c].stdout = @ \o ext[c].working, ![c].working = <<>>]
    BY <1>6 DEF respond
  <2>2. PICK w \in Seq(Lines) : w = ext[c].working /\ Len(w) = 1
    BY <1>2, <1>3, <2>1 DEF Exts, Good, Conversation
  <2>3. PICK line \in Lines : line = w[1] /\ w = <<line>>
    <3>1. PICK x \in Lines : x = w[1]
      BY <2>2
    <3>2. <<x>> \in Seq(Lines) /\ Len(<<x>>) = Len(w) /\ \A i \in 1..Len(w) : <<x>>[i] = w[i]
      BY <2>2, <3>1
    <3>3. <<x>> = w
      BY <3>2, SeqEqual
    <3>. QED BY <3>1, <3>3
  <2>4. PICK q2 \in Seq(Lines) : q2 = Append(q, line)
    BY AppendProperties
  <2>5. q \o w = q2
    <3>1. q \o <<line>> = Append(q, line)
      OBVIOUS
    <3>. QED BY <2>3, <2>4, <3>1
  <2>6. PICK none \in Seq(Lines) : none = <<>>
    BY EmptySeq
  <2>7. PICK e2 : e2 = [ext[c] EXCEPT !.stdout = q2, !.working = none]
    OBVIOUS
  <2>8. e2 \in Exts /\ e2.child = ext[c].child /\ e2.stdin = ext[c].stdin /\ e2.stdout = q2 /\ e2.working = none /\ e2.last_id = ext[c].last_id
    BY <1>2, <2>7 DEF Exts
  <2>9. ext' = [ext EXCEPT ![c].stdout = q2, ![c].working = none]
    BY <1>2, <1>5, <2>1, <2>2, <2>5, <2>6
  <2>10. ext' = [ext EXCEPT ![c] = e2]
    BY <1>2, <2>7, <2>9
  <2>11. /\ e2.child = "alive" /\ e2.stdin = ext[c].stdin /\ e2.stdout = Append(ext[c].stdout, line)
         /\ ext[c].working = <<line>> /\ e2.working = <<>>
    BY <1>3, <1>5, <2>2, <2>3, <2>4, <2>6, <2>8
  <2>12. Good(c, host[c], e2, status, applied, read)
    BY <1>3, <2>8, <2>11, GoodPrinted
  <2>. QED BY <1>3, <1>4, <2>8, <2>10, <2>11, <2>12
<1>7. CASE PrintsStray(c)
  <2>1. ext' = [ext EXCEPT ![c].stdout = Append(@, Stray)]
    BY <1>7 DEF PrintsStray
  <2>2. PICK line \in Lines : line = Stray /\ line.id = 0
    <3>1. PICK r \in Seq(Publishes) : r = <<>>
      BY EmptySeq
    <3>2. [records |-> r, done |-> FALSE] \in Batches
      BY DEF Batches
    <3>3. PICK b \in Batches : b = [records |-> <<>>, done |-> FALSE]
      BY <3>1, <3>2
    <3>4. [id |-> 0, ok |-> TRUE, value |-> b] \in Lines /\ [id |-> 0, ok |-> TRUE, value |-> b].id = 0
      BY Clientele DEF Lines
    <3>. QED BY <3>3, <3>4 DEF Stray
  <2>3. PICK q2 \in Seq(Lines) : q2 = Append(q, line)
    BY AppendProperties
  <2>4. PICK e2 : e2 = [ext[c] EXCEPT !.stdout = q2]
    OBVIOUS
  <2>5. e2 \in Exts /\ e2.child = ext[c].child /\ e2.stdin = ext[c].stdin /\ e2.stdout = q2 /\ e2.working = ext[c].working /\ e2.last_id = ext[c].last_id
    BY <1>2, <2>4 DEF Exts
  <2>6. ext' = [ext EXCEPT ![c].stdout = q2]
    BY <1>2, <1>5, <2>1, <2>2, <2>3
  <2>7. ext' = [ext EXCEPT ![c] = e2]
    BY <1>2, <2>4, <2>6
  <2>8. e2.child = "alive" /\ e2.stdin = ext[c].stdin /\ e2.stdout = Append(ext[c].stdout, line)
    BY <1>3, <1>5, <2>3, <2>5
  <2>9. Good(c, host[c], e2, status, applied, read)
    BY <1>3, <2>2, <2>5, <2>8, GoodPrinted
  <2>. QED BY <1>3, <1>4, <2>2, <2>5, <2>7, <2>8, <2>9
<1>8. CASE Crash(c)
  <2>1. PICK none \in Exts : none = NoProcess /\ none.stdin = <<>> /\ none.working = <<>> /\ none.last_id = 0
    BY NothingRuns
  <2>2. PICK e2 : e2 = [none EXCEPT !.child = "dead", !.stdout = q]
    OBVIOUS
  <2>3. e2 \in Exts /\ e2.child = "dead" /\ e2.stdin = none.stdin /\ e2.working = none.working /\ e2.stdout = q /\ e2.last_id = none.last_id
    BY <2>2 DEF Exts
  <2>4. ext' = [ext EXCEPT ![c] = e2]
    BY <1>5, <1>8, <2>1, <2>2 DEF Crash
  <2>5. e2.child = "dead" /\ e2.stdin = <<>> /\ e2.working = <<>> /\ e2.stdout = ext[c].stdout /\ e2.last_id = 0
    BY <1>5, <2>1, <2>3
  <2>6. Good(c, host[c], e2, status, applied, read)
    BY <1>3, <2>3, <2>5, GoodCrashed
  <2>. QED BY <1>3, <1>4, <2>3, <2>4, <2>5, <2>6
<1>. QED BY <1>6, <1>7, <1>8

\* What a successful call gives its caller is of the right type.
LEMMA SucceededTypes ==
  ASSUME TypeOK, NEW op \in Ops, NEW value, Succeeded(op, value),
         op \in Loads => value \in Saves \cup {None}, op = "pull" => value \in Batches
  PROVE  /\ status' \in [Ops -> Places] /\ got' \in [Loads -> Saves \cup {None}]
         /\ serving' \in {"starting", "running", "stopping", "failed", "ended"} /\ stream' \in {"closed", "open", "ended"}
         /\ buffered' \in Seq(Publishes) /\ emitted' \in Seq(Publishes) /\ finished' \in BOOLEAN
<1>1. status' \in [Ops -> Places] /\ got' \in [Loads -> Saves \cup {None}]
  BY DEF Succeeded, TypeOK, Places
<1>2. serving' \in {"starting", "running", "stopping", "failed", "ended"} /\ stream' \in {"closed", "open", "ended"}
  BY DEF Succeeded, TypeOK
<1>3. buffered' \in Seq(Publishes) /\ emitted' \in Seq(Publishes) /\ finished' \in BOOLEAN
  <2>1. op = "pull" => value.records \in Seq(Publishes) /\ value.done \in BOOLEAN
    BY DEF Batches
  <2>. QED BY <2>1 DEF Succeeded, TypeOK
<1>. QED BY <1>1, <1>2, <1>3

\* So is what an error leaves.
LEMMA FailedTypes ==
  ASSUME TypeOK, NEW op \in Ops, Failed(op)
  PROVE  /\ status' \in [Ops -> Places] /\ got' \in [Loads -> Saves \cup {None}]
         /\ serving' \in {"starting", "running", "stopping", "failed", "ended"} /\ stream' \in {"closed", "open", "ended"}
         /\ buffered' \in Seq(Publishes) /\ emitted' \in Seq(Publishes) /\ finished' \in BOOLEAN
BY DEF Failed, TypeOK, Places

\* A client and its process stay in order, whatever happens.
LEMMA ClientStep ==
  ASSUME CInv, NEW c \in Clients, HostStep(c) \/ handle(c) \/ respond(c) \/ Crash(c) \/ PrintsStray(c)
  PROVE  CInv'
<1>1. TypeOK /\ InOrder
  BY DEF CInv
<1>2. host[c].holder # None => host[c].holder \in Ops
  BY <1>1 DEF TypeOK, Hosts
<1> DEFINE Rest == /\ ops' \subseteq Calls /\ flow' \in {"trigger", "source", "none"}
                   /\ applied' \subseteq Calls
                   /\ log' \in [{"bus", "sink"} -> Seq(Calls)] /\ log'["bus"] \in Seq(Publishes)
                   /\ disk' \in Saves \cup {None} /\ read' \in [Loads -> Saves \cup {None}]
           Here == /\ status' \in [Ops -> Places] /\ got' \in [Loads -> Saves \cup {None}]
                   /\ serving' \in {"starting", "running", "stopping", "failed", "ended"} /\ stream' \in {"closed", "open", "ended"}
                   /\ buffered' \in Seq(Publishes) /\ emitted' \in Seq(Publishes) /\ finished' \in BOOLEAN
<1>3. ASSUME UNCHANGED <<ops, flow, dataVars>> PROVE Rest
  BY <1>1, <1>3 DEF TypeOK, dataVars
<1>4. ASSUME UNCHANGED <<status, flowVars, got>> PROVE Here
  BY <1>1, <1>4 DEF TypeOK, flowVars
<1>5. ASSUME Rest, Here, InOrder' /\ host' \in [Clients -> Hosts] /\ ext' \in [Clients -> Exts] PROVE CInv'
  BY <1>5 DEF CInv, TypeOK
<1>6. CASE lock(c)
  <2>1. PICK op \in Ops : status' = [status EXCEPT ![op] = "ok"] \/ status' = [status EXCEPT ![op] = "calling"]
    BY <1>6, LockKeeps
  <2>2. Here
    BY <1>1, <1>6, <2>1 DEF TypeOK, lock, flowVars, Places
  <2>3. InOrder' /\ host' \in [Clients -> Hosts] /\ ext' \in [Clients -> Exts]
    BY <1>1, <1>6, LockKeeps DEF lock, TypeOK
  <2>4. Rest
    BY <1>3, <1>6 DEF lock
  <2> HIDE DEF Rest, Here
  <2>. QED BY <1>5, <2>2, <2>3, <2>4
<1>7. CASE spawn(c)
  <2>1. InOrder' /\ host' \in [Clients -> Hosts] /\ ext' \in [Clients -> Exts]
    BY <1>7, SpawnKeeps
  <2>2. Rest
    BY <1>3, <1>7 DEF spawn
  <2>3. Here
    <3>1. CASE UNCHANGED <<status, flowVars, got>>
      BY <1>4, <3>1
    <3>2. CASE host[c].holder # None /\ Failed(host[c].holder)
      BY <1>1, <1>2, <3>2, FailedTypes
    <3>. QED BY <1>7, <3>1, <3>2, SpawnKeeps
  <2> HIDE DEF Rest, Here
  <2>. QED BY <1>5, <2>1, <2>2, <2>3
<1>8. CASE write(c)
  <2>1. InOrder' /\ host' \in [Clients -> Hosts] /\ ext' \in [Clients -> Exts]
    BY <1>8, WriteKeeps
  <2>2. Rest
    BY <1>3, <1>8 DEF write
  <2>3. Here
    <3>1. CASE UNCHANGED <<status, flowVars, got>>
      BY <1>4, <3>1
    <3>2. CASE host[c].holder # None /\ Failed(host[c].holder)
      BY <1>1, <1>2, <3>2, FailedTypes
    <3>. QED BY <1>8, <3>1, <3>2, WriteKeeps
  <2> HIDE DEF Rest, Here
  <2>. QED BY <1>5, <2>1, <2>2, <2>3
<1>9. CASE request(c)
  <2>1. InOrder' /\ host' \in [Clients -> Hosts] /\ ext' \in [Clients -> Exts]
    BY <1>9, RequestKeeps
  <2>2. Rest
    BY <1>3, <1>9 DEF request
  <2>3. Here
    <3>0. host[c].session \in {"initializing", "calling"} /\ host[c].holder \in Ops
      BY <1>2, <1>9, RequestCases
    <3>1. CASE UNCHANGED <<status, flowVars, got>>
      BY <1>4, <3>1
    <3>2. CASE Failed(host[c].holder)
      BY <1>1, <3>0, <3>2, FailedTypes
    <3>3. CASE /\ host[c].session = "calling" /\ ext[c].stdout # <<>> /\ Head(ext[c].stdout).id = Cur(host[c])
               /\ Head(ext[c].stdout).ok /\ Succeeded(host[c].holder, Head(ext[c].stdout).value)
      <4>1. Good(c, host[c], ext[c], status, applied, read)
        BY <1>1 DEF InOrder
      <4>2. Answers(host[c], Head(ext[c].stdout), applied, read)
        BY <3>0, <3>3, <4>1, GoodLine
      <4>3. /\ host[c].holder \in Loads => Head(ext[c].stdout).value = read[host[c].holder]
            /\ host[c].holder = "pull" => Head(ext[c].stdout).value \in Batches
        BY <3>3, <4>2 DEF Answers
      <4>4. host[c].holder \in Loads => Head(ext[c].stdout).value \in Saves \cup {None}
        BY <1>1, <4>3 DEF TypeOK
      <4>. QED BY <1>1, <3>0, <3>3, <4>3, <4>4, SucceededTypes
    <3>. QED BY <1>9, <3>1, <3>2, <3>3, RequestCases
  <2> HIDE DEF Rest, Here
  <2>. QED BY <1>5, <2>1, <2>2, <2>3
<1>10. CASE handle(c)
  <2>1. InOrder' /\ host' \in [Clients -> Hosts] /\ ext' \in [Clients -> Exts]
    BY <1>10, HandleKeeps
  <2>2. Here
    BY <1>4, <1>10 DEF handle
  <2>3. Rest
    <3>1. CASE UNCHANGED dataVars
      BY <1>3, <1>10, <3>1 DEF handle
    <3>2. CASE \E op : /\ op = Head(ext[c].stdin).op
                       /\ log' = IF op \in Publishes \cup Sends THEN [log EXCEPT ![c] = Append(@, op)] ELSE log
                       /\ disk' = IF op \in Saves THEN op ELSE IF op \in Deletes THEN None ELSE disk
                       /\ read' = IF op \in Loads THEN [read EXCEPT ![op] = disk] ELSE read
                       /\ applied' = applied \cup ({op} \cap Calls)
      <4>1. PICK op : /\ op = Head(ext[c].stdin).op
                      /\ log' = IF op \in Publishes \cup Sends THEN [log EXCEPT ![c] = Append(@, op)] ELSE log
                      /\ disk' = IF op \in Saves THEN op ELSE IF op \in Deletes THEN None ELSE disk
                      /\ read' = IF op \in Loads THEN [read EXCEPT ![op] = disk] ELSE read
                      /\ applied' = applied \cup ({op} \cap Calls)
        BY <3>2
      <4>2. disk' \in Saves \cup {None} /\ read' \in [Loads -> Saves \cup {None}] /\ applied' \subseteq Calls
        BY <1>1, <4>1 DEF TypeOK
      <4>3. op \in Publishes \cup Sends => op \in Ops /\ op # "initialize"
        BY Clientele DEF Calls
      <4>4. op \in Publishes \cup Sends => Client(op) = c
        <5>1. Good(c, host[c], ext[c], status, applied, read) /\ ext[c].stdin # <<>>
          BY <1>1, <1>10 DEF InOrder, handle
        <5>2. op = "initialize" \/ Client(op) = c
          BY <4>1, <5>1, GoodRequest
        <5>. QED BY <4>3, <5>2
      <4>5. log \in [{"bus", "sink"} -> Seq(Calls)] /\ log["bus"] \in Seq(Publishes)
        BY <1>1 DEF TypeOK
      <4>6. log' \in [{"bus", "sink"} -> Seq(Calls)] /\ log'["bus"] \in Seq(Publishes)
        <5>1. CASE op \in Publishes
          <6>1. c = "bus" /\ op \in Calls /\ log' = [log EXCEPT !["bus"] = Append(log["bus"], op)]
            BY <4>1, <4>4, <5>1, Clientele DEF Calls
          <6>2. PICK q \in Seq(Publishes) : q = Append(log["bus"], op)
            BY <4>5, <5>1, AppendProperties
          <6>3. Append(log["bus"], op) \in Seq(Calls)
            BY <4>5, <6>1, AppendProperties
          <6>. QED BY <4>5, <6>1, <6>2, <6>3
        <5>2. CASE op \in Sends
          <6>1. c = "sink" /\ op \in Calls /\ log' = [log EXCEPT !["sink"] = Append(log["sink"], op)]
            BY <4>1, <4>4, <5>2, Clientele DEF Calls
          <6>2. PICK q \in Seq(Calls) : q = Append(log["sink"], op)
            BY <4>5, <6>1, AppendProperties
          <6>. QED BY <4>5, <6>1, <6>2
        <5>3. CASE op \notin Publishes \cup Sends
          BY <4>1, <4>5, <5>3
        <5>. QED BY <5>1, <5>2, <5>3
      <4>. QED BY <1>1, <1>10, <4>2, <4>6 DEF TypeOK, handle
    <3>. QED BY <1>10, <3>1, <3>2, HandleCases DEF Handled
  <2> HIDE DEF Rest, Here
  <2>. QED BY <1>5, <2>1, <2>2, <2>3
<1>11. CASE respond(c) \/ Crash(c) \/ PrintsStray(c)
  <2>1. InOrder' /\ host' \in [Clients -> Hosts] /\ ext' \in [Clients -> Exts]
    BY <1>11, ProcessKeeps
  <2>2. Here
    BY <1>4, <1>11 DEF respond, Crash, PrintsStray
  <2>3. Rest
    BY <1>3, <1>11 DEF respond, Crash, PrintsStray
  <2> HIDE DEF Rest, Here
  <2>. QED BY <1>5, <2>1, <2>2, <2>3
<1>. QED BY <1>6, <1>7, <1>8, <1>9, <1>10, <1>11 DEF HostStep

-----------------------------------------------------------------------------
(* The stream and serve. *)

\* A pull belongs to an open stream with an empty buffer, start to a serve that starts,
\* stop to one that no longer runs; a stream that has not begun has drawn nothing.
Streaming ==
  /\ status["pull"] \in {"waiting", "calling"} => stream = "open" /\ buffered = <<>>
  /\ status["start"] \in {"waiting", "calling"} => serving = "starting"
  /\ serving = "starting" => stream = "closed"
  /\ status["stop"] # "idle" => serving \in {"stopping", "failed", "ended"}
  /\ stream = "closed" => emitted = <<>> /\ buffered = <<>> /\ ext["flow"].last_id = 0

\* A client that is not the stream's does nothing to the stream.
LEMMA OtherClients ==
  ASSUME CInv, NEW c \in Clients, c # "flow", HostStep(c) \/ handle(c) \/ respond(c) \/ Crash(c) \/ PrintsStray(c)
  PROVE  /\ UNCHANGED flowVars /\ host'["flow"] = host["flow"] /\ ext'["flow"] = ext["flow"]
         /\ \A op \in FlowOps : status'[op] = status[op]
         /\ log'["bus"] = log["bus"] \/ \E x \in Publishes : log'["bus"] = Append(log["bus"], x)
<1>1. TypeOK /\ InOrder /\ "flow" \in Clients
  BY DEF CInv, Clients
<1>2. status \in [Ops -> Places] /\ host \in [Clients -> Hosts] /\ ext \in [Clients -> Exts] /\ log \in [{"bus", "sink"} -> Seq(Calls)]
  BY <1>1 DEF TypeOK
<1>3. Good(c, host[c], ext[c], status, applied, read)
  BY <1>1 DEF InOrder
<1>4. \A op \in FlowOps : op \in Ops /\ Client(op) # c
  BY Clientele
<1>5. "start" \in FlowOps /\ "stop" \in FlowOps /\ "pull" \in FlowOps
  BY DEF FlowOps
<1>6. host[c].holder # None => host[c].holder \in Ops \ FlowOps
  BY <1>2, <1>3, <1>4 DEF Good, Mutex, Hosts
<1>7. ASSUME reset_client(c), Failed(host[c].holder), host[c].holder # None
      PROVE  UNCHANGED flowVars /\ host'["flow"] = host["flow"] /\ ext'["flow"] = ext["flow"] /\ \A op \in FlowOps : status'[op] = status[op]
  <2>1. host'["flow"] = host["flow"] /\ ext'["flow"] = ext["flow"]
    BY <1>1, <1>2, <1>7 DEF reset_client
  <2>2. UNCHANGED flowVars
    BY <1>5, <1>6, <1>7 DEF Failed, flowVars
  <2>3. \A op \in FlowOps : status'[op] = status[op]
    BY <1>2, <1>4, <1>6, <1>7 DEF Failed
  <2>. QED BY <2>1, <2>2, <2>3
<1>8. CASE lock(c)
  <2>1. UNCHANGED <<flowVars, log, ext>>
    BY <1>8 DEF lock, dataVars
  <2>2. PICK op \in Ops : /\ Client(op) = c
                          /\ status' = [status EXCEPT ![op] = "ok"] \/ status' = [status EXCEPT ![op] = "calling"]
                          /\ \A d \in Clients : d # c => host'[d] = host[d]
    BY <1>8, LockKeeps
  <2>3. \A o \in FlowOps : status'[o] = status[o]
    BY <1>2, <1>4, <2>2
  <2>. QED BY <1>1, <2>1, <2>2, <2>3
<1>9. CASE spawn(c)
  <2>1. log' = log
    BY <1>9 DEF spawn, dataVars
  <2>2. CASE /\ host' = [host EXCEPT ![c] = [host[c] EXCEPT !.session = "initializing", !.next_id = take_id(1)]]
             /\ ext' = [ext EXCEPT ![c] = [NoProcess EXCEPT !.child = "alive", !.stdin = <<[id |-> 1, op |-> "initialize"]>>]]
             /\ UNCHANGED <<status, flowVars, got>>
    BY <1>1, <1>2, <2>1, <2>2
  <2>3. CASE host[c].holder # None /\ reset_client(c) /\ Failed(host[c].holder)
    BY <1>7, <2>1, <2>3
  <2>. QED BY <1>9, <2>2, <2>3, SpawnKeeps
<1>10. CASE write(c)
  <2>1. log' = log
    BY <1>10 DEF write, dataVars
  <2>2. CASE /\ host' = [host EXCEPT ![c] = [host[c] EXCEPT !.session = "calling", !.next_id = take_id(@)]]
             /\ ext' = [ext EXCEPT ![c] = [ext[c] EXCEPT !.stdin = Append(@, [id |-> host[c].next_id, op |-> host[c].holder])]]
             /\ UNCHANGED <<status, flowVars, got>>
    BY <1>1, <1>2, <2>1, <2>2
  <2>3. CASE host[c].holder # None /\ reset_client(c) /\ Failed(host[c].holder)
    BY <1>7, <2>1, <2>3
  <2>. QED BY <1>10, <2>2, <2>3, WriteKeeps
<1>11. CASE request(c)
  <2>1. log' = log
    BY <1>11 DEF request, dataVars
  <2>2. CASE /\ host' = [host EXCEPT ![c] = [host[c] EXCEPT !.session = "ready"]]
             /\ ext' = [ext EXCEPT ![c] = [ext[c] EXCEPT !.stdout = Tail(@)]]
             /\ UNCHANGED <<status, flowVars, got>>
    BY <1>1, <1>2, <2>1, <2>2
  <2>3. CASE /\ host[c].holder # None
             /\ host' = [host EXCEPT ![c] = [host[c] EXCEPT !.session = "ready", !.holder = None]]
             /\ ext' = [ext EXCEPT ![c] = [ext[c] EXCEPT !.stdout = Tail(@)]]
             /\ Succeeded(host[c].holder, Head(ext[c].stdout).value)
    <3>1. host'["flow"] = host["flow"] /\ ext'["flow"] = ext["flow"]
      BY <1>1, <1>2, <2>3
    <3>2. UNCHANGED flowVars
      BY <1>5, <1>6, <2>3 DEF Succeeded, flowVars
    <3>3. \A op \in FlowOps : status'[op] = status[op]
      BY <1>2, <1>4, <1>6, <2>3 DEF Succeeded
    <3>. QED BY <2>1, <3>1, <3>2, <3>3
  <2>4. CASE host[c].holder # None /\ reset_client(c) /\ Failed(host[c].holder)
    BY <1>7, <2>1, <2>4
  <2>. QED BY <1>11, <2>2, <2>3, <2>4, RequestCases
<1>12. CASE handle(c)
  <2>1. UNCHANGED <<flowVars, host, status>>
    BY <1>12 DEF handle
  <2>2. PICK e2 \in Exts : ext' = [ext EXCEPT ![c] = e2]
    BY <1>12, HandleCases DEF Handled
  <2>3. ext'["flow"] = ext["flow"]
    BY <1>1, <1>2, <2>2
  <2>4. log'["bus"] = log["bus"] \/ \E x \in Publishes : log'["bus"] = Append(log["bus"], x)
    <3>1. PICK op : /\ op = Head(ext[c].stdin).op
                    /\ log' = log \/ log' = IF op \in Publishes \cup Sends THEN [log EXCEPT ![c] = Append(@, op)] ELSE log
      BY <1>12, HandleCases DEF Handled, dataVars
    <3>2. CASE log' = log
      BY <3>2
    <3>3. CASE op \in Publishes \cup Sends /\ log' = [log EXCEPT ![c] = Append(@, op)]
      <4>1. op \in Ops /\ op # "initialize"
        BY <3>3, Clientele DEF Calls
      <4>2. ext[c].stdin # <<>>
        BY <1>12 DEF handle
      <4>3. Client(op) = c
        BY <1>3, <3>1, <4>1, <4>2, GoodRequest
      <4>4. CASE op \in Publishes
        BY <1>2, <3>3, <4>3, <4>4, Clientele
      <4>5. CASE op \in Sends
        BY <1>2, <3>3, <4>3, <4>5, Clientele
      <4>. QED BY <3>3, <4>4, <4>5
    <3>. QED BY <3>1, <3>2, <3>3
  <2>. QED BY <2>1, <2>3, <2>4
<1>13. CASE respond(c) \/ Crash(c) \/ PrintsStray(c)
  <2>1. UNCHANGED <<flowVars, host, status, log>>
    BY <1>13 DEF respond, Crash, PrintsStray, dataVars
  <2>2. PICK e2 \in Exts : ext' = [ext EXCEPT ![c] = e2]
    BY <1>13, ProcessKeeps
  <2>. QED BY <1>1, <1>2, <2>1, <2>2
<1>. QED BY <1>8, <1>9, <1>10, <1>11, <1>12, <1>13 DEF HostStep

\* The calls of the stream's client are start, pull and stop.
LEMMA FlowCalls ==
  ASSUME NEW op \in Ops, Client(op) = "flow"
  PROVE  op \in {"start", "pull", "stop"} /\ op \notin Calls /\ op \notin Publishes \cup Sends
<1>1. op \notin Publishes /\ op \notin Sends /\ op \notin Saves \cup Deletes \cup Loads
  BY Clientele
<1>. QED BY <1>1 DEF Ops, FlowOps, Calls

\* The steps of the stream's client keep its place.
LEMMA StreamingClient ==
  ASSUME CInv, Streaming, HostStep("flow") \/ handle("flow") \/ respond("flow") \/ Crash("flow") \/ PrintsStray("flow")
  PROVE  Streaming'
<1> DEFINE c == "flow"
           op == host[c].holder
<1>1. TypeOK /\ InOrder /\ c \in Clients /\ "start" \in Ops /\ "pull" \in Ops /\ "stop" \in Ops
  BY DEF CInv, Clients, Ops, FlowOps
<1>2. status \in [Ops -> Places] /\ host \in [Clients -> Hosts] /\ ext \in [Clients -> Exts]
  BY <1>1 DEF TypeOK
<1>3. Good(c, host[c], ext[c], status, applied, read)
  BY <1>1 DEF InOrder
<1>4. op # None => op \in Ops /\ Client(op) = c /\ status[op] = "calling"
  BY <1>2, <1>3 DEF Good, Mutex, Hosts
<1>5. op # None => op \in {"start", "pull", "stop"}
  BY <1>4, FlowCalls
<1>6. NoProcess.last_id = 0
  BY NothingRuns
<1>7. ASSUME reset_client(c), Failed(op), op # None PROVE Streaming'
  <2>1. ext'[c].last_id = 0
    BY <1>1, <1>2, <1>6, <1>7 DEF reset_client
  <2>2. status' = [status EXCEPT ![op] = "error"] /\ op \in Ops /\ status[op] = "calling"
    BY <1>4, <1>7 DEF Failed
  <2>3. CASE op = "pull"
    BY <1>1, <1>2, <1>7, <2>1, <2>2, <2>3 DEF Failed, Streaming
  <2>4. CASE op = "start"
    BY <1>1, <1>2, <1>7, <2>1, <2>2, <2>4 DEF Failed, Streaming
  <2>5. CASE op = "stop"
    BY <1>1, <1>2, <1>7, <2>1, <2>2, <2>5 DEF Failed, Streaming
  <2>. QED BY <1>5, <1>7, <2>3, <2>4, <2>5
<1>8. ASSUME UNCHANGED <<status, flowVars>>, ext'[c].last_id = 0 \/ ext'[c].last_id = ext[c].last_id \/ stream # "closed"
      PROVE  Streaming'
  BY <1>8 DEF Streaming, flowVars
<1>9. CASE lock(c)
  <2>1. UNCHANGED <<flowVars, ext>>
    BY <1>9 DEF lock
  <2>2. PICK o \in Ops : /\ status[o] = "waiting" /\ Client(o) = c
                         /\ \/ o = "stop" /\ status' = [status EXCEPT ![o] = "ok"]
                            \/ status' = [status EXCEPT ![o] = "calling"]
    BY <1>1, <1>9, LockKeeps
  <2>. QED BY <1>1, <1>2, <2>1, <2>2 DEF Streaming, flowVars
<1>10. CASE spawn(c)
  <2>1. CASE /\ ext' = [ext EXCEPT ![c] = [NoProcess EXCEPT !.child = "alive", !.stdin = <<[id |-> 1, op |-> "initialize"]>>]]
             /\ UNCHANGED <<status, flowVars, got>>
    <3>1. [NoProcess EXCEPT !.child = "alive", !.stdin = <<[id |-> 1, op |-> "initialize"]>>].last_id = 0
      BY DEF NoProcess
    <3>2. ext'[c].last_id = 0
      BY <1>1, <1>2, <2>1, <3>1
    <3>. QED BY <1>8, <2>1, <3>2
  <2>2. CASE op # None /\ reset_client(c) /\ Failed(op)
    BY <1>7, <2>2
  <2>. QED BY <1>1, <1>10, <2>1, <2>2, SpawnKeeps
<1>11. CASE write(c)
  <2>1. CASE /\ ext' = [ext EXCEPT ![c] = [ext[c] EXCEPT !.stdin = Append(@, [id |-> host[c].next_id, op |-> host[c].holder])]]
             /\ UNCHANGED <<status, flowVars, got>>
    <3>1. ext'[c].last_id = ext[c].last_id
      BY <1>1, <1>2, <2>1 DEF Exts
    <3>. QED BY <1>8, <2>1, <3>1
  <2>2. CASE op # None /\ reset_client(c) /\ Failed(op)
    BY <1>7, <2>2
  <2>. QED BY <1>1, <1>11, <2>1, <2>2, WriteKeeps
<1>12. CASE request(c)
  <2>0. op # None
    BY <1>1, <1>12, RequestCases
  <2>1. CASE /\ ext' = [ext EXCEPT ![c] = [ext[c] EXCEPT !.stdout = Tail(@)]]
             /\ UNCHANGED <<status, flowVars, got>>
    <3>1. ext'[c].last_id = ext[c].last_id
      BY <1>1, <1>2, <2>1 DEF Exts
    <3>. QED BY <1>8, <2>1, <3>1
  <2>2. CASE /\ ext' = [ext EXCEPT ![c] = [ext[c] EXCEPT !.stdout = Tail(@)]]
             /\ Succeeded(op, Head(ext[c].stdout).value)
    <3>1. ext'[c].last_id = ext[c].last_id
      BY <1>1, <1>2, <2>2 DEF Exts
    <3>2. status' = [status EXCEPT ![op] = "ok"] /\ op \in Ops /\ status[op] = "calling"
      BY <1>4, <2>0, <2>2 DEF Succeeded
    <3>3. CASE op = "pull"
      BY <1>1, <1>2, <2>2, <3>1, <3>2, <3>3 DEF Succeeded, Streaming
    <3>4. CASE op = "start"
      BY <1>1, <1>2, <2>2, <3>1, <3>2, <3>4 DEF Succeeded, Streaming
    <3>5. CASE op = "stop"
      BY <1>1, <1>2, <2>2, <3>1, <3>2, <3>5 DEF Succeeded, Streaming
    <3>. QED BY <1>5, <2>0, <3>3, <3>4, <3>5
  <2>3. CASE reset_client(c) /\ Failed(op)
    BY <1>7, <2>0, <2>3
  <2>. QED BY <1>1, <1>12, <2>1, <2>2, <2>3, RequestCases
<1>13. CASE handle(c)
  <2>1. UNCHANGED <<flowVars, host, status>>
    BY <1>13 DEF handle
  <2>2. PICK e2 \in Exts : ext' = [ext EXCEPT ![c] = e2] /\ (e2.last_id = ext[c].last_id \/ Head(ext[c].stdin).op = "pull")
    <3>1. \E line \in Lines, e2 \in Exts :
            /\ ext' = [ext EXCEPT ![c] = e2]
            /\ \/ line.ok = FALSE /\ e2.last_id = ext[c].last_id
               \/ Head(ext[c].stdin).op = "pull"
               \/ Head(ext[c].stdin).op # "pull" /\ e2.last_id = ext[c].last_id
      <4> HIDE DEF c
      <4>. QED BY <1>1, <1>13, HandleCases DEF Handled
    <3>. QED BY <3>1
  <2>3. ext[c].stdin # <<>>
    BY <1>13 DEF handle
  <2>4. Head(ext[c].stdin).op = "pull" => op = "pull"
    BY <1>3, <2>3, GoodRequest
  <2>5. op = "pull" => stream # "closed"
    BY <1>1, <1>4, Clientele DEF Streaming
  <2>6. ext'[c] = e2
    BY <1>1, <1>2, <2>2
  <2>. QED BY <1>8, <2>1, <2>2, <2>4, <2>5, <2>6
<1>14. CASE respond(c) \/ Crash(c) \/ PrintsStray(c)
  <2>1. UNCHANGED <<flowVars, host, status>>
    BY <1>14 DEF respond, Crash, PrintsStray
  <2>2. PICK e2 \in Exts : ext' = [ext EXCEPT ![c] = e2] /\ (e2.last_id = ext[c].last_id \/ e2.last_id = 0)
    BY <1>1, <1>14, ProcessKeeps
  <2>. QED BY <1>1, <1>2, <1>8, <2>1, <2>2
<1>. QED BY <1>9, <1>10, <1>11, <1>12, <1>13, <1>14 DEF HostStep

\* What is not a client's step only asks for a mutex, or moves the stream or serve.
LEMMA CallerStep ==
  ASSUME CInv, Streaming, (\E op \in Calls : Invoke(op)) \/ next_record \/ start \/ stop \/ serve_returns
  PROVE  CInv' /\ Streaming'
<1>1. TypeOK /\ InOrder /\ "start" \in Ops /\ "pull" \in Ops /\ "stop" \in Ops
  BY DEF CInv, Ops, FlowOps
<1>2. status \in [Ops -> Places] /\ host \in [Clients -> Hosts] /\ ext \in [Clients -> Exts]
  BY <1>1 DEF TypeOK
<1> DEFINE Rest == /\ ops' \subseteq Calls /\ flow' \in {"trigger", "source", "none"}
                   /\ log' \in [{"bus", "sink"} -> Seq(Calls)] /\ log'["bus"] \in Seq(Publishes)
                   /\ disk' \in Saves \cup {None}
                   /\ read' \in [Loads -> Saves \cup {None}] /\ got' \in [Loads -> Saves \cup {None}]
                   /\ ext' \in [Clients -> Exts]
           Flow == /\ serving' \in {"starting", "running", "stopping", "failed", "ended"} /\ stream' \in {"closed", "open", "ended"}
                   /\ buffered' \in Seq(Publishes) /\ emitted' \in Seq(Publishes) /\ finished' \in BOOLEAN
<1>3. ASSUME UNCHANGED <<ops, flow, ext, log, disk, read, got>> PROVE Rest
  BY <1>1, <1>3 DEF TypeOK
<1>4. ASSUME NEW op \in Ops, status[op] \notin {"waiting", "calling"}, Ask(op), UNCHANGED <<ops, flow, ext, log, disk, read, got>>, Flow
      PROVE  CInv'
  <2>1. InOrder' /\ status' \in [Ops -> Places] /\ applied' \subseteq Calls /\ host' \in [Clients -> Hosts]
    BY <1>1, <1>4, AskKeeps
  <2>2. Rest
    BY <1>3, <1>4
  <2>. QED BY <1>4, <2>1, <2>2 DEF CInv, TypeOK
<1>5. CASE \E op \in Calls : Invoke(op)
  <2>1. PICK op \in Calls : Invoke(op)
    BY <1>5
  <2>2. /\ op \in Ops /\ op \notin FlowOps /\ status[op] \notin {"waiting", "calling"} /\ Ask(op)
        /\ UNCHANGED <<ops, flow, ext, log, disk, read, got, flowVars>>
    BY <2>1, Clientele DEF Invoke
  <2>3. Flow
    BY <1>1, <2>2 DEF TypeOK, flowVars
  <2>4. Streaming'
    <3>1. status'["pull"] = status["pull"] /\ status'["start"] = status["start"] /\ status'["stop"] = status["stop"]
      BY <1>1, <1>2, <2>2 DEF Ask, FlowOps
    <3>. QED BY <2>2, <3>1 DEF Streaming, flowVars
  <2> HIDE DEF Flow, Rest
  <2>. QED BY <1>4, <2>2, <2>3, <2>4
<1>6. CASE next_record
  <2>1. UNCHANGED <<ops, flow, ext, log, disk, read, got, serving, finished>> /\ stream = "open" /\ status["pull"] \notin {"waiting", "calling"}
    BY <1>6 DEF next_record
  <2>2. buffered \in Seq(Publishes) /\ emitted \in Seq(Publishes)
    BY <1>1 DEF TypeOK
  <2>3. CASE /\ buffered # <<>>
             /\ emitted' = Append(emitted, Head(buffered)) /\ buffered' = Tail(buffered)
             /\ UNCHANGED <<status, host, applied, stream>>
    <3>1. Head(buffered) \in Publishes /\ Tail(buffered) \in Seq(Publishes)
      BY <2>2, <2>3, HeadTailProperties
    <3>2. Append(emitted, Head(buffered)) \in Seq(Publishes)
      BY <2>2, <3>1, AppendProperties
    <3>3. Flow
      BY <1>1, <2>1, <2>3, <3>1, <3>2 DEF TypeOK
    <3>4. InOrder'
      BY <1>1, <2>1, <2>3 DEF InOrder
    <3>5. Streaming'
      BY <2>1, <2>3 DEF Streaming
    <3>6. Rest
      BY <1>3, <2>1
    <3>7. CInv'
      BY <1>1, <2>3, <3>3, <3>4, <3>6 DEF CInv, TypeOK
    <3>. QED BY <3>5, <3>7
  <2>4. CASE stream' = "ended" /\ UNCHANGED <<status, host, applied, emitted, buffered>>
    <3>3. Flow
      BY <1>1, <2>1, <2>4 DEF TypeOK
    <3>4. InOrder'
      BY <1>1, <2>1, <2>4 DEF InOrder
    <3>5. Streaming'
      BY <2>1, <2>4 DEF Streaming
    <3>6. Rest
      BY <1>3, <2>1
    <3>7. CInv'
      BY <1>1, <2>4, <3>3, <3>4, <3>6 DEF CInv, TypeOK
    <3>. QED BY <3>5, <3>7
  <2>5. CASE buffered = <<>> /\ Ask("pull") /\ UNCHANGED <<emitted, buffered, stream>>
    <3>1. Flow
      BY <1>1, <2>1, <2>5 DEF TypeOK
    <3>2. Streaming'
      <4>1. status' = [status EXCEPT !["pull"] = "waiting"]
        BY <2>5 DEF Ask
      <4>. QED BY <1>1, <1>2, <2>1, <2>5, <4>1 DEF Streaming
    <3> HIDE DEF Flow, Rest
    <3>. QED BY <1>1, <1>4, <2>1, <2>5, <3>1, <3>2
  <2>. QED BY <1>6, <2>3, <2>4, <2>5 DEF next_record
<1>7. CASE start
  <2>1. /\ Ask("start") /\ UNCHANGED <<ops, flow, ext, log, disk, read, got, flowVars>>
        /\ serving = "starting" /\ status["start"] \notin {"waiting", "calling"}
    BY <1>7 DEF start
  <2>2. Flow
    BY <1>1, <2>1 DEF TypeOK, flowVars
  <2>3. Streaming'
    <3>1. status' = [status EXCEPT !["start"] = "waiting"]
      BY <2>1 DEF Ask
    <3>. QED BY <1>1, <1>2, <2>1, <3>1 DEF Streaming, flowVars
  <2> HIDE DEF Flow, Rest
  <2>. QED BY <1>1, <1>4, <2>1, <2>2, <2>3
<1>8. CASE stop
  <2>1. /\ Ask("stop") /\ UNCHANGED <<ops, flow, ext, log, disk, read, got, stream, buffered, finished, emitted>>
        /\ serving = "running" /\ serving' = "stopping"
    BY <1>8 DEF stop
  <2>2. Flow
    BY <1>1, <2>1 DEF TypeOK
  <2>3. status["stop"] = "idle"
    BY <2>1 DEF Streaming
  <2>4. Streaming'
    <3>1. status' = [status EXCEPT !["stop"] = "waiting"]
      BY <2>1 DEF Ask
    <3>. QED BY <1>1, <1>2, <2>1, <3>1 DEF Streaming
  <2> HIDE DEF Flow, Rest
  <2>. QED BY <1>1, <1>4, <2>1, <2>2, <2>3, <2>4
<1>9. CASE serve_returns
  <2>1. UNCHANGED <<ops, flow, status, host, ext, dataVars, got, stream, buffered, finished, emitted>> /\ serving' = "ended"
    BY <1>9 DEF serve_returns
  <2>2. serving # "starting"
    BY <1>9 DEF serve_returns
  <2>3. InOrder'
    BY <1>1, <2>1 DEF InOrder, dataVars
  <2>4. CInv'
    BY <1>1, <2>1, <2>3 DEF CInv, TypeOK, dataVars
  <2>5. Streaming'
    BY <2>1, <2>2 DEF Streaming
  <2>. QED BY <2>4, <2>5
<1>. QED BY <1>5, <1>6, <1>7, <1>8, <1>9

\* Every step keeps the clients and the stream's place.
LEMMA Step ==
  ASSUME CInv, Streaming, [Next]_vars
  PROVE  CInv' /\ Streaming'
<1>1. CASE UNCHANGED vars
  BY <1>1 DEF vars, flowVars, dataVars, CInv, TypeOK, InOrder, Streaming
<1>2. CASE \E c \in Clients : HostStep(c) \/ handle(c) \/ respond(c) \/ Crash(c) \/ PrintsStray(c)
  <2>1. PICK c \in Clients : HostStep(c) \/ handle(c) \/ respond(c) \/ Crash(c) \/ PrintsStray(c)
    BY <1>2
  <2>2. CInv'
    BY <2>1, ClientStep
  <2>3. CASE c = "flow"
    BY <2>1, <2>2, <2>3, StreamingClient
  <2>4. CASE c # "flow"
    <3>1. UNCHANGED flowVars /\ ext'["flow"] = ext["flow"] /\ \A op \in FlowOps : status'[op] = status[op]
      BY <2>1, <2>4, OtherClients
    <3>. QED BY <2>2, <3>1 DEF Streaming, flowVars, FlowOps
  <2>. QED BY <2>3, <2>4
<1>3. CASE (\E op \in Calls : Invoke(op)) \/ next_record \/ start \/ stop \/ serve_returns
  BY <1>3, CallerStep
<1>. QED BY <1>1, <1>2, <1>3 DEF Next

\* The first state.
LEMMA Start ==
  ASSUME Init PROVE CInv /\ Streaming
<1>1. /\ NoProcess \in Exts /\ NoProcess.last_id = 0 /\ NoProcess.child = "none"
      /\ NoProcess.stdin = <<>> /\ NoProcess.working = <<>> /\ NoProcess.stdout = <<>>
  BY NothingRuns
<1>2. NoClient \in Hosts /\ NoClient.waiting = <<>> /\ NoClient.holder = None /\ NoClient.session = "none"
  <2>1. PICK q \in Seq(Ops) : q = <<>>
    BY EmptySeq
  <2>2. [waiting |-> q, holder |-> None, session |-> "none", next_id |-> 1] \in Hosts
    BY Clientele DEF Hosts, Sessions
  <2>. QED BY <2>1, <2>2 DEF NoClient
<1>3. \A c \in Clients : Good(c, NoClient, NoProcess, status, applied, read)
  <2>1. ASSUME NEW c \in Clients PROVE Mutex(c, NoClient, status, applied)
    BY <1>2 DEF Mutex
  <2>2. Conversation(NoClient, NoProcess, applied, read)
    BY <1>1, <1>2 DEF Conversation, Strays
  <2>. QED BY <1>1, <1>2, <2>1, <2>2 DEF Good
<1>4. host = [c \in Clients |-> NoClient] /\ ext = [c \in Clients |-> NoProcess]
  BY DEF Init
<1>5. InOrder
  BY <1>3, <1>4 DEF InOrder
<1>6. PICK d \in Deployments :
        /\ ops = d.ops /\ flow = d.flow /\ log = [c \in {"bus", "sink"} |-> IF c = "bus" THEN d.rows ELSE <<>>]
  BY DEF Init
<1>7. d.ops \subseteq Calls /\ d.flow \in {"trigger", "source", "none"} /\ d.rows \in Seq(Publishes)
  BY StdioAssumption
<1>8. log \in [{"bus", "sink"} -> Seq(Calls)] /\ log["bus"] \in Seq(Publishes)
  <2>1. d.rows \in Seq(Calls)
    <3>1. Publishes \subseteq Calls
      BY DEF Calls
    <3>. QED BY <1>7, <3>1
  <2>2. <<>> \in Seq(Calls)
    BY EmptySeq
  <2>. QED BY <1>6, <1>7, <2>1, <2>2
<1>9. buffered \in Seq(Publishes) /\ emitted \in Seq(Publishes) /\ finished \in BOOLEAN
  BY EmptySeq DEF Init
<1>10. /\ status \in [Ops -> Places] /\ applied \subseteq Calls
       /\ host \in [Clients -> Hosts] /\ ext \in [Clients -> Exts]
       /\ disk \in Saves \cup {None}
       /\ read \in [Loads -> Saves \cup {None}] /\ got \in [Loads -> Saves \cup {None}]
       /\ serving \in {"starting", "running", "stopping", "failed", "ended"} /\ stream \in {"closed", "open", "ended"}
  BY <1>1, <1>2 DEF Init, Places
<1>11. TypeOK
  BY <1>6, <1>7, <1>8, <1>9, <1>10 DEF TypeOK
<1>12. Streaming
  <2>1. "pull" \in Ops /\ "start" \in Ops /\ "stop" \in Ops /\ "flow" \in Clients
    BY DEF Ops, FlowOps, Clients
  <2>. QED BY <1>1, <1>4, <2>1 DEF Streaming, Init
<1>. QED BY <1>5, <1>11, <1>12 DEF CInv

-----------------------------------------------------------------------------
(* Every call behaves like RemoteCalls. *)

\* Remote's outcome: what the caller's status and the effect amount to.
Outcome(at, done) ==
  [op \in Calls |->
     CASE at[op] \in {"waiting", "calling"} -> IF op \in done THEN "applied" ELSE "called"
       [] at[op] = "error" -> "failed"
       [] OTHER -> at[op]]

\* One call's outcome moves.
LEMMA OutcomeMoves ==
  ASSUME NEW op \in Calls, \A o \in Calls : o # op => status'[o] = status[o] /\ (o \in applied' <=> o \in applied)
  PROVE  Outcome(status', applied') = [Outcome(status, applied) EXCEPT ![op] = Outcome(status', applied')[op]]
BY DEF Outcome

\* The steps that leave every outcome, the logs, the disk and the loads alone.
LEMMA RemoteStutters ==
  ASSUME \A o \in Calls : Outcome(status, applied)[o] = Outcome(status', applied')[o], UNCHANGED <<log, disk, read, got>>
  PROVE  UNCHANGED Remote!vars
<1>1. Outcome(status', applied') = Outcome(status, applied)
  BY DEF Outcome
<1>. QED BY <1>1 DEF Remote!vars, Outcome

\* An error is RemoteCalls' failure, or no call's.
LEMMA RemoteFails ==
  ASSUME CInv, NEW c \in Clients, host[c].holder # None, Failed(host[c].holder), UNCHANGED dataVars
  PROVE  Remote!Next \/ UNCHANGED Remote!vars
<1>0. PICK op : op = host[c].holder
  OBVIOUS
<1>1. status \in [Ops -> Places] /\ op \in Ops /\ status[op] = "calling"
  BY <1>0 DEF CInv, TypeOK, InOrder, Good, Mutex, Hosts
<1>2. UNCHANGED <<log, disk, read, got, applied>> /\ status' = [status EXCEPT ![op] = "error"]
  BY <1>0 DEF Failed, dataVars
<1>3. CASE op \in Calls
  <2>1. Outcome(status', applied') = [Outcome(status, applied) EXCEPT ![op] = Outcome(status', applied')[op]]
    <3>1. \A o \in Calls : o # op => status'[o] = status[o] /\ (o \in applied' <=> o \in applied)
      BY <1>1, <1>2, Clientele
    <3>. QED BY <1>3, <3>1, OutcomeMoves
  <2>2. Outcome(status, applied)[op] \in {"called", "applied"} /\ Outcome(status', applied')[op] = "failed"
    BY <1>1, <1>2, <1>3 DEF Outcome
  <2>3. Remote!Fail(op)
    BY <1>2, <2>1, <2>2 DEF Remote!Fail, Outcome
  <2>4. Remote!Next
    BY <1>3, <2>3 DEF Remote!Next, Remote!Calls, Calls
  <2>. QED BY <2>4
<1>4. CASE op \notin Calls
  <2>1. \A o \in Calls : Outcome(status, applied)[o] = Outcome(status', applied')[o]
    BY <1>1, <1>2, <1>4, Clientele DEF Outcome
  <2>. QED BY <1>2, <2>1, RemoteStutters
<1>. QED BY <1>3, <1>4

\* An answer that is accepted is RemoteCalls' success: the call has had its effect, and a
\* load returns what it found.
LEMMA RemoteSucceeds ==
  ASSUME CInv, NEW c \in Clients, host[c].session = "calling", host[c].holder # None,
         ext[c].stdout # <<>>, Head(ext[c].stdout).id = Cur(host[c]), Head(ext[c].stdout).ok,
         Succeeded(host[c].holder, Head(ext[c].stdout).value), UNCHANGED dataVars
  PROVE  Remote!Next \/ UNCHANGED Remote!vars
<1>0. PICK op, value : op = host[c].holder /\ value = Head(ext[c].stdout).value
  OBVIOUS
<1>1. status \in [Ops -> Places] /\ op \in Ops /\ status[op] = "calling" /\ read \in [Loads -> Saves \cup {None}] /\ got \in [Loads -> Saves \cup {None}]
  BY <1>0 DEF CInv, TypeOK, InOrder, Good, Mutex, Hosts
<1>2. UNCHANGED <<log, disk, read, applied>> /\ status' = [status EXCEPT ![op] = "ok"]
      /\ got' = IF op \in Loads THEN [got EXCEPT ![op] = value] ELSE got
  BY <1>0 DEF Succeeded, dataVars
<1>3. (op \in Calls => op \in applied) /\ (op \in Loads => value = read[op])
  <2>1. Good(c, host[c], ext[c], status, applied, read)
    BY DEF CInv, InOrder
  <2>2. Answers(host[c], Head(ext[c].stdout), applied, read)
    BY <2>1, GoodLine
  <2>. QED BY <1>0, <2>2 DEF Answers
<1>4. CASE op \in Calls
  <2>1. Outcome(status', applied') = [Outcome(status, applied) EXCEPT ![op] = Outcome(status', applied')[op]]
    <3>1. \A o \in Calls : o # op => status'[o] = status[o] /\ (o \in applied' <=> o \in applied)
      BY <1>1, <1>2, Clientele
    <3>. QED BY <1>4, <3>1, OutcomeMoves
  <2>2. Outcome(status, applied)[op] = "applied" /\ Outcome(status', applied')[op] = "ok"
    BY <1>1, <1>2, <1>3, <1>4 DEF Outcome
  <2>3. got' = IF op \in Loads THEN [got EXCEPT ![op] = read[op]] ELSE got
    BY <1>2, <1>3
  <2>4. Remote!Succeed(op)
    BY <1>2, <2>1, <2>2, <2>3 DEF Remote!Succeed, Outcome
  <2>5. Remote!Next
    BY <1>4, <2>4 DEF Remote!Next, Remote!Calls, Calls
  <2>. QED BY <2>5
<1>5. CASE op \notin Calls
  <2>1. \A o \in Calls : Outcome(status, applied)[o] = Outcome(status', applied')[o]
    BY <1>1, <1>2, <1>5, Clientele DEF Outcome
  <2>2. op \notin Loads
    BY <1>5 DEF Calls
  <2>. QED BY <1>2, <2>1, <2>2, RemoteStutters
<1>. QED BY <1>4, <1>5

\* A request that is executed is RemoteCalls' effect: of a call that is under way and has
\* had none.
LEMMA RemoteApplies ==
  ASSUME CInv, NEW c \in Clients, handle(c)
  PROVE  Remote!Next \/ UNCHANGED Remote!vars
<1>0. PICK op : op = Head(ext[c].stdin).op
  OBVIOUS
<1>1. /\ status \in [Ops -> Places] /\ log \in [{"bus", "sink"} -> Seq(Calls)] /\ UNCHANGED <<status, got>>
      /\ Good(c, host[c], ext[c], status, applied, read) /\ ext[c].stdin # <<>>
  BY DEF CInv, TypeOK, InOrder, handle
<1>2. op = "initialize" \/ (op \in Ops /\ op = host[c].holder /\ Client(op) = c /\ status[op] = "calling" /\ op \notin applied)
  BY <1>0, <1>1, GoodRequest
<1>3. "initialize" \notin Calls
  BY StdioAssumption
<1>4. \/ UNCHANGED dataVars
      \/ /\ log' = IF op \in Publishes \cup Sends THEN [log EXCEPT ![c] = Append(@, op)] ELSE log
         /\ disk' = IF op \in Saves THEN op ELSE IF op \in Deletes THEN None ELSE disk
         /\ read' = IF op \in Loads THEN [read EXCEPT ![op] = disk] ELSE read
         /\ applied' = applied \cup ({op} \cap Calls)
  BY <1>0, HandleCases DEF Handled
<1>5. CASE UNCHANGED dataVars
  BY <1>1, <1>5, RemoteStutters DEF dataVars
<1>6. CASE op \notin Calls /\ ~UNCHANGED dataVars
  <2>1. op \notin Publishes \cup Sends /\ op \notin Saves /\ op \notin Deletes /\ op \notin Loads
    BY <1>6 DEF Calls
  <2>. QED BY <1>1, <1>4, <1>6, <2>1, RemoteStutters
<1>7. CASE op \in Calls /\ ~UNCHANGED dataVars
  <2>1. op \in Ops /\ Client(op) = c /\ status[op] = "calling" /\ op \notin applied /\ applied' = applied \cup {op}
    BY <1>2, <1>3, <1>4, <1>7
  <2>2. Outcome(status', applied') = [Outcome(status, applied) EXCEPT ![op] = Outcome(status', applied')[op]]
    <3>1. \A o \in Calls : o # op => status'[o] = status[o] /\ (o \in applied' <=> o \in applied)
      BY <1>1, <2>1
    <3>. QED BY <1>7, <3>1, OutcomeMoves
  <2>3. Outcome(status, applied)[op] = "called" /\ Outcome(status', applied')[op] = "applied"
    BY <1>1, <1>7, <2>1 DEF Outcome
  <2>4. log' = IF op \in Publishes THEN [log EXCEPT !["bus"] = Append(@, op)]
               ELSE IF op \in Sends THEN [log EXCEPT !["sink"] = Append(@, op)] ELSE log
    <3>1. op \in Publishes => c = "bus"
      BY <2>1, Clientele
    <3>2. op \in Sends => c = "sink"
      BY <2>1, Clientele
    <3>. QED BY <1>4, <1>7, <3>1, <3>2
  <2>5. Remote!Apply(op)
    BY <1>1, <1>4, <1>7, <2>2, <2>3, <2>4 DEF Remote!Apply, Outcome
  <2>6. Remote!Next
    BY <1>7, <2>5 DEF Remote!Next, Remote!Calls, Calls
  <2>. QED BY <2>6
<1>. QED BY <1>4, <1>5, <1>6, <1>7

\* A caller that asks for the mutex is RemoteCalls' invocation, or asks for no call.
LEMMA RemoteAsks ==
  ASSUME CInv, NEW op \in Ops, status[op] \notin {"waiting", "calling", "ok"} \/ op \notin Calls,
         Ask(op), UNCHANGED <<log, disk, read, got>>
  PROVE  Remote!Next \/ UNCHANGED Remote!vars
<1>1. status \in [Ops -> Places] /\ status' = [status EXCEPT ![op] = "waiting"] /\ applied' = applied \ {op}
  BY DEF CInv, TypeOK, Ask
<1>2. CASE op \in Calls
  <2>1. Outcome(status', applied') = [Outcome(status, applied) EXCEPT ![op] = Outcome(status', applied')[op]]
    <3>1. \A o \in Calls : o # op => status'[o] = status[o] /\ (o \in applied' <=> o \in applied)
      BY <1>1, Clientele
    <3>. QED BY <1>2, <3>1, OutcomeMoves
  <2>2. Outcome(status, applied)[op] \in {"idle", "failed"} /\ Outcome(status', applied')[op] = "called"
    BY <1>1, <1>2 DEF Outcome, Places
  <2>3. Remote!Invoke(op)
    BY <2>1, <2>2 DEF Remote!Invoke, Outcome
  <2>4. Remote!Next
    BY <1>2, <2>3 DEF Remote!Next, Remote!Calls, Calls
  <2>. QED BY <2>4
<1>3. CASE op \notin Calls
  <2>1. \A o \in Calls : Outcome(status, applied)[o] = Outcome(status', applied')[o]
    BY <1>1, <1>3, Clientele DEF Outcome
  <2>. QED BY <2>1, RemoteStutters
<1>. QED BY <1>2, <1>3

\* Every step is a step of RemoteCalls, or changes nothing that RemoteCalls speaks of.
LEMMA RemoteStep ==
  ASSUME CInv, [Next]_vars
  PROVE  Remote!Next \/ UNCHANGED Remote!vars
<1>1. status \in [Ops -> Places] /\ "start" \in Ops /\ "pull" \in Ops /\ "stop" \in Ops
  BY DEF CInv, TypeOK, Ops, FlowOps
<1>2. "start" \notin Calls /\ "pull" \notin Calls /\ "stop" \notin Calls
  BY Clientele DEF FlowOps
<1>3. ASSUME UNCHANGED <<status, applied, log, disk, read, got>> PROVE UNCHANGED Remote!vars
  BY <1>3, RemoteStutters
<1>4. CASE UNCHANGED vars
  BY <1>3, <1>4 DEF vars, dataVars
<1>5. CASE \E op \in Calls : Invoke(op)
  <2>1. PICK op \in Calls : Invoke(op)
    BY <1>5
  <2>2. op \in Ops /\ status[op] \notin {"waiting", "calling", "ok"} /\ Ask(op) /\ UNCHANGED <<log, disk, read, got>>
    BY <2>1, Clientele DEF Invoke
  <2>. QED BY <2>2, RemoteAsks
<1>6. CASE next_record
  <2>1. UNCHANGED <<log, disk, read, got>>
    BY <1>6 DEF next_record
  <2>2. Ask("pull") \/ UNCHANGED <<status, applied>>
    BY <1>6 DEF next_record
  <2>. QED BY <1>1, <1>2, <1>3, <2>1, <2>2, RemoteAsks
<1>7. CASE start \/ stop
  <2>1. UNCHANGED <<log, disk, read, got>> /\ (Ask("start") \/ Ask("stop"))
    BY <1>7 DEF start, stop
  <2>. QED BY <1>1, <1>2, <2>1, RemoteAsks
<1>8. CASE serve_returns
  BY <1>3, <1>8 DEF serve_returns, dataVars
<1>9. ASSUME NEW c \in Clients, lock(c) PROVE UNCHANGED Remote!vars
  <2>1. UNCHANGED <<dataVars, got>>
    BY <1>9 DEF lock
  <2>2. PICK op \in Ops : /\ status[op] = "waiting"
                          /\ \/ op = "stop" /\ status' = [status EXCEPT ![op] = "ok"]
                             \/ status' = [status EXCEPT ![op] = "calling"]
    BY <1>9, LockKeeps
  <2>3. \A o \in Calls : Outcome(status, applied)[o] = Outcome(status', applied')[o]
    BY <1>1, <1>2, <2>1, <2>2, Clientele DEF Outcome, dataVars
  <2>. QED BY <2>1, <2>3, RemoteStutters DEF dataVars
<1>10. ASSUME NEW c \in Clients, spawn(c) PROVE Remote!Next \/ UNCHANGED Remote!vars
  <2>1. UNCHANGED dataVars
    BY <1>10 DEF spawn
  <2>2. CASE UNCHANGED <<status, flowVars, got>>
    BY <1>3, <2>1, <2>2 DEF dataVars
  <2>3. CASE host[c].holder # None /\ Failed(host[c].holder)
    BY <2>1, <2>3, RemoteFails
  <2>. QED BY <1>10, <2>2, <2>3, SpawnKeeps
<1>11. ASSUME NEW c \in Clients, write(c) PROVE Remote!Next \/ UNCHANGED Remote!vars
  <2>1. UNCHANGED dataVars
    BY <1>11 DEF write
  <2>2. CASE UNCHANGED <<status, flowVars, got>>
    BY <1>3, <2>1, <2>2 DEF dataVars
  <2>3. CASE host[c].holder # None /\ Failed(host[c].holder)
    BY <2>1, <2>3, RemoteFails
  <2>. QED BY <1>11, <2>2, <2>3, WriteKeeps
<1>12. ASSUME NEW c \in Clients, request(c) PROVE Remote!Next \/ UNCHANGED Remote!vars
  <2>1. UNCHANGED dataVars
    BY <1>12 DEF request
  <2>2. host[c].holder # None
    BY <1>12, RequestCases
  <2>3. CASE UNCHANGED <<status, flowVars, got>>
    BY <1>3, <2>1, <2>3 DEF dataVars
  <2>4. CASE Failed(host[c].holder)
    BY <2>1, <2>2, <2>4, RemoteFails
  <2>5. CASE /\ host[c].session = "calling" /\ ext[c].stdout # <<>> /\ Head(ext[c].stdout).id = Cur(host[c])
             /\ Head(ext[c].stdout).ok /\ Succeeded(host[c].holder, Head(ext[c].stdout).value)
    BY <2>1, <2>2, <2>5, RemoteSucceeds
  <2>. QED BY <1>12, <2>3, <2>4, <2>5, RequestCases
<1>13. ASSUME NEW c \in Clients, handle(c) PROVE Remote!Next \/ UNCHANGED Remote!vars
  BY <1>13, RemoteApplies
<1>14. ASSUME NEW c \in Clients, respond(c) \/ Crash(c) \/ PrintsStray(c) PROVE UNCHANGED Remote!vars
  BY <1>3, <1>14 DEF respond, Crash, PrintsStray, dataVars
<1>15. CASE \E c \in Clients : HostStep(c) \/ handle(c) \/ respond(c) \/ Crash(c) \/ PrintsStray(c)
  <2>1. PICK c \in Clients : lock(c) \/ spawn(c) \/ write(c) \/ request(c) \/ handle(c) \/ respond(c) \/ Crash(c) \/ PrintsStray(c)
    BY <1>15 DEF HostStep
  <2>. QED BY <1>9, <1>10, <1>11, <1>12, <1>13, <1>14, <2>1
<1>. QED BY <1>4, <1>5, <1>6, <1>7, <1>8, <1>15 DEF Next

\* The first state is one of RemoteCalls.
LEMMA RemoteStart ==
  ASSUME Init PROVE Remote!Init
<1>1. CInv
  BY Start
<1>2. log["bus"] \in Seq(Publishes)
  BY <1>1 DEF CInv, TypeOK
<1>3. log["sink"] = <<>>
  BY DEF Init
<1>4. disk = None /\ read = [op \in Loads |-> None] /\ got = [op \in Loads |-> None]
  BY DEF Init
<1>5. Outcome(status, applied) = [op \in Calls |-> "idle"]
  <2>1. status = [op \in Ops |-> "idle"]
    BY DEF Init
  <2>. QED BY <2>1, Clientele DEF Outcome
<1>. QED BY <1>2, <1>3, <1>4, <1>5 DEF Remote!Init, Outcome, Calls, Remote!Calls

\* stdio_extensions.rs: whatever the processes do and however many callers share a
\* client, a call takes effect at most once and only while it is under way, succeeds only
\* after that, and a load returns what the store held then.
THEOREM CallsAreExact == Spec => CallsAtMostOnce
<1>1. Init => CInv /\ Streaming
  BY Start
<1>2. CInv /\ Streaming /\ [Next]_vars => CInv' /\ Streaming'
  BY Step
<1>3. Init => Remote!Init
  BY RemoteStart
<1>4. CInv /\ [Next]_vars => [Remote!Next]_Remote!vars
  BY RemoteStep
<1>. QED BY <1>1, <1>2, <1>3, <1>4, PTL DEF Spec, CallsAtMostOnce, Remote!Spec

-----------------------------------------------------------------------------
(* The rows of a stream. *)

\* The records are the rows after the n-th.
Follows(records, n, rows) ==
  /\ n + Len(records) <= Len(rows)
  /\ \A i \in 1..Len(records) : records[i] = rows[n + i]

\* An answer to a pull has the rows after the n that were yielded, and the process counts them.
Pulls(line, h, e, n, rows) ==
  line.id # 0 /\ line.ok /\ h.session = "calling" /\ h.holder = "pull" =>
    /\ Follows(line.value.records, n, rows)
    /\ e.child = "alive" => e.last_id = n + Len(line.value.records)

\* The process counts the n rows that were yielded or are buffered, those of an answer
\* under way apart; a process starts to count only for a stream that has yielded none.
Drawn(h, e, n, rows) ==
  /\ h.session \in {"none", "initializing"} => n = 0 /\ e.last_id = 0
  /\ h.session = "ready" /\ e.child = "alive" => e.last_id = n
  /\ h.session = "calling" /\ e.child = "alive" /\ (h.holder # "pull" \/ e.stdin # <<>>) => e.last_id = n
  /\ \A i \in 1..Len(e.working) : Pulls(e.working[i], h, e, n, rows)
  /\ \A i \in 1..Len(e.stdout) : Pulls(e.stdout[i], h, e, n, rows)

\* As long as the stop of the trigger has not failed.
Rows ==
  status["stop"] # "error" =>
    /\ Follows(emitted \o buffered, 0, log["bus"])
    /\ stream = "open" => Drawn(host["flow"], ext["flow"], Len(emitted \o buffered), log["bus"])

\* A row that is published does not change what was drawn.
LEMMA RowsGrow ==
  ASSUME NEW rows \in Seq(Publishes), NEW x \in Publishes, NEW n \in Nat, NEW h, NEW e \in Exts, h.session \in Sessions
  PROVE  /\ \A records \in Seq(Publishes) : Follows(records, n, rows) => Follows(records, n, Append(rows, x))
         /\ (h.session = "calling" /\ h.holder = "pull" =>
               /\ \A i \in 1..Len(e.working) : e.working[i].id # 0 /\ e.working[i].ok => e.working[i].value \in Batches
               /\ \A i \in 1..Len(e.stdout) : e.stdout[i].id # 0 /\ e.stdout[i].ok => e.stdout[i].value \in Batches)
            /\ Drawn(h, e, n, rows) => Drawn(h, e, n, Append(rows, x))
<1>1. PICK more \in Seq(Publishes) : more = Append(rows, x)
  BY AppendProperties
<1>2. Len(more) = Len(rows) + 1 /\ Len(rows) \in Nat /\ \A i \in 1..Len(rows) : more[i] = rows[i]
  BY <1>1
<1>3. ASSUME NEW records \in Seq(Publishes), Follows(records, n, rows) PROVE Follows(records, n, more)
  <2>1. PICK l \in Nat : l = Len(records)
    OBVIOUS
  <2>2. n + l <= Len(rows) /\ \A i \in 1..l : records[i] = rows[n + i] /\ n + i \in 1..Len(rows)
    BY <1>2, <1>3, <2>1 DEF Follows
  <2>. QED BY <1>2, <2>1, <2>2 DEF Follows
<1>4. ASSUME NEW line, h.session = "calling" /\ h.holder = "pull" /\ line.id # 0 /\ line.ok => line.value \in Batches,
             Pulls(line, h, e, n, rows)
      PROVE  Pulls(line, h, e, n, more)
  <2>1. h.session = "calling" /\ h.holder = "pull" /\ line.id # 0 /\ line.ok => line.value.records \in Seq(Publishes)
    BY <1>4 DEF Batches
  <2>. QED BY <1>3, <1>4, <2>1 DEF Pulls
<1>. QED BY <1>1, <1>3, <1>4 DEF Drawn

\* What a pull is answered with is a batch.
LEMMA PullAnswers ==
  ASSUME NEW c, NEW h, NEW e, NEW at, NEW done, NEW found, Good(c, h, e, at, done, found)
  PROVE  /\ h.session \in Sessions /\ e \in Exts
         /\ h.session = "calling" /\ h.holder = "pull" =>
               /\ \A i \in 1..Len(e.working) : e.working[i].id # 0 /\ e.working[i].ok => e.working[i].value \in Batches
               /\ \A i \in 1..Len(e.stdout) : e.stdout[i].id # 0 /\ e.stdout[i].ok => e.stdout[i].value \in Batches
<1>1. h \in Hosts /\ e \in Exts /\ Conversation(h, e, done, found)
  BY DEF Good
<1>2. ASSUME NEW i \in 1..Len(e.working), h.session = "calling", h.holder = "pull", e.working[i].ok
      PROVE  e.working[i].value \in Batches
  <2>1. e.working # <<>>
    BY <1>1 DEF Exts
  <2>2. Len(e.working) = 1 /\ Answers(h, e.working[1], done, found)
    BY <1>1, <2>1 DEF Conversation
  <2>3. i = 1
    BY <2>2
  <2>. QED BY <1>2, <2>2, <2>3 DEF Answers
<1>3. ASSUME NEW i \in 1..Len(e.stdout), h.session = "calling", h.holder = "pull", e.stdout[i].id # 0, e.stdout[i].ok
      PROVE  e.stdout[i].value \in Batches
  BY <1>1, <1>3 DEF Conversation, Answers
<1>. QED BY <1>1, <1>2, <1>3 DEF Hosts

\* Stray lines say nothing of the rows; nor does a line of another time.
LEMMA NothingPulled ==
  ASSUME NEW h, NEW e, NEW n, NEW rows, NEW lines, Strays(lines) \/ h.session # "calling" \/ h.holder # "pull"
  PROVE  \A i \in 1..Len(lines) : Pulls(lines[i], h, e, n, rows)
BY DEF Strays, Pulls

\* The stream yields its buffer in order.
LEMMA Yielded ==
  ASSUME NEW X, NEW out \in Seq(X), NEW buffer \in Seq(X), buffer # <<>>
  PROVE  Append(out, Head(buffer)) \o Tail(buffer) = out \o buffer
<1>1. /\ Head(buffer) \in X /\ Tail(buffer) \in Seq(X) /\ Head(buffer) = buffer[1] /\ Len(Tail(buffer)) = Len(buffer) - 1
      /\ \A i \in 1..Len(Tail(buffer)) : Tail(buffer)[i] = buffer[i + 1]
  BY HeadTailProperties
<1>2. PICK h \in X, t \in Seq(X) : h = Head(buffer) /\ t = Tail(buffer)
  BY <1>1
<1>3. PICK one \in Seq(X) : one = <<h>> /\ Len(one) = 1 /\ one[1] = h
  <2>1. <<h>> \in Seq(X) /\ Len(<<h>>) = 1 /\ <<h>>[1] = h
    OBVIOUS
  <2>. QED BY <2>1
<1>4. one \o t = buffer
  <2>1. PICK l \in Nat : l = Len(t) /\ Len(buffer) = 1 + l
    <3>1. Len(t) \in Nat /\ Len(buffer) \in Nat /\ Len(t) = Len(buffer) - 1
      BY <1>1, <1>2, LenProperties
    <3>. QED BY <3>1
  <2>2. /\ one \o t \in Seq(X) /\ Len(one \o t) = 1 + l
        /\ \A i \in 1..(1 + l) : (one \o t)[i] = IF i <= 1 THEN one[i] ELSE t[i - 1]
    BY <1>3, <2>1, ConcatProperties
  <2>3. ASSUME NEW i \in 1..(1 + l) PROVE (one \o t)[i] = buffer[i]
    <3>1. CASE i = 1
      BY <1>1, <1>2, <1>3, <2>2, <3>1
    <3>2. CASE i # 1
      <4>1. i - 1 \in 1..l /\ (i - 1) + 1 = i /\ ~(i <= 1)
        BY <3>2
      <4>2. (one \o t)[i] = t[i - 1]
        BY <2>2, <4>1
      <4>3. t[i - 1] = buffer[(i - 1) + 1]
        BY <1>1, <1>2, <2>1, <4>1
      <4>. QED BY <4>1, <4>2, <4>3
    <3>. QED BY <3>1, <3>2
  <2>4. Len(one \o t) = Len(buffer) /\ \A i \in 1..Len(one \o t) : (one \o t)[i] = buffer[i]
    BY <2>1, <2>2, <2>3
  <2>. QED BY <2>2, <2>4, SeqEqual
<1>5. Append(out, h) = out \o one
  BY <1>3, AppendIsConcat
<1>6. (out \o one) \o t = out \o (one \o t)
  BY ConcatAssociative
<1>. QED BY <1>2, <1>4, <1>5, <1>6

\* The steps of the stream's client keep the rows in order: drawn from the process in
\* one answer each, and counted there until the process is gone.
LEMMA RowsClient ==
  ASSUME CInv, Streaming, Rows, HostStep("flow") \/ handle("flow") \/ respond("flow") \/ Crash("flow") \/ PrintsStray("flow")
  PROVE  Rows'
<1>0. PICK c : c = "flow"
  OBVIOUS
<1>1. TypeOK /\ InOrder /\ c \in Clients /\ "start" \in Ops /\ "pull" \in Ops /\ "stop" \in Ops
  BY <1>0 DEF CInv, Clients, Ops, FlowOps
<1>2. status \in [Ops -> Places] /\ host \in [Clients -> Hosts] /\ ext \in [Clients -> Exts] /\ emitted \in Seq(Publishes) /\ buffered \in Seq(Publishes)
  BY <1>1 DEF TypeOK
<1>3. PICK h \in Hosts, e \in Exts : h = host[c] /\ e = ext[c] /\ Good(c, h, e, status, applied, read)
  BY <1>1, <1>2 DEF InOrder
<1>4. PICK op : op = h.holder
  OBVIOUS
<1>5. op # None => op \in Ops /\ Client(op) = c /\ status[op] = "calling" /\ op \in {"start", "pull", "stop"}
  <2>1. op # None => op \in Ops /\ Client(op) = c /\ status[op] = "calling"
    BY <1>3, <1>4 DEF Good, Mutex, Hosts
  <2>. QED BY <1>0, <2>1, FlowCalls
<1>6. PICK rows \in Seq(Publishes) : rows = log["bus"]
  BY <1>1 DEF TypeOK
<1>7. PICK out \in Seq(Publishes), n \in Nat : out = emitted \o buffered /\ n = Len(out)
  BY <1>2, ConcatProperties, LenProperties
<1>8. status["stop"] # "error" => Follows(out, 0, rows) /\ (stream = "open" => Drawn(h, e, n, rows))
  BY <1>0, <1>3, <1>6, <1>7 DEF Rows
<1>9. ASSUME log'["bus"] = rows, emitted' \o buffered' = out, status'["stop"] # "error" => status["stop"] # "error", stream' \in {stream, "ended"},
             NEW h2, NEW e2, host'[c] = h2, ext'[c] = e2,
             Drawn(h, e, n, rows) /\ stream = "open" /\ stream' = "open" /\ status'["stop"] # "error" => Drawn(h2, e2, n, rows)
      PROVE  Rows'
  BY <1>0, <1>7, <1>8, <1>9 DEF Rows
<1>10. ASSUME reset_client(c), Failed(op), op # None, log'["bus"] = rows PROVE Rows'
  <2>1. status' = [status EXCEPT ![op] = "error"] /\ emitted' \o buffered' = out
    BY <1>7, <1>10 DEF Failed
  <2>2. CASE op = "stop"
    BY <1>2, <1>5, <1>10, <2>1, <2>2 DEF Rows
  <2>3. CASE op = "start"
    <3>1. stream = "closed" /\ stream' = "closed"
      BY <1>1, <1>5, <1>10, <2>3 DEF Streaming, Failed
    <3>2. status'["stop"] = status["stop"]
      BY <1>1, <1>2, <2>1, <2>3
    <3>. QED BY <1>9, <1>10, <2>1, <3>1, <3>2
  <2>4. CASE op = "pull"
    <3>1. stream' = "ended"
      BY <1>10, <2>4 DEF Failed
    <3>2. status'["stop"] = status["stop"]
      BY <1>1, <1>2, <2>1, <2>4
    <3>. QED BY <1>9, <1>10, <2>1, <3>1, <3>2
  <2>. QED BY <1>5, <1>10, <2>2, <2>3, <2>4
<1>11. CASE lock(c)
  <2>1. UNCHANGED <<flowVars, ext, log>>
    BY <1>11 DEF lock, dataVars
  <2>2. PICK o \in Ops : /\ status[o] = "waiting" /\ host[c].holder = None
                         /\ status' = [status EXCEPT ![o] = "ok"] \/ status' = [status EXCEPT ![o] = "calling"]
                         /\ host'[c].session = host[c].session
    BY <1>1, <1>11, LockKeeps
  <2>3. status'["stop"] # "error" => status["stop"] # "error"
    BY <1>1, <1>2, <2>2
  <2>4. h.session \in {"none", "ready"}
    BY <1>3, <2>2 DEF Good, Mutex, Hosts, Sessions
  <2>5. PICK h2 : h2 = host'[c] /\ h2.session = h.session
    BY <1>3, <2>2
  <2>6. Drawn(h, e, n, rows) => Drawn(h2, e, n, rows)
    BY <2>4, <2>5 DEF Drawn, Pulls
  <2>. QED BY <1>3, <1>6, <1>7, <1>9, <2>1, <2>3, <2>5, <2>6 DEF flowVars
<1>12. CASE spawn(c)
  <2>1. log' = log /\ h.session = "none"
    BY <1>3, <1>12 DEF spawn, dataVars
  <2>2. CASE /\ host' = [host EXCEPT ![c] = [host[c] EXCEPT !.session = "initializing", !.next_id = take_id(1)]]
             /\ ext' = [ext EXCEPT ![c] = [NoProcess EXCEPT !.child = "alive", !.stdin = <<[id |-> 1, op |-> "initialize"]>>]]
             /\ UNCHANGED <<status, flowVars, got>>
    <3>1. PICK h2, e2 : h2 = host'[c] /\ e2 = ext'[c]
      OBVIOUS
    <3>2. h2.session = "initializing"
      BY <1>1, <1>2, <2>2, <3>1 DEF Hosts
    <3>3. e2.last_id = 0 /\ e2.working = <<>> /\ e2.stdout = <<>>
      BY <1>1, <1>2, <2>2, <3>1 DEF NoProcess
    <3>4. Drawn(h, e, n, rows) => Drawn(h2, e2, n, rows)
      BY <2>1, <3>2, <3>3 DEF Drawn
    <3>. QED BY <1>6, <1>7, <1>9, <2>1, <2>2, <3>1, <3>4 DEF flowVars
  <2>3. CASE op # None /\ reset_client(c) /\ Failed(op)
    BY <1>6, <1>10, <2>1, <2>3
  <2>. QED BY <1>1, <1>3, <1>4, <1>12, <2>2, <2>3, SpawnKeeps
<1>13. CASE write(c)
  <2>1. log' = log /\ h.session = "ready" /\ h.holder # None
    BY <1>3, <1>13 DEF write, dataVars
  <2>2. CASE /\ e.child = "alive"
             /\ host' = [host EXCEPT ![c] = [host[c] EXCEPT !.session = "calling", !.next_id = take_id(@)]]
             /\ ext' = [ext EXCEPT ![c] = [ext[c] EXCEPT !.stdin = Append(@, [id |-> host[c].next_id, op |-> host[c].holder])]]
             /\ UNCHANGED <<status, flowVars, got>>
    <3>1. PICK h2, e2 : h2 = host'[c] /\ e2 = ext'[c]
      OBVIOUS
    <3>2. h2.session = "calling"
      BY <1>1, <1>2, <2>2, <3>1 DEF Hosts
    <3>3. e2.last_id = e.last_id /\ e2.working = e.working /\ e2.stdout = e.stdout /\ e2.child = e.child
      BY <1>1, <1>2, <1>3, <2>2, <3>1 DEF Exts
    <3>4. e.working = <<>> /\ Strays(e.stdout)
      BY <1>3, <2>1 DEF Good, Conversation
    <3>5. \A i \in 1..Len(e2.stdout) : Pulls(e2.stdout[i], h2, e2, n, rows)
      BY <3>3, <3>4, NothingPulled
    <3>6. Drawn(h, e, n, rows) => Drawn(h2, e2, n, rows)
      BY <2>1, <2>2, <3>2, <3>3, <3>4, <3>5 DEF Drawn
    <3>. QED BY <1>6, <1>7, <1>9, <2>1, <2>2, <3>1, <3>6 DEF flowVars
  <2>3. CASE reset_client(c) /\ Failed(op)
    BY <1>4, <1>6, <1>10, <2>1, <2>3
  <2>. QED BY <1>1, <1>3, <1>4, <1>13, <2>2, <2>3, WriteKeeps
<1>14. CASE handle(c)
  <2>1. UNCHANGED <<flowVars, host, status>>
    BY <1>14 DEF handle
  <2>2. PICK asked : asked = Head(e.stdin).op
    OBVIOUS
  <2>3. e.stdin # <<>> /\ e.child = "alive" /\ \E line \in Lines, e2 \in Exts : Handled(c, asked, line, e2)
    BY <1>1, <1>3, <1>14, <2>2, HandleCases
  <2>h. PICK line \in Lines, e2 \in Exts : Handled(c, asked, line, e2)
    BY <2>3
  <2>4. /\ ext' = [ext EXCEPT ![c] = e2]
        /\ e2.child = "alive" /\ e2.stdin = Tail(e.stdin) /\ e2.working = <<line>> /\ e2.stdout = e.stdout
        /\ \/ line.ok = FALSE /\ e2.last_id = e.last_id /\ UNCHANGED dataVars
           \/ /\ \/ /\ asked = "pull" /\ \E d \in BOOLEAN : line.value = Pulled(c, d)
                    /\ line.value \in Batches /\ e2.last_id = e.last_id + Len(line.value.records)
                 \/ asked # "pull" /\ e2.last_id = e.last_id
              /\ log' = IF asked \in Publishes \cup Sends THEN [log EXCEPT ![c] = Append(@, asked)] ELSE log
    BY <1>3, <2>h DEF Handled
  <2>5. /\ Tail(e.stdin) = <<>> /\ h.session \in {"initializing", "calling"} /\ h.holder \in Ops /\ Client(h.holder) = c
        /\ h.session = "initializing" => asked = "initialize"
        /\ h.session = "calling" => asked = h.holder
        /\ Strays(e.stdout)
    BY <1>3, <2>2, <2>3, GoodRequest
  <2>6. asked \notin Publishes \cup Sends
    <3>1. h.holder \notin Publishes \cup Sends
      BY <1>0, <2>5, FlowCalls
    <3>2. "initialize" \notin Publishes \cup Sends
      BY StdioAssumption DEF Calls
    <3>. QED BY <2>5, <3>1, <3>2
  <2>7. log' = log
    BY <2>4, <2>6 DEF dataVars
  <2>8. ASSUME Drawn(h, e, n, rows), Follows(out, 0, rows) PROVE Drawn(h, e2, n, rows)
    <3>1. \A i \in 1..Len(e2.stdout) : Pulls(e2.stdout[i], h, e2, n, rows)
      BY <2>4, <2>5, NothingPulled
    <3>2. e.last_id = n
      BY <2>3, <2>5, <2>8 DEF Drawn
    <3>3. n <= Len(rows)
      BY <1>7, <2>8 DEF Follows
    <3>4. Pulls(line, h, e2, n, rows)
      <4> SUFFICES ASSUME line.ok, h.session = "calling", h.holder = "pull"
                   PROVE  Follows(line.value.records, n, rows) /\ e2.last_id = n + Len(line.value.records)
        BY DEF Pulls
      <4>1. asked = "pull" /\ line.value \in Batches /\ e2.last_id = e.last_id + Len(line.value.records)
        BY <2>4, <2>5
      <4>2. PICK d \in BOOLEAN : line.value = Pulled(c, d)
        BY <2>4, <4>1
      <4>3. PICK r \in Seq(Publishes) : r = line.value.records
        BY <4>1 DEF Batches
      <4>4. r = <<>> \/ (n + Len(r) <= Len(rows) /\ \A i \in 1..Len(r) : r[i] = rows[n + i])
        <5>1. LET p == Pulled(c, d).records
                  m == ext[c].last_id
              IN p = <<>> \/ (m + Len(p) <= Len(log["bus"]) /\ \A i \in 1..Len(p) : p[i] = log["bus"][m + i])
          BY <1>1, PulledRows
        <5>. QED BY <1>3, <1>6, <3>2, <4>2, <4>3, <5>1
      <4>5. Follows(r, n, rows)
        BY <3>3, <4>4 DEF Follows
      <4>. QED BY <3>2, <4>1, <4>3, <4>5
    <3>5. \A i \in 1..Len(e2.working) : Pulls(e2.working[i], h, e2, n, rows)
      BY <2>4, <3>4
    <3>6. h.session = "initializing" => n = 0 /\ e2.last_id = 0
      BY <2>4, <2>5, <2>8, <3>2 DEF Drawn
    <3>7. h.session = "calling" /\ h.holder # "pull" => e2.last_id = n
      BY <2>4, <2>5, <3>2
    <3>. QED BY <2>4, <2>5, <3>1, <3>5, <3>6, <3>7 DEF Drawn
  <2>9. ext'[c] = e2 /\ host'[c] = h
    BY <1>1, <1>2, <1>3, <2>1, <2>4
  <2>. QED BY <1>6, <1>7, <1>8, <1>9, <2>1, <2>7, <2>8, <2>9 DEF flowVars
<1>15. CASE respond(c) \/ Crash(c) \/ PrintsStray(c)
  <2>1. UNCHANGED <<flowVars, host, status, log>>
    BY <1>15 DEF respond, Crash, PrintsStray, dataVars
  <2>2. PICK e2 \in Exts :
          /\ ext' = [ext EXCEPT ![c] = e2]
          /\ \/ \E line \in Lines : /\ e2.child = "alive" /\ e2.stdin = e.stdin /\ e2.stdout = Append(e.stdout, line)
                                    /\ e2.last_id = e.last_id
                                    /\ \/ e.working = <<line>> /\ e2.working = <<>>
                                       \/ line.id = 0 /\ e2.working = e.working
             \/ e2.child = "dead" /\ e2.stdin = <<>> /\ e2.working = <<>> /\ e2.stdout = e.stdout /\ e2.last_id = 0
    BY <1>1, <1>3, <1>15, ProcessKeeps
  <2>3. e.child = "alive"
    BY <1>1, <1>3, <1>15, ProcessKeeps
  <2>4. CASE e2.child = "dead" /\ e2.stdin = <<>> /\ e2.working = <<>> /\ e2.stdout = e.stdout /\ e2.last_id = 0
    <3>1. Drawn(h, e, n, rows) => Drawn(h, e2, n, rows)
      BY <2>4 DEF Drawn, Pulls
    <3>. QED BY <1>1, <1>2, <1>3, <1>6, <1>7, <1>9, <2>1, <2>2, <3>1 DEF flowVars
  <2>5. ASSUME NEW line \in Lines, e2.child = "alive", e2.stdin = e.stdin, e2.stdout = Append(e.stdout, line), e2.last_id = e.last_id,
               (e.working = <<line>> /\ e2.working = <<>>) \/ (line.id = 0 /\ e2.working = e.working)
        PROVE  Rows'
    <3>1. PICK q \in Seq(Lines) : q = e.stdout
      BY <1>3 DEF Exts
    <3>2. PICK l \in Nat : /\ l = Len(q) /\ Len(e2.stdout) = l + 1 /\ e2.stdout[l + 1] = line
                           /\ \A i \in 1..l : e2.stdout[i] = e.stdout[i]
      <4>1. /\ Len(Append(q, line)) = Len(q) + 1 /\ Append(q, line)[Len(q) + 1] = line /\ Len(q) \in Nat
            /\ \A i \in 1..Len(q) : Append(q, line)[i] = q[i]
        BY AppendProperties, LenProperties
      <4>. QED BY <2>5, <3>1, <4>1
    <3>3. \A i \in 1..(l + 1) : i \in 1..l \/ i = l + 1
      OBVIOUS
    <3>4. \A x : Pulls(x, h, e, n, rows) => Pulls(x, h, e2, n, rows)
      BY <2>3, <2>5 DEF Pulls
    <3>5. ASSUME Drawn(h, e, n, rows) PROVE Drawn(h, e2, n, rows)
      <4>1. Pulls(line, h, e, n, rows)
        <5>1. CASE line.id = 0
          BY <5>1 DEF Pulls
        <5>2. CASE e.working = <<line>>
          <6>1. Len(e.working) = 1 /\ e.working[1] = line
            BY <5>2
          <6>. QED BY <3>5, <6>1 DEF Drawn
        <5>. QED BY <2>5, <5>1, <5>2
      <4>2. \A i \in 1..Len(e2.stdout) : Pulls(e2.stdout[i], h, e2, n, rows)
        BY <3>1, <3>2, <3>3, <3>4, <3>5, <4>1 DEF Drawn
      <4>3. \A i \in 1..Len(e2.working) : Pulls(e2.working[i], h, e2, n, rows)
        BY <2>5, <3>4, <3>5 DEF Drawn
      <4>. QED BY <2>3, <2>5, <3>5, <4>2, <4>3 DEF Drawn
    <3>. QED BY <1>1, <1>2, <1>3, <1>6, <1>7, <1>9, <2>1, <2>2, <3>5 DEF flowVars
  <2>. QED BY <2>2, <2>4, <2>5
<1>16. CASE request(c)
  <2>1. log' = log /\ h.session \in {"initializing", "calling"} /\ op # None
    BY <1>1, <1>3, <1>4, <1>16, RequestCases DEF request, dataVars
  <2>2. CASE reset_client(c) /\ Failed(op)
    BY <1>6, <1>10, <2>1, <2>2
  <2>3. PICK h2, e2 : h2 = host'[c] /\ e2 = ext'[c]
    OBVIOUS
  <2>4. CASE /\ h.session = "initializing"
             /\ host' = [host EXCEPT ![c] = [host[c] EXCEPT !.session = "ready"]]
             /\ ext' = [ext EXCEPT ![c] = [ext[c] EXCEPT !.stdout = Tail(@)]]
             /\ UNCHANGED <<status, flowVars, got>>
    <3>1. h2.session = "ready"
      BY <1>1, <1>2, <2>3, <2>4 DEF Hosts
    <3>2. e2.last_id = e.last_id
      BY <1>1, <1>2, <1>3, <2>3, <2>4 DEF Exts
    <3>3. /\ \A i \in 1..Len(e2.stdout) : Pulls(e2.stdout[i], h2, e2, n, rows)
          /\ \A i \in 1..Len(e2.working) : Pulls(e2.working[i], h2, e2, n, rows)
      BY <3>1, NothingPulled
    <3>4. Drawn(h, e, n, rows) => Drawn(h2, e2, n, rows)
      BY <2>4, <3>1, <3>2, <3>3 DEF Drawn
    <3>. QED BY <1>6, <1>7, <1>9, <2>1, <2>3, <2>4, <3>4 DEF flowVars
  <2>5. PICK line : line = Head(e.stdout)
    OBVIOUS
  <2>6. CASE /\ h.session = "calling" /\ e.stdout # <<>> /\ line.id = Cur(h) /\ line.ok
             /\ host' = [host EXCEPT ![c] = [host[c] EXCEPT !.session = "ready", !.holder = None]]
             /\ ext' = [ext EXCEPT ![c] = [ext[c] EXCEPT !.stdout = Tail(@)]]
             /\ Succeeded(op, line.value)
    <3>1. h2.session = "ready"
      BY <1>1, <1>2, <2>3, <2>6 DEF Hosts
    <3>2. e2.last_id = e.last_id /\ e2.child = e.child
      BY <1>1, <1>2, <1>3, <2>3, <2>6 DEF Exts
    <3>3. \A m : /\ \A i \in 1..Len(e2.stdout) : Pulls(e2.stdout[i], h2, e2, m, rows)
                /\ \A i \in 1..Len(e2.working) : Pulls(e2.working[i], h2, e2, m, rows)
      BY <3>1, NothingPulled
    <3>4. ASSUME NEW m, e.child = "alive" => e.last_id = m PROVE Drawn(h2, e2, m, rows)
      BY <3>1, <3>2, <3>3, <3>4 DEF Drawn
    <3>5. /\ line \in Lines /\ Answers(h, line, applied, read) /\ Cur(h) \in 1..IDS
      <4>1. h.session \in {"initializing", "calling"} /\ e.stdout # <<>> /\ Head(e.stdout).id = Cur(h)
        BY <2>5, <2>6
      <4>2. Head(e.stdout) \in Lines
        BY <1>3, <4>1, GoodLine
      <4>3. Answers(h, Head(e.stdout), applied, read)
        BY <1>3, <4>1, GoodLine
      <4>4. Cur(h) \in 1..IDS
        BY <1>3, Clientele DEF Cur, Hosts
      <4>. QED BY <2>5, <4>2, <4>3, <4>4
    <3>6. status' = [status EXCEPT ![op] = "ok"] /\ op \in Ops /\ status[op] = "calling" /\ op \in {"start", "pull", "stop"}
      BY <1>5, <2>1, <2>6 DEF Succeeded
    <3>7. status'["stop"] # "error" => status["stop"] # "error"
      BY <1>1, <1>2, <3>6
    <3>8. CASE op = "stop"
      <4>1. emitted' \o buffered' = out /\ stream' = stream
        BY <1>7, <2>6, <3>8 DEF Succeeded
      <4>2. Drawn(h, e, n, rows) => Drawn(h2, e2, n, rows)
        BY <1>4, <2>6, <3>4, <3>8 DEF Drawn
      <4>. QED BY <1>6, <1>9, <2>1, <2>3, <3>7, <4>1, <4>2
    <3>9. CASE op = "start"
      <4>1. stream = "closed" /\ emitted = <<>> /\ buffered = <<>> /\ e.last_id = 0
        BY <1>0, <1>3, <3>6, <3>9 DEF Streaming
      <4>2. emitted' \o buffered' = out /\ out = <<>> /\ n = 0
        <5>1. emitted' = emitted /\ buffered' = buffered
          BY <2>6, <3>9 DEF Succeeded
        <5>2. emitted \o buffered = <<>>
          BY <1>2, <4>1, ConcatEmptySeq
        <5>. QED BY <1>7, <5>1, <5>2, EmptySeq
      <4>3. Drawn(h2, e2, n, rows)
        BY <3>4, <4>1, <4>2
      <4>4. Follows(out, 0, rows)
        BY <1>7, <4>2, LenProperties DEF Follows
      <4>. QED BY <1>0, <1>6, <1>7, <2>1, <2>3, <4>2, <4>3, <4>4 DEF Rows
    <3>10. CASE op = "pull"
      <4>1. stream = "open" /\ buffered = <<>> /\ stream' = stream /\ emitted' = emitted
        BY <2>6, <3>6, <3>10 DEF Streaming, Succeeded
      <4>2. PICK value \in Batches, r \in Seq(Publishes) : value = line.value /\ r = value.records
        BY <1>4, <2>6, <3>5, <3>10 DEF Answers, Batches
      <4>3. r = <<>> \/ buffered' = r
        BY <2>6, <3>10, <4>2 DEF Succeeded
      <4>4. buffered' = r
        <5>1. r = <<>> => buffered' = <<>>
          BY <2>6, <3>10, <4>1, <4>2 DEF Succeeded
        <5>. QED BY <4>3, <5>1
      <4>5. emitted = out /\ Len(emitted) = n
        BY <1>2, <1>7, <4>1, ConcatEmptySeq
      <4>6. /\ out \o r \in Seq(Publishes) /\ Len(out \o r) = n + Len(r) /\ Len(r) \in Nat
            /\ \A i \in 1..(n + Len(r)) : (out \o r)[i] = IF i <= n THEN out[i] ELSE r[i - n]
        BY <1>7, ConcatProperties, LenProperties
      <4>7. ASSUME Follows(out, 0, rows), Drawn(h, e, n, rows)
            PROVE  Follows(out \o r, 0, rows) /\ Drawn(h2, e2, Len(out \o r), rows)
        <5>1. Pulls(line, h, e, n, rows)
          <6>1. PICK q \in Seq(Lines) : q = e.stdout
            BY <1>3 DEF Exts
          <6>2. 1 \in 1..Len(q) /\ q[1] = Head(q)
            BY <2>6, <6>1, HeadTailProperties, LenProperties
          <6>. QED BY <2>5, <4>7, <6>1, <6>2 DEF Drawn
        <5>2. line.id # 0 /\ line.ok /\ h.session = "calling" /\ h.holder = "pull"
          BY <1>4, <2>6, <3>5, <3>10
        <5>3. Follows(r, n, rows) /\ (e.child = "alive" => e.last_id = n + Len(r))
          BY <4>2, <5>1, <5>2 DEF Pulls
        <5>4. Follows(out \o r, 0, rows)
          <6>1. PICK l \in Nat : l = Len(r)
            BY <4>6
          <6>2. n + l <= Len(rows) /\ \A i \in 1..l : r[i] = rows[n + i]
            BY <5>3, <6>1 DEF Follows
          <6>3. \A i \in 1..n : out[i] = rows[0 + i] /\ 0 + i = i
            BY <1>7, <4>7 DEF Follows
          <6>4. ASSUME NEW i \in 1..(n + l) PROVE (out \o r)[i] = rows[0 + i]
            <7>1. CASE i <= n
              BY <4>6, <6>1, <6>3, <7>1
            <7>2. CASE ~(i <= n)
              <8>1. i - n \in 1..l /\ n + (i - n) = i /\ 0 + i = i
                BY <7>2
              <8>2. (out \o r)[i] = r[i - n]
                BY <4>6, <6>1, <7>2
              <8>3. r[i - n] = rows[n + (i - n)]
                BY <6>2, <8>1
              <8>. QED BY <8>1, <8>2, <8>3
            <7>. QED BY <7>1, <7>2
          <6>5. Len(out \o r) = n + l /\ 0 + (n + l) = n + l
            BY <4>6, <6>1
          <6>. QED BY <6>2, <6>4, <6>5 DEF Follows
        <5>5. Drawn(h2, e2, Len(out \o r), rows)
          BY <3>4, <4>6, <5>3
        <5>. QED BY <5>4, <5>5
      <4>8. emitted' \o buffered' = out \o r
        BY <4>1, <4>4, <4>5
      <4>. QED BY <1>0, <1>6, <1>8, <2>1, <2>3, <3>7, <4>1, <4>7, <4>8 DEF Rows
    <3>. QED BY <3>6, <3>8, <3>9, <3>10
  <2>. QED BY <1>1, <1>3, <1>4, <1>16, <2>2, <2>4, <2>5, <2>6, RequestCases
<1>. QED BY <1>0, <1>11, <1>12, <1>13, <1>14, <1>15, <1>16 DEF HostStep

\* No other step touches what was drawn: the stream yields its buffer, a caller waits, a
\* row is published.
LEMMA RowsStep ==
  ASSUME CInv, Streaming, Rows, [Next]_vars
  PROVE  Rows'
<1>1. TypeOK /\ InOrder /\ "pull" \in Ops /\ "start" \in Ops /\ "stop" \in Ops /\ "flow" \in Clients
  BY DEF CInv, Ops, FlowOps, Clients
<1>2. status \in [Ops -> Places] /\ host \in [Clients -> Hosts] /\ emitted \in Seq(Publishes) /\ buffered \in Seq(Publishes)
  BY <1>1 DEF TypeOK
<1>3. ASSUME NEW h, NEW h2, NEW e, NEW n, NEW rows, h2.session = h.session, h2.holder = h.holder, Drawn(h, e, n, rows)
      PROVE  Drawn(h2, e, n, rows)
  BY <1>3 DEF Drawn, Pulls
<1>4. ASSUME UNCHANGED <<ext, log, emitted, buffered>>, stream' \in {stream, "ended"},
             status'["stop"] # "error" => status["stop"] # "error",
             host'["flow"].session = host["flow"].session, host'["flow"].holder = host["flow"].holder
      PROVE  Rows'
  BY <1>3, <1>4 DEF Rows
<1>5. ASSUME NEW op \in Ops, Ask(op)
      PROVE  /\ host'["flow"].session = host["flow"].session /\ host'["flow"].holder = host["flow"].holder
             /\ op # "stop" => status'["stop"] = status["stop"]
  <2>1. Client(op) \in Clients
    BY Clientele
  <2>2. host' = [host EXCEPT ![Client(op)] = [host[Client(op)] EXCEPT !.waiting = Append(@, op)]]
    BY <1>2, <1>5, <2>1 DEF Ask
  <2>3. host["flow"] \in Hosts
    BY <1>1, <1>2
  <2>4. CASE Client(op) = "flow"
    BY <1>1, <1>2, <1>5, <2>2, <2>3, <2>4 DEF Hosts, Ask
  <2>5. CASE Client(op) # "flow"
    BY <1>1, <1>2, <1>5, <2>2, <2>5 DEF Ask
  <2>. QED BY <2>4, <2>5
<1>6. CASE UNCHANGED vars
  BY <1>6 DEF vars, flowVars, dataVars, Rows
<1>7. CASE \E c \in Clients : HostStep(c) \/ handle(c) \/ respond(c) \/ Crash(c) \/ PrintsStray(c)
  <2>1. PICK c \in Clients : HostStep(c) \/ handle(c) \/ respond(c) \/ Crash(c) \/ PrintsStray(c)
    BY <1>7
  <2>2. CASE c = "flow"
    BY <2>1, <2>2, RowsClient
  <2>3. CASE c # "flow"
    <3>1. /\ UNCHANGED flowVars /\ host'["flow"] = host["flow"] /\ ext'["flow"] = ext["flow"] /\ status'["stop"] = status["stop"]
          /\ log'["bus"] = log["bus"] \/ \E x \in Publishes : log'["bus"] = Append(log["bus"], x)
      BY <2>1, <2>3, OtherClients DEF FlowOps
    <3>2. CASE log'["bus"] = log["bus"]
      BY <3>1, <3>2 DEF Rows, flowVars
    <3>3. CASE \E x \in Publishes : log'["bus"] = Append(log["bus"], x)
      <4>1. PICK x \in Publishes : log'["bus"] = Append(log["bus"], x)
        BY <3>3
      <4>2. PICK rows \in Seq(Publishes) : rows = log["bus"]
        BY <1>1 DEF TypeOK
      <4>3. PICK out \in Seq(Publishes), n \in Nat : out = emitted \o buffered /\ n = Len(out)
        BY <1>2, ConcatProperties, LenProperties
      <4>4. PICK h, e : h = host["flow"] /\ e = ext["flow"]
        OBVIOUS
      <4>5. Good("flow", h, e, status, applied, read)
        BY <1>1, <4>4 DEF InOrder
      <4>6. /\ h.session \in Sessions /\ e \in Exts
            /\ h.session = "calling" /\ h.holder = "pull" =>
               /\ \A i \in 1..Len(e.working) : e.working[i].id # 0 /\ e.working[i].ok => e.working[i].value \in Batches
               /\ \A i \in 1..Len(e.stdout) : e.stdout[i].id # 0 /\ e.stdout[i].ok => e.stdout[i].value \in Batches
        BY <4>5, PullAnswers
      <4>7. Follows(out, 0, rows) => Follows(out, 0, Append(rows, x))
        <5>1. 0 \in Nat
          OBVIOUS
        <5>. QED BY <4>6, <5>1, RowsGrow
      <4>8. Drawn(h, e, n, rows) => Drawn(h, e, n, Append(rows, x))
        BY <4>6, RowsGrow
      <4>. QED BY <3>1, <4>1, <4>2, <4>3, <4>4, <4>7, <4>8 DEF Rows, flowVars
    <3>. QED BY <3>1, <3>2, <3>3
  <2>. QED BY <2>2, <2>3
<1>8. CASE \E op \in Calls : Invoke(op)
  <2>1. PICK op \in Calls : Invoke(op)
    BY <1>8
  <2>2. op \in Ops /\ op # "stop" /\ Ask(op) /\ UNCHANGED <<ext, log, flowVars>>
    BY <2>1, Clientele DEF Invoke, FlowOps
  <2>. QED BY <1>4, <1>5, <2>2 DEF flowVars
<1>9. CASE start
  <2>1. Ask("start") /\ UNCHANGED <<ext, log, flowVars>>
    BY <1>9 DEF start
  <2>. QED BY <1>1, <1>4, <1>5, <2>1 DEF flowVars
<1>10. CASE stop
  <2>1. Ask("stop") /\ UNCHANGED <<ext, log, stream, buffered, emitted>> /\ serving = "running"
    BY <1>10 DEF stop
  <2>2. status["stop"] = "idle"
    BY <2>1 DEF Streaming
  <2>. QED BY <1>1, <1>4, <1>5, <2>1, <2>2
<1>11. CASE serve_returns
  BY <1>4, <1>11 DEF serve_returns, dataVars
<1>12. CASE next_record
  <2>1. UNCHANGED <<ext, log>>
    BY <1>12 DEF next_record
  <2>2. CASE buffered = <<>> /\ Ask("pull") /\ UNCHANGED <<emitted, buffered, stream>>
    BY <1>1, <1>4, <1>5, <2>1, <2>2
  <2>3. CASE stream' = "ended" /\ UNCHANGED <<status, host, applied, emitted, buffered>>
    BY <1>4, <2>1, <2>3
  <2>4. CASE buffered # <<>> /\ emitted' = Append(emitted, Head(buffered)) /\ buffered' = Tail(buffered) /\ UNCHANGED <<status, host, applied, stream>>
    <3>1. emitted' \o buffered' = emitted \o buffered
      BY <1>2, <2>4, Yielded
    <3>. QED BY <2>1, <2>4, <3>1 DEF Rows
  <2>. QED BY <1>12, <2>2, <2>3, <2>4 DEF next_record
<1>. QED BY <1>6, <1>7, <1>8, <1>9, <1>10, <1>11, <1>12 DEF Next

\* The first state has drawn nothing.
LEMMA RowsStart ==
  ASSUME Init PROVE Rows
<1>1. TypeOK /\ "flow" \in Clients
  BY Start DEF CInv, Clients
<1>2. NoProcess.last_id = 0 /\ NoProcess.working = <<>> /\ NoProcess.stdout = <<>>
  BY NothingRuns
<1>3. host["flow"] = NoClient /\ ext["flow"] = NoProcess /\ NoClient.session = "none"
  BY <1>1 DEF Init, NoClient
<1>4. PICK out \in Seq(Publishes) : out = emitted \o buffered /\ Len(out) = 0
  <2>1. emitted = <<>> /\ buffered = <<>>
    BY DEF Init
  <2>2. <<>> \in Seq(Publishes) /\ Len(<<>>) = 0
    BY EmptySeq
  <2>. QED BY <2>1, <2>2, ConcatEmptySeq
<1>5. PICK rows \in Seq(Publishes) : rows = log["bus"] /\ Len(rows) \in Nat
  BY <1>1, LenProperties DEF TypeOK
<1>6. Follows(out, 0, rows)
  BY <1>4, <1>5 DEF Follows
<1>7. Drawn(NoClient, NoProcess, 0, rows)
  BY <1>2, <1>3 DEF Drawn
<1>. QED BY <1>3, <1>4, <1>5, <1>6, <1>7 DEF Rows

\* The inductive invariant: with the clients, the stream and the rows.
IInv == CInv /\ Streaming /\ Rows

\* The invariant holds in every state.
THEOREM Invariance == Spec => []IInv
<1>1. Init => IInv
  BY Start, RowsStart DEF IInv
<1>2. IInv /\ [Next]_vars => IInv'
  BY Step, RowsStep DEF IInv
<1>. QED BY <1>1, <1>2, PTL DEF Spec

\* stdio_extensions.rs, sqlite: a stream yields the rows of the bus in order, without a
\* gap and none twice, whatever the process, the shutdown and the faults do, until the
\* stop of its trigger fails.
THEOREM StreamIsInOrder == Spec => []RowsInOrder
<1>1. IInv => RowsInOrder
  <2> SUFFICES ASSUME IInv, status["stop"] # "error" PROVE RowsInOrder
    BY DEF RowsInOrder
  <2>1. TypeOK /\ Rows
    BY DEF IInv, CInv
  <2>2. PICK out \in Seq(Publishes), n \in Nat : out = emitted \o buffered /\ n = Len(out)
    BY <2>1, ConcatProperties, LenProperties DEF TypeOK
  <2>3. PICK rows \in Seq(Publishes) : rows = log["bus"] /\ Len(rows) \in Nat
    BY <2>1, LenProperties DEF TypeOK
  <2>4. Follows(out, 0, rows) /\ (stream = "open" => Drawn(host["flow"], ext["flow"], n, rows))
    BY <2>1, <2>2, <2>3 DEF Rows
  <2>5. n <= Len(rows) /\ \A i \in 1..n : out[i] = rows[i]
    <3>1. \A i \in 1..n : 0 + i = i
      OBVIOUS
    <3>2. 0 + n = n
      OBVIOUS
    <3>. QED BY <2>2, <2>4, <3>1, <3>2 DEF Follows
  <2>6. IsPrefix(out, rows)
    <3>1. PICK one \in Int : one = 1
      OBVIOUS
    <3>2. (\A i \in one..n : out[i] \in Publishes) /\ (\A i \in one..n : rows[i] \in Publishes)
      BY <2>2, <2>3, <2>5, <3>1
    <3>3. /\ SubSeq(out, one, n) \in Seq(Publishes) /\ Len(SubSeq(out, one, n)) = (IF one <= n THEN n - one + 1 ELSE 0)
          /\ \A i \in 1..(n - one + 1) : SubSeq(out, one, n)[i] = out[one + i - 1]
      BY <3>2, SubSeqProperties
    <3>4. /\ SubSeq(rows, one, n) \in Seq(Publishes) /\ Len(SubSeq(rows, one, n)) = (IF one <= n THEN n - one + 1 ELSE 0)
          /\ \A i \in 1..(n - one + 1) : SubSeq(rows, one, n)[i] = rows[one + i - 1]
      BY <3>2, SubSeqProperties
    <3>5. Len(SubSeq(out, one, n)) = n /\ n - one + 1 = n
      BY <3>1, <3>3
    <3>6. \A i \in 1..n : one + i - 1 = i
      BY <3>1
    <3>7. SubSeq(out, one, n) = SubSeq(rows, one, n)
      BY <2>5, <3>3, <3>4, <3>5, <3>6, SeqEqual
    <3>. QED BY <2>2, <2>5, <3>1, <3>7 DEF IsPrefix
  <2>7. stream = "open" /\ host["flow"].session = "ready" /\ ext["flow"].child = "alive" => ext["flow"].last_id = n
    BY <2>4 DEF Drawn
  <2>. QED BY <2>2, <2>3, <2>6, <2>7 DEF RowsInOrder
<1>. QED BY <1>1, Invariance, PTL
=============================================================================
