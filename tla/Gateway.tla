------------------------------ MODULE Gateway -------------------------------
(***************************************************************************)
(* The plane's gateway (sohara-plane gateway.rs): requests from outside    *)
(* are matched to a route by the longest prefix of their path; a route     *)
(* hands them to the relay or forwards them to the triggers of the         *)
(* instances of its flow group, in the order of its strategy, the second   *)
(* one when the first fails.  Route, targets and answer are read under     *)
(* three different locks or none, while routes are declared and removed,   *)
(* instances die, start and are reported.                                  *)
(*                                                                         *)
(* A path is a sequence of segments.  The iteration order of the plane's   *)
(* hash map of instances is a variable, which an insertion may change.     *)
(* Header and body are passed through and left out.                        *)
(***************************************************************************)
EXTENDS Integers, Sequences, FiniteSets, SequencesExt, FiniteSetsExt

CONSTANTS
  Requests,
  Instances,
  FlowOf,       \* per instance, its flow group
  Keys,         \* values of the sticky header
  Asks,         \* what a request may ask for: its path and its sticky header or None
  HashOrder,    \* per key, per instance: the hash of both
  RouteIds,
  RouteDecls,   \* routes that may be declared: path, flow_id, mode, hash, sticky_key, topic
  Routes,       \* per route id, its declaration in the plane's file, or None
  Initially,    \* instances declared, running and reported at first
  None,
  MaxChanges,   \* bound: declarations and removals of routes and instances
  MaxHealth     \* bound: instances that die or start

\* Answers of the gateway itself.
Statuses == {"202", "400", "404", "502", "503"}

ASSUME GatewayAssumption ==
  /\ IsFiniteSet(Instances) /\ Instances \cap Statuses = {}
  /\ None \notin Keys \cup RouteDecls \cup Instances /\ None \notin Statuses
  /\ \A decl \in RouteDecls : {decl.topic, decl.hash, decl.sticky_key} \subseteq BOOLEAN
  /\ Asks \subseteq [path : Seq(STRING) \ {<<>>}, key : Keys \cup {None}]
  /\ Routes \in [RouteIds -> RouteDecls \cup {None}]
  /\ HashOrder \in [Keys -> [Instances -> Nat]]
  /\ \A k \in Keys : IsInjective(HashOrder[k])
  /\ Initially \subseteq Instances
  /\ {MaxChanges, MaxHealth} \subseteq Nat

VARIABLES
  routes,       \* plane: per route id, its declaration or None
  instances,    \* plane: instances declared
  iteration,    \* plane: per instance, its place in the order the map of instances is walked
  actual,       \* plane: instances last reported as running, with a trigger
  round_robin,  \* plane: per route id, its counter
  up,           \* instances that run
  pc,           \* per request: "idle", "found", "forward", "waiting" or "answered"
  asks,         \* per request, what it asks for
  request,      \* per request: the route found, the targets, the failures so far
  sent,         \* requests on their way to an instance, or in its hands
  handled,      \* pairs of a request and an instance that has handled it
  replies,      \* answers of instances on their way to the gateway
  answer,       \* per request: a status, or the instance whose answer was passed on
  mailbox,      \* requests put into the relay
  picks,        \* the selections made so far
  changes, health   \* what the bounds count

registryVars == <<routes, instances, iteration, changes>>
instanceVars == <<up, actual, health>>
flightVars == <<sent, handled, replies>>
vars == <<registryVars, instanceVars, flightVars, round_robin, pc, asks, request, answer, mailbox, picks>>

NoRequest == [id |-> None, route |-> None, targets |-> <<>>, failures |-> 0]

Goto(r, where) == pc' = [pc EXCEPT ![r] = where]

\* The request ends with a status of the gateway or with an instance's answer.
Respond(r, status) == Goto(r, "answered") /\ answer' = [answer EXCEPT ![r] = status]

-----------------------------------------------------------------------------
(* Looking up the route. *)

\* A route whose prefix is empty matches no path: paths are never empty.
Matches(path) ==
  {id \in RouteIds : /\ routes[id] # None
                     /\ routes[id].path # <<>> /\ IsPrefix(routes[id].path, path)}

\* Of two routes with the same path the hash map decides.
find_route(path) ==
  {id \in Matches(path) : \A other \in Matches(path) :
                             Len(routes[other].path) <= Len(routes[id].path)}

\* A request arrives; the route is copied out of the registry, which is then unlocked.
gateway(r) ==
  /\ pc[r] = "idle"
  /\ \/ /\ find_route(asks[r].path) = {}
        /\ Respond(r, "404")
        /\ UNCHANGED request
     \/ /\ \E id \in find_route(asks[r].path) :
             request' = [request EXCEPT ![r].id = id, ![r].route = routes[id]]
        /\ Goto(r, "found")
        /\ UNCHANGED answer
  /\ UNCHANGED <<asks, registryVars, instanceVars, flightVars, round_robin, mailbox, picks>>

\* A route of mode bus: the body goes to the relay's mailbox of the topic.
bus_dispatch(r) ==
  /\ pc[r] = "found" /\ request[r].route.mode = "bus"
  /\ IF request[r].route.topic
     THEN mailbox' = mailbox \cup {r} /\ Respond(r, "202")
     ELSE mailbox' = mailbox /\ Respond(r, "400")
  /\ UNCHANGED <<asks, registryVars, instanceVars, flightVars, round_robin, request, picks>>

-----------------------------------------------------------------------------
(* Selecting the targets, under one lock of the registry. *)

\* The orders a walk through the map of instances may have.
Orders == Injection(Instances, 1..Cardinality(Instances))

\* The members of a set, by a number each has: its n-th has n - 1 before it.
Ordered(S, number) ==
  [n \in 1..Cardinality(S) |-> CHOOSE i \in S : Cardinality({j \in S : number[j] < number[i]}) = n - 1]

running_targets(route) ==
  Ordered({i \in instances \cap actual : FlowOf[i] = route.flow_id}, iteration)

\* rotate_left by the counter of the route.
Rotated(s, counter) ==
  [n \in 1..Len(s) |-> s[((n - 1 + counter) % Len(s)) + 1]]

HashKey(r) == IF request[r].route.sticky_key THEN asks[r].key ELSE None

Hashed(r) == request[r].route.hash /\ HashKey(r) # None

\* Mutant: the key chooses a position instead of an instance.
order_by_position(r, targets) ==
  Rotated(targets, IF Hashed(r) THEN HashOrder[HashKey(r)][CHOOSE i \in Instances : TRUE]
                                ELSE round_robin[request[r].id])

order_targets(r, targets) ==
  IF Hashed(r)
  THEN Ordered(Range(targets), HashOrder[HashKey(r)])
  ELSE Rotated(targets, round_robin[request[r].id])

\* Mutant: a request with the header does not count, whether or not the route hashes it.
CountsKeyless(r) ==
  IF asks[r].key # None THEN round_robin ELSE [round_robin EXCEPT ![request[r].id] = @ + 1]

Counts(r) ==
  IF Hashed(r) THEN round_robin ELSE [round_robin EXCEPT ![request[r].id] = @ + 1]

Pick(r, targets, ordered) ==
  [id |-> request[r].id, key |-> IF Hashed(r) THEN HashKey(r) ELSE None,
   from |-> Range(targets), first |-> ordered[1], epoch |-> changes]

\* proxy_request up to the first forward.
select_targets(r) ==
  /\ pc[r] = "found" /\ request[r].route.mode = "proxy"
  /\ LET targets == running_targets(request[r].route) IN
     \/ /\ targets = <<>>
        /\ Respond(r, "503")
        /\ UNCHANGED <<round_robin, request, picks>>
     \/ /\ targets # <<>>
        /\ LET ordered == order_targets(r, targets) IN
           /\ request' = [request EXCEPT ![r].targets = ordered]
           /\ picks' = Append(picks, Pick(r, targets, ordered))
        /\ round_robin' = Counts(r)
        /\ Goto(r, "forward")
        /\ UNCHANGED answer
  /\ UNCHANGED <<asks, registryVars, instanceVars, flightVars, mailbox>>

-----------------------------------------------------------------------------
(* Forwarding, with no lock held. *)

\* Mutant: every target is tried.
AllCandidates(r) == Len(request[r].targets)

Candidates(r) == Min({2, Len(request[r].targets)})
Target(r) == request[r].targets[request[r].failures + 1]

forward_once(r) ==
  /\ pc[r] = "forward"
  /\ sent' = sent \cup {<<r, Target(r)>>}
  /\ Goto(r, "waiting")
  /\ UNCHANGED <<asks, registryVars, instanceVars, round_robin, request, handled, replies, answer,
                 mailbox, picks>>

\* Whatever status the instance answers with is passed on.
PassOn(r) ==
  /\ pc[r] = "waiting" /\ <<r, Target(r)>> \in replies
  /\ replies' = replies \ {<<r, Target(r)>>}
  /\ Respond(r, Target(r))
  /\ UNCHANGED <<asks, registryVars, instanceVars, round_robin, request, sent, handled, mailbox, picks>>

\* forward_once returned an error: on to the second candidate, or 502.
Fails(r) ==
  /\ request' = [request EXCEPT ![r].failures = @ + 1]
  /\ IF request[r].failures + 1 < Candidates(r)
     THEN Goto(r, "forward") /\ UNCHANGED answer
     ELSE Respond(r, "502")

\* Nobody listens at the address, or the instance died with the connection open.
Refused(r) ==
  /\ pc[r] = "waiting"
  /\ <<r, Target(r)>> \notin replies
  /\ \/ Target(r) \notin up
     \/ <<r, Target(r)>> \notin sent
  /\ sent' = sent \ {<<r, Target(r)>>}
  /\ Fails(r)
  /\ UNCHANGED <<asks, registryVars, instanceVars, round_robin, handled, replies, mailbox, picks>>

\* Five seconds passed: the instance may have handled the request, or may yet do so.
TimesOut(r) ==
  /\ pc[r] = "waiting"
  /\ replies' = replies \ {<<r, Target(r)>>}
  /\ Fails(r)
  /\ UNCHANGED <<asks, registryVars, instanceVars, round_robin, sent, handled, mailbox, picks>>

\* The instance's http trigger handles the request, and answers if somebody waits.
Handles(r, i) ==
  /\ <<r, i>> \in sent /\ i \in up
  /\ sent' = sent \ {<<r, i>>}
  /\ handled' = handled \cup {<<r, i>>}
  /\ replies' = IF pc[r] = "waiting" /\ Target(r) = i THEN replies \cup {<<r, i>>} ELSE replies
  /\ UNCHANGED <<asks, registryVars, instanceVars, round_robin, pc, request, answer, mailbox, picks>>

-----------------------------------------------------------------------------
(* What changes meanwhile. *)

routeFree == <<asks, instances, iteration, instanceVars, flightVars, round_robin, pc, request, answer,
               mailbox, picks>>

declare_route(id, decl) ==
  /\ changes < MaxChanges /\ changes' = changes + 1
  /\ routes[id] # decl
  /\ routes' = [routes EXCEPT ![id] = decl]
  /\ UNCHANGED routeFree

\* The counter of the route stays.
remove_route(id) ==
  /\ changes < MaxChanges /\ changes' = changes + 1
  /\ routes[id] # None
  /\ routes' = [routes EXCEPT ![id] = None]
  /\ UNCHANGED routeFree

instanceFree == <<asks, routes, instanceVars, flightVars, round_robin, pc, request, answer, mailbox, picks>>

\* An insertion may move every entry of the map.
declare_instance(i) ==
  /\ changes < MaxChanges /\ changes' = changes + 1
  /\ i \notin instances
  /\ instances' = instances \cup {i}
  /\ iteration' \in Orders
  /\ UNCHANGED instanceFree

remove_instance(i) ==
  /\ changes < MaxChanges /\ changes' = changes + 1
  /\ i \in instances
  /\ instances' = instances \ {i}
  /\ UNCHANGED <<instanceFree, iteration>>

reportFree == <<asks, registryVars, round_robin, pc, request, handled, answer, mailbox, picks>>

\* A heartbeat; of a node whose agent is gone the last report stays.
heartbeat(i) ==
  /\ (i \in up) # (i \in actual)
  /\ actual' = IF i \in up THEN actual \cup {i} ELSE actual \ {i}
  /\ UNCHANGED <<reportFree, sent, replies, up, health>>

Dies(i) ==
  /\ health < MaxHealth /\ health' = health + 1
  /\ i \in up
  /\ up' = up \ {i}
  /\ sent' = {m \in sent : m[2] # i}
  /\ replies' = {m \in replies : m[2] # i}
  /\ UNCHANGED <<reportFree, actual>>

Starts(i) ==
  /\ health < MaxHealth /\ health' = health + 1
  /\ i \notin up
  /\ up' = up \cup {i}
  /\ UNCHANGED <<reportFree, sent, replies, actual>>

-----------------------------------------------------------------------------
Init ==
  /\ routes = Routes
  /\ instances = Initially /\ up = Initially /\ actual = Initially
  /\ iteration = CHOOSE order \in Orders : TRUE
  /\ round_robin = [id \in RouteIds |-> 0]
  /\ pc = [r \in Requests |-> "idle"]
  /\ asks \in [Requests -> Asks]
  /\ request = [r \in Requests |-> NoRequest]
  /\ answer = [r \in Requests |-> None]
  /\ sent = {} /\ handled = {} /\ replies = {} /\ mailbox = {}
  /\ picks = <<>>
  /\ changes = 0 /\ health = 0

\* A step of the task that serves the request.
Serves(r) ==
  \/ bus_dispatch(r) \/ select_targets(r) \/ forward_once(r)
  \/ PassOn(r) \/ Refused(r) \/ TimesOut(r)

Next ==
  \/ \E r \in Requests : gateway(r) \/ Serves(r) \/ \E i \in Instances : Handles(r, i)
  \/ \E id \in RouteIds : remove_route(id) \/ \E decl \in RouteDecls : declare_route(id, decl)
  \/ \E i \in Instances :
       declare_instance(i) \/ remove_instance(i) \/ heartbeat(i) \/ Dies(i) \/ Starts(i)

Spec == Init /\ [][Next]_vars

-----------------------------------------------------------------------------
(* Properties. *)

By(r) == {i \in Instances : <<r, i>> \in handled}
On(r) == By(r) \cup {i \in Instances : <<r, i>> \in sent}

\* What the caller is told is what happened to the request, whatever routes and
\* instances did meanwhile: an answer passed on comes from an instance of the
\* route's flow that did handle the request; 404, 400, 503 and 202 mean that no
\* instance has it or ever will, and 202 that the relay has it; a request reaches
\* a second instance only when the first one's answer was given up, and never a
\* third (gateway, proxy_request, forward_once).
AnswersTruthful ==
  \A r \in Requests :
    /\ answer[r] \in Instances =>
         answer[r] \in By(r) /\ FlowOf[answer[r]] = request[r].route.flow_id
    /\ answer[r] \in {"404", "400", "503", "202"} => On(r) = {}
    /\ (answer[r] = "202") = (r \in mailbox)
    /\ Cardinality(On(r)) <= 2
    /\ Cardinality(On(r)) = 2 => request[r].failures > 0

\* Selections of one route without a key, from the same targets and with no
\* declaration in between, go round: until every target has been first, none is
\* first twice, although other routes and hashed requests select in between
\* (order_targets, its counter per route).
SelectionSpreads ==
  \A m, n \in 1..Len(picks) :
    LET between == {k \in m..n : picks[k].id = picks[m].id /\ picks[k].key = None}
        size == Cardinality(picks[m].from)
    IN  m < n /\ {m, n} \subseteq between /\ Cardinality(between) <= size
          /\ (\A k \in between : picks[k].from = picks[m].from /\ picks[k].epoch = picks[m].epoch)
        => picks[m].first # picks[n].first

\* A key moves only when it must: of two hashed selections with the same key, if
\* each one's first target was open to the other, they are the same, whatever
\* instances joined or left (order_targets, hash_key_order).
KeyKeepsTarget ==
  \A m, n \in 1..Len(picks) :
    picks[m].key # None /\ picks[m].key = picks[n].key
      /\ picks[m].first \in picks[n].from /\ picks[n].first \in picks[m].from
    => picks[m].first = picks[n].first
=============================================================================
