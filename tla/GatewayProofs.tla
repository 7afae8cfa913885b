---------------------------- MODULE GatewayProofs ---------------------------
(***************************************************************************)
(* For any requests, routes and instances, whatever is declared, removed,  *)
(* dies or times out meanwhile: what callers are told is what happened to  *)
(* their requests, a sticky key keeps its instance, and round robin goes   *)
(* round.                                                                  *)
(***************************************************************************)
EXTENDS Gateway, FiniteSetTheorems, TLAPS

-----------------------------------------------------------------------------
(* The inductive invariant. *)

Places == {"idle", "found", "forward", "waiting", "answered"}
Served == [id : RouteIds \cup {None}, route : RouteDecls \cup {None}, targets : Seq(Instances), failures : Nat]
Picks == [id : RouteIds, key : Keys \cup {None}, from : SUBSET Instances, first : Instances, epoch : Nat]

TypeOK ==
  /\ routes \in [RouteIds -> RouteDecls \cup {None}]
  /\ instances \subseteq Instances /\ actual \subseteq Instances /\ iteration \in Orders
  /\ round_robin \in [RouteIds -> Nat]
  /\ pc \in [Requests -> Places] /\ asks \in [Requests -> Asks]
  /\ request \in [Requests -> Served]
  /\ answer \in [Requests -> Instances \cup Statuses \cup {None}]
  /\ sent \subseteq Requests \X Instances /\ handled \subseteq Requests \X Instances
  /\ replies \subseteq handled /\ mailbox \subseteq Requests
  /\ picks \in Seq(Picks) /\ changes \in Nat

\* How many of its targets a request has been sent to.
Tried(place, served, status) ==
  served.failures + IF place = "waiting" \/ status \in Instances THEN 1 ELSE 0

\* A request has a route, targets and an answer where it needs them, is sent to none but
\* the first Tried of its targets, and to none at all if it was answered before it had any.
Sound(place, served, status, on, by, mailed) ==
  /\ place = "found" => served.id \in RouteIds /\ served.route \in RouteDecls
  /\ place # "answered" => status = None
  /\ place \in {"idle", "found"} => served.targets = <<>> /\ served.failures = 0
  /\ status \in Statuses \ {"502"} => served.targets = <<>>
  /\ place \in {"forward", "waiting"} => served.failures < 2 /\ served.failures < Len(served.targets)
  /\ Tried(place, served, status) <= 2
  /\ \A i \in on : \E k \in 1..Len(served.targets) :
       k <= Tried(place, served, status) /\ served.targets[k] = i
  /\ \A k \in 1..Len(served.targets) : FlowOf[served.targets[k]] = served.route.flow_id
  /\ status \in Instances => status \in by /\ FlowOf[status] = served.route.flow_id
  /\ (status = "202") = mailed
ServedOK(r) == Sound(pc[r], request[r], answer[r], On(r), By(r), r \in mailbox)

\* The first target of a hashed selection has the least hash.
LeastHash ==
  \A n \in 1..Len(picks) : picks[n].key # None =>
    /\ picks[n].first \in picks[n].from
    /\ \A j \in picks[n].from : HashOrder[picks[n].key][picks[n].first] <= HashOrder[picks[n].key][j]

\* The selections without a key among the first n that were made for a route.
Rounds(made, id, n) == {k \in 1..n : made[k].id = id /\ made[k].key = None}

\* A route's counter counts them, and the first target is the one the counter then stood
\* at, in the order in which the map was walked at the time.
CounterCounts == \A id \in RouteIds : round_robin[id] = Cardinality(Rounds(picks, id, Len(picks)))
WentRound(made, walks, now) ==
  \A n \in 1..Len(made) :
    /\ made[n].epoch <= now
    /\ made[n].key = None =>
         /\ made[n].from # {}
         /\ made[n].first = Ordered(made[n].from, walks[made[n].epoch])
              [(Cardinality(Rounds(made, made[n].id, n - 1)) % Cardinality(made[n].from)) + 1]
SelectedInTurn ==
  \E walks \in [0..changes -> Orders] : walks[changes] = iteration /\ WentRound(picks, walks, changes)

IInv ==
  /\ TypeOK /\ \A r \in Requests : ServedOK(r)
  /\ LeastHash /\ CounterCounts /\ SelectedInTurn

-----------------------------------------------------------------------------
(* The members of a set in the order of their numbers. *)

\* Ordered lists every member once, by rising numbers, when the numbers differ.
LEMMA OrderedSpec ==
  ASSUME NEW S, IsFiniteSet(S), NEW number, \A i \in S : number[i] \in Nat,
         \A i, j \in S : number[i] = number[j] => i = j
  PROVE  /\ Cardinality(S) \in Nat
         /\ DOMAIN Ordered(S, number) = 1..Cardinality(S)
         /\ \A n \in 1..Cardinality(S) : Ordered(S, number)[n] \in S
         /\ \A m, n \in 1..Cardinality(S) : Ordered(S, number)[m] = Ordered(S, number)[n] => m = n
         /\ \A i \in S : \E n \in 1..Cardinality(S) : Ordered(S, number)[n] = i
         /\ S # {} => /\ 1 \in 1..Cardinality(S)
                      /\ \A j \in S : number[Ordered(S, number)[1]] <= number[j]
<1> DEFINE Below(i) == {j \in S : number[j] < number[i]}
           N == Cardinality(S)
           rank == [i \in S |-> Cardinality(Below(i)) + 1]
           o == Ordered(S, number)
<1>1. N \in Nat
  BY FS_CardinalityType
<1>2. ASSUME NEW i \in S
      PROVE  /\ IsFiniteSet(Below(i)) /\ Cardinality(Below(i)) \in Nat
             /\ Cardinality(Below(i)) < N
  <2>1. Below(i) \in SUBSET S /\ Below(i) # S
    <3>1. i \notin Below(i)
      OBVIOUS
    <3>. QED BY <3>1
  <2>2. IsFiniteSet(Below(i)) /\ Cardinality(Below(i)) <= N /\ (N = Cardinality(Below(i)) => Below(i) = S)
    BY <2>1, FS_Subset
  <2>3. Cardinality(Below(i)) \in Nat
    BY <2>2, FS_CardinalityType
  <2> HIDE DEF Below, N
  <2>. QED BY <1>1, <2>1, <2>2, <2>3
<1>3. ASSUME NEW i \in S, NEW j \in S, number[i] < number[j]
      PROVE  Cardinality(Below(i)) < Cardinality(Below(j))
  <2>1. Below(i) \in SUBSET Below(j) /\ i \in Below(j) /\ i \notin Below(i)
    BY <1>3
  <2>2. IsFiniteSet(Below(j)) /\ Cardinality(Below(i)) \in Nat /\ Cardinality(Below(j)) \in Nat
    BY <1>2
  <2> HIDE DEF Below
  <2>3. Cardinality(Below(i)) <= Cardinality(Below(j)) /\ (Cardinality(Below(j)) = Cardinality(Below(i)) => Below(i) = Below(j))
    BY <2>1, <2>2, FS_Subset
  <2>. QED BY <2>1, <2>2, <2>3
<1>4. ASSUME NEW i \in S, NEW j \in S, Cardinality(Below(i)) = Cardinality(Below(j)) PROVE i = j
  <2>1. number[i] \in Nat /\ number[j] \in Nat /\ Cardinality(Below(i)) \in Nat /\ Cardinality(Below(j)) \in Nat
    BY <1>2
  <2> HIDE DEF Below
  <2>2. ~(number[i] < number[j]) /\ ~(number[j] < number[i])
    BY <1>3, <1>4, <2>1
  <2>. QED BY <2>1, <2>2
<1>5. rank \in Injection(S, 1..N)
  <2> HIDE DEF Below, N
  <2>1. rank \in [S -> 1..N]
    BY <1>1, <1>2
  <2>2. \A i, j \in S : rank[i] = rank[j] => i = j
    BY <1>2, <1>4
  <2> HIDE DEF rank
  <2>. QED BY <2>1, <2>2 DEF Injection, IsInjective
<1>6. rank \in Surjection(S, 1..N)
  <2>0. 1 \in Int /\ N \in Int
    BY <1>1
  <2>1. IsFiniteSet(1..N) /\ Cardinality(1..N) = N
    BY <1>1, <2>0, FS_Interval
  <2> HIDE DEF rank
  <2>. QED BY <1>5, <2>1, FS_Injection
<1>7. ASSUME NEW n \in 1..N PROVE o[n] \in S /\ Cardinality(Below(o[n])) = n - 1
  <2>1. \E i \in S : rank[i] = n
    BY <1>6 DEF Surjection
  <2>2. \E i \in S : Cardinality(Below(i)) = n - 1
    <3> HIDE DEF Below
    <3>. QED BY <1>2, <2>1
  <2>3. o[n] = CHOOSE i \in S : Cardinality(Below(i)) = n - 1
    BY DEF Ordered
  <2> HIDE DEF Below, o
  <2>. QED BY <2>2, <2>3
<1>8. DOMAIN o = 1..N
  BY DEF Ordered
<1>9. \A m, n \in 1..N : o[m] = o[n] => m = n
  <2> HIDE DEF Below, o, N
  <2>. QED BY <1>1, <1>7
<1>10. ASSUME NEW i \in S PROVE \E n \in 1..N : o[n] = i
  <2> DEFINE n == Cardinality(Below(i)) + 1
  <2>1. n \in 1..N /\ n - 1 = Cardinality(Below(i))
    <3> HIDE DEF Below, N
    <3>. QED BY <1>1, <1>2
  <2> HIDE DEF Below, o, N, n
  <2>2. o[n] = i
    BY <1>4, <1>7, <2>1
  <2>. QED BY <2>1, <2>2
<1>11. ASSUME S # {} PROVE 1 \in 1..N /\ \A j \in S : number[o[1]] <= number[j]
  <2> HIDE DEF N
  <2>1. 1 \in 1..N
    <3>1. N # 0
      BY <1>11, FS_EmptySet DEF N
    <3>. QED BY <1>1, <3>1
  <2>2. PICK x \in S : x = o[1]
    <3> HIDE DEF Below, o
    <3>. QED BY <1>7, <2>1
  <2>3. Cardinality(Below(x)) = 0
    <3> HIDE DEF Below, o
    <3>. QED BY <1>7, <2>1, <2>2
  <2>4. Below(x) = {}
    <3> HIDE DEF Below
    <3>. QED BY <1>2, <2>3, FS_EmptySet
  <2> HIDE DEF o
  <2>5. \A j \in S : number[x] <= number[j]
    BY <2>4
  <2>. QED BY <2>1, <2>2, <2>5
<1>. QED BY <1>1, <1>7, <1>8, <1>9, <1>10, <1>11

\* What the state may be walked and hashed by.
LEMMA OrdersSpec ==
  /\ IsFiniteSet(Instances) /\ Cardinality(Instances) \in Nat
  /\ \A order \in Orders : /\ order \in [Instances -> Nat]
                           /\ \A i, j \in Instances : order[i] = order[j] => i = j
  /\ \A k \in Keys : /\ HashOrder[k] \in [Instances -> Nat]
                     /\ \A i, j \in Instances : HashOrder[k][i] = HashOrder[k][j] => i = j
  /\ (CHOOSE order \in Orders : TRUE) \in Orders
<1>1. IsFiniteSet(Instances) /\ Cardinality(Instances) \in Nat
  BY GatewayAssumption, FS_CardinalityType
<1>2. ASSUME NEW order \in Orders
      PROVE  order \in [Instances -> Nat] /\ \A i, j \in Instances : order[i] = order[j] => i = j
  BY <1>1 DEF Orders, Injection, IsInjective
<1>3. ASSUME NEW k \in Keys
      PROVE  HashOrder[k] \in [Instances -> Nat] /\ \A i, j \in Instances : HashOrder[k][i] = HashOrder[k][j] => i = j
  BY GatewayAssumption DEF IsInjective
<1>4. \E order : order \in Orders
  <2>0. 1 \in Int /\ Cardinality(Instances) \in Int
    BY <1>1
  <2>1. IsFiniteSet(1..Cardinality(Instances)) /\ Cardinality(1..Cardinality(Instances)) = Cardinality(Instances)
    BY <1>1, <2>0, FS_Interval
  <2>2. ExistsBijection(Instances, 1..Cardinality(Instances))
    BY <1>1, <2>1, FS_SameCardinalityBij
  <2>. QED BY <2>2 DEF ExistsBijection, Bijection, Orders
<1>. QED BY <1>1, <1>2, <1>3, <1>4

\* A set of instances, put in any order, is a sequence of these instances.
LEMMA OrderedInstances ==
  ASSUME NEW S \in SUBSET Instances, NEW number \in [Instances -> Nat],
         \A i, j \in Instances : number[i] = number[j] => i = j
  PROVE  /\ IsFiniteSet(S) /\ Cardinality(S) \in Nat
         /\ Ordered(S, number) \in Seq(Instances) /\ Len(Ordered(S, number)) = Cardinality(S)
         /\ \A n \in 1..Cardinality(S) : Ordered(S, number)[n] \in S
         /\ \A m, n \in 1..Cardinality(S) : Ordered(S, number)[m] = Ordered(S, number)[n] => m = n
         /\ Range(Ordered(S, number)) = S
         /\ S # {} => /\ 1 \in 1..Cardinality(S)
                      /\ \A j \in S : number[Ordered(S, number)[1]] <= number[j]
<1>1. IsFiniteSet(S)
  BY OrdersSpec, FS_Subset
<1>2. /\ Cardinality(S) \in Nat
      /\ DOMAIN Ordered(S, number) = 1..Cardinality(S)
      /\ \A n \in 1..Cardinality(S) : Ordered(S, number)[n] \in S
      /\ \A m, n \in 1..Cardinality(S) : Ordered(S, number)[m] = Ordered(S, number)[n] => m = n
      /\ \A i \in S : \E n \in 1..Cardinality(S) : Ordered(S, number)[n] = i
      /\ S # {} => /\ 1 \in 1..Cardinality(S)
                   /\ \A j \in S : number[Ordered(S, number)[1]] <= number[j]
  BY <1>1, OrderedSpec
<1>3. Ordered(S, number) \in [1..Cardinality(S) -> S]
  BY <1>2 DEF Ordered
<1>4. PICK N \in Nat, o \in [1..Cardinality(S) -> S] : N = Cardinality(S) /\ o = Ordered(S, number)
  BY <1>2, <1>3
<1>5. o \in [1..N -> Instances]
  BY <1>3, <1>4
<1>6. o \in Seq(Instances) /\ Len(o) = N
  BY <1>5
<1>7. Range(Ordered(S, number)) = S
  <2>1. DOMAIN o = 1..N /\ (\A n \in 1..N : o[n] \in S) /\ \A i \in S : \E n \in 1..N : o[n] = i
    BY <1>2, <1>4
  <2>2. Range(o) = S
    BY <2>1 DEF Range
  <2>. QED BY <1>4, <2>2
<1>. QED BY <1>1, <1>2, <1>4, <1>6, <1>7

Open(route) == {i \in instances \cap actual : FlowOf[i] = route.flow_id}

\* What a selection selects from, and what it selects first.
LEMMA TargetsSpec ==
  ASSUME TypeOK, NEW r \in Requests, NEW targets, NEW ordered,
         targets = running_targets(request[r].route), ordered = order_targets(r, targets), targets # <<>>,
         request[r].id \in RouteIds, request[r].route \in RouteDecls
  PROVE  /\ Open(request[r].route) \in SUBSET Instances /\ IsFiniteSet(Open(request[r].route))
         /\ targets = Ordered(Open(request[r].route), iteration) /\ Range(targets) = Open(request[r].route)
         /\ Open(request[r].route) # {} /\ Cardinality(Open(request[r].route)) \in Nat \ {0}
         /\ ordered \in Seq(Instances) /\ ordered # <<>>
         /\ \A n \in 1..Len(ordered) : ordered[n] \in Open(request[r].route)
         /\ Hashed(r) => /\ HashKey(r) \in Keys /\ ordered[1] \in Open(request[r].route)
                         /\ \A j \in Open(request[r].route) : HashOrder[HashKey(r)][ordered[1]] <= HashOrder[HashKey(r)][j]
         /\ ~Hashed(r) => ordered[1] = targets[(round_robin[request[r].id] % Cardinality(Open(request[r].route))) + 1]
<1> DEFINE S == Open(request[r].route)
           L == Cardinality(S)
<1>1. S \in SUBSET Instances
  BY DEF Open, TypeOK
<1>2. targets = Ordered(S, iteration)
  BY DEF running_targets, Open
<1>3. iteration \in [Instances -> Nat] /\ \A i, j \in Instances : iteration[i] = iteration[j] => i = j
  BY OrdersSpec DEF TypeOK
<1> HIDE DEF S
<1>4. /\ IsFiniteSet(S) /\ L \in Nat /\ targets \in Seq(Instances) /\ Len(targets) = L
      /\ \A n \in 1..L : targets[n] \in S
      /\ Range(targets) = S
  BY <1>1, <1>2, <1>3, OrderedInstances
<1>5. L # 0 /\ S # {}
  <2> HIDE DEF L
  <2>1. L # 0
    BY <1>4
  <2>. QED BY <1>4, <2>1, FS_EmptySet DEF L
<1>6. CASE Hashed(r)
  <2>1. HashKey(r) \in Keys
    <3>1. asks[r].key \in Keys \cup {None}
      BY GatewayAssumption DEF TypeOK
    <3>. QED BY <1>6, <3>1 DEF Hashed, HashKey
  <2>2. ordered = Ordered(S, HashOrder[HashKey(r)])
    BY <1>4, <1>6 DEF order_targets
  <2>3. /\ HashOrder[HashKey(r)] \in [Instances -> Nat]
        /\ \A i, j \in Instances : HashOrder[HashKey(r)][i] = HashOrder[HashKey(r)][j] => i = j
    BY <2>1, OrdersSpec
  <2>4. /\ ordered \in Seq(Instances) /\ Len(ordered) = L
        /\ \A n \in 1..L : ordered[n] \in S
        /\ 1 \in 1..L /\ \A j \in S : HashOrder[HashKey(r)][ordered[1]] <= HashOrder[HashKey(r)][j]
    BY <1>1, <1>5, <2>2, <2>3, OrderedInstances
  <2> HIDE DEF L
  <2>5. ordered # <<>> /\ ordered[1] \in S
    BY <2>4, <1>5, <1>4
  <2>. QED BY <1>1, <1>2, <1>4, <1>5, <1>6, <2>1, <2>4, <2>5 DEF S, L
<1>7. CASE ~Hashed(r)
  <2>1. PICK c \in Nat : c = round_robin[request[r].id]
    BY DEF TypeOK
  <2>2. ordered = Rotated(targets, c)
    BY <1>7, <2>1 DEF order_targets
  <2> HIDE DEF L
  <2>3. ordered = [n \in 1..L |-> targets[((n - 1 + c) % L) + 1]]
    BY <1>4, <2>2 DEF Rotated
  <2>4. \A n \in 1..L : ((n - 1 + c) % L) + 1 \in 1..L
    BY <1>4, <1>5
  <2>5. \A n \in 1..L : ordered[n] \in S
    BY <1>4, <2>3, <2>4
  <2>6. ordered \in Seq(Instances) /\ Len(ordered) = L /\ ordered # <<>>
    <3>1. ordered \in [1..L -> Instances]
      BY <1>1, <2>3, <2>5
    <3>2. ordered \in Seq(Instances) /\ Len(ordered) = L
      BY <1>4, <3>1
    <3>. QED BY <1>5, <3>2
  <2>7. ordered[1] = targets[(c % L) + 1]
    <3>1. 1 \in 1..L /\ 1 - 1 + c = c
      BY <1>4, <1>5
    <3>. QED BY <2>3, <3>1
  <2>. QED BY <1>1, <1>2, <1>4, <1>5, <1>7, <2>1, <2>5, <2>6, <2>7 DEF S, L
<1>. QED BY <1>6, <1>7

\* At most two targets are tried, and no more than there are.
LEMMA CandidatesSpec ==
  ASSUME TypeOK, NEW r \in Requests
  PROVE  Candidates(r) \in Nat /\ Candidates(r) <= 2 /\ Candidates(r) <= Len(request[r].targets)
         /\ (request[r].targets # <<>> => Candidates(r) > 0)
<1>1. PICK n \in Nat : n = Len(request[r].targets) /\ (request[r].targets # <<>> => n > 0)
  BY DEF TypeOK, Served
<1>2. Candidates(r) = Min({2, n})
  BY <1>1 DEF Candidates
<1>3. \E x \in {2, n} : \A y \in {2, n} : x <= y
  OBVIOUS
<1>4. Min({2, n}) \in {2, n} /\ \A y \in {2, n} : Min({2, n}) <= y
  BY <1>3 DEF Min
<1>. QED BY <1>1, <1>2, <1>4

-----------------------------------------------------------------------------
(* Steps. *)

\* What a selection does.
LEMMA SelectCases ==
  ASSUME NEW r \in Requests, select_targets(r), NEW targets, NEW ordered,
         targets = running_targets(request[r].route), ordered = order_targets(r, targets)
  PROVE  /\ pc[r] = "found" /\ UNCHANGED <<asks, registryVars, instanceVars, flightVars, mailbox>>
         /\ \/ targets = <<>> /\ Respond(r, "503") /\ UNCHANGED <<round_robin, request, picks>>
            \/ /\ targets # <<>> /\ request' = [request EXCEPT ![r].targets = ordered]
               /\ picks' = Append(picks, Pick(r, targets, ordered)) /\ round_robin' = Counts(r)
               /\ Goto(r, "forward") /\ UNCHANGED answer
BY DEF select_targets

\* A selection of a request is a pick.
LEMMA PickType ==
  ASSUME TypeOK, NEW r \in Requests, NEW targets, NEW ordered,
         targets = running_targets(request[r].route), ordered = order_targets(r, targets), targets # <<>>,
         request[r].id \in RouteIds, request[r].route \in RouteDecls
  PROVE  /\ Pick(r, targets, ordered) \in Picks
         /\ Pick(r, targets, ordered).id = request[r].id /\ Pick(r, targets, ordered).epoch = changes
         /\ Pick(r, targets, ordered).from = Open(request[r].route) /\ Pick(r, targets, ordered).first = ordered[1]
         /\ Pick(r, targets, ordered).key = IF Hashed(r) THEN HashKey(r) ELSE None
         /\ Hashed(r) => HashKey(r) # None
<1>1. /\ Range(targets) = Open(request[r].route) /\ Open(request[r].route) \in SUBSET Instances
      /\ ordered \in Seq(Instances) /\ ordered # <<>> /\ (Hashed(r) => HashKey(r) \in Keys)
  BY TargetsSpec
<1>2. ordered[1] \in Instances /\ changes \in Nat
  BY <1>1 DEF TypeOK
<1>3. Hashed(r) => HashKey(r) # None
  BY DEF Hashed
<1>. QED BY <1>1, <1>2, <1>3 DEF Pick, Picks

\* Steps keep the types.
LEMMA TypeStep == TypeOK /\ (\A r \in Requests : ServedOK(r)) /\ [Next]_vars => TypeOK'
<1> SUFFICES ASSUME TypeOK, \A r \in Requests : ServedOK(r), [Next]_vars PROVE TypeOK'
  OBVIOUS
<1>g. ASSUME NEW r \in Requests, NEW w \in Places, Goto(r, w) PROVE pc' \in [Requests -> Places]
  BY <1>g DEF Goto, TypeOK
<1>p. \A w \in {"found", "forward", "waiting", "answered"} : w \in Places
  BY DEF Places
<1>r. ASSUME NEW r \in Requests, NEW status \in Instances \cup Statuses, Respond(r, status)
      PROVE  pc' \in [Requests -> Places] /\ answer' \in [Requests -> Instances \cup Statuses \cup {None}]
  BY <1>r, <1>g, <1>p DEF Respond, TypeOK
<1>s. {"202", "400", "404", "502", "503"} = Statuses
  BY DEF Statuses
<1>x. ASSUME NEW r \in Requests, NEW s \in Served, request' = [request EXCEPT ![r] = s] PROVE request' \in [Requests -> Served]
  BY <1>x DEF TypeOK
<1>1. ASSUME NEW r \in Requests, gateway(r) PROVE TypeOK'
  <2>1. UNCHANGED <<asks, routes, instances, iteration, changes, actual, sent, handled, replies, round_robin, mailbox, picks>>
    BY <1>1 DEF gateway, registryVars, instanceVars, flightVars
  <2>2. CASE Respond(r, "404") /\ UNCHANGED request
    BY <1>r, <1>s, <2>1, <2>2 DEF TypeOK
  <2>3. CASE Goto(r, "found") /\ UNCHANGED answer /\ \E id \in find_route(asks[r].path) :
               request' = [request EXCEPT ![r].id = id, ![r].route = routes[id]]
    <3>1. PICK id \in RouteIds : request' = [request EXCEPT ![r].id = id, ![r].route = routes[id]]
      BY <2>3 DEF find_route, Matches
    <3>2. PICK x \in Served : x = request[r]
      BY DEF TypeOK
    <3>3. routes[id] \in RouteDecls \cup {None}
      BY DEF TypeOK
    <3>4. [x EXCEPT !.id = id, !.route = routes[id]] \in Served
      BY <3>3 DEF Served
    <3>5. request' = [request EXCEPT ![r] = [x EXCEPT !.id = id, !.route = routes[id]]]
      BY <3>1, <3>2
    <3>6. request' \in [Requests -> Served]
      BY <1>x, <3>4, <3>5
    <3>. QED BY <1>g, <1>p, <2>1, <2>3, <3>6 DEF TypeOK
  <2>. QED BY <1>1, <2>2, <2>3 DEF gateway
<1>2. ASSUME NEW r \in Requests, bus_dispatch(r) PROVE TypeOK'
  <2>1. UNCHANGED <<asks, routes, instances, iteration, changes, actual, sent, handled, replies, round_robin, request, picks>>
    BY <1>2 DEF bus_dispatch, registryVars, instanceVars, flightVars
  <2>2. mailbox' \subseteq Requests /\ (Respond(r, "202") \/ Respond(r, "400"))
    BY <1>2 DEF bus_dispatch, TypeOK
  <2>. QED BY <1>r, <1>s, <2>1, <2>2 DEF TypeOK
<1>3. ASSUME NEW r \in Requests, select_targets(r) PROVE TypeOK'
  <2>0. PICK targets, ordered : targets = running_targets(request[r].route) /\ ordered = order_targets(r, targets)
    OBVIOUS
  <2>1. /\ UNCHANGED <<asks, routes, instances, iteration, changes, actual, sent, handled, replies, mailbox>> /\ pc[r] = "found"
        /\ \/ targets = <<>> /\ Respond(r, "503") /\ UNCHANGED <<round_robin, request, picks>>
           \/ /\ targets # <<>> /\ request' = [request EXCEPT ![r].targets = ordered]
              /\ picks' = Append(picks, Pick(r, targets, ordered)) /\ round_robin' = Counts(r)
              /\ Goto(r, "forward") /\ UNCHANGED answer
    BY <1>3, <2>0, SelectCases DEF registryVars, instanceVars, flightVars
  <2>2. CASE Respond(r, "503") /\ UNCHANGED <<round_robin, request, picks>>
    BY <1>r, <1>s, <2>1, <2>2 DEF TypeOK
  <2>3. CASE /\ targets # <<>> /\ request' = [request EXCEPT ![r].targets = ordered]
             /\ picks' = Append(picks, Pick(r, targets, ordered)) /\ round_robin' = Counts(r)
             /\ Goto(r, "forward") /\ UNCHANGED answer
    <3>1. request[r].id \in RouteIds /\ request[r].route \in RouteDecls
      BY <2>1 DEF ServedOK, Sound
    <3>2. ordered \in Seq(Instances)
      BY <2>0, <2>3, <3>1, TargetsSpec
    <3>3. PICK x \in Served : x = request[r]
      BY DEF TypeOK
    <3>4. [x EXCEPT !.targets = ordered] \in Served
      BY <3>2 DEF Served
    <3>5. request' = [request EXCEPT ![r] = [x EXCEPT !.targets = ordered]]
      BY <2>3, <3>3
    <3>6. request' \in [Requests -> Served]
      BY <1>x, <3>4, <3>5
    <3>7. Pick(r, targets, ordered) \in Picks
      BY <2>0, <2>3, <3>1, PickType
    <3>8. picks' \in Seq(Picks)
      BY <2>3, <3>7 DEF TypeOK
    <3>9. round_robin' \in [RouteIds -> Nat]
      BY <2>3, <3>1 DEF Counts, TypeOK
    <3>. QED BY <1>g, <1>p, <2>1, <2>3, <3>6, <3>8, <3>9 DEF TypeOK
  <2>. QED BY <2>1, <2>2, <2>3
<1>t. ASSUME NEW r \in Requests, pc[r] \in {"forward", "waiting"} PROVE Target(r) \in Instances
  <2>1. request[r].targets \in Seq(Instances) /\ request[r].failures \in Nat
    BY DEF TypeOK, Served
  <2>2. request[r].failures < Len(request[r].targets)
    BY <1>t DEF ServedOK, Sound
  <2>3. request[r].failures + 1 \in 1..Len(request[r].targets)
    BY <2>1, <2>2
  <2>. QED BY <2>1, <2>3 DEF Target
<1>4. ASSUME NEW r \in Requests, forward_once(r) PROVE TypeOK'
  <2>1. UNCHANGED <<asks, routes, instances, iteration, changes, actual, handled, replies, round_robin, request, answer, mailbox, picks>>
    BY <1>4 DEF forward_once, registryVars, instanceVars
  <2>2. sent' = sent \cup {<<r, Target(r)>>} /\ Goto(r, "waiting") /\ Target(r) \in Instances
    BY <1>4, <1>t DEF forward_once
  <2>. QED BY <1>g, <1>p, <2>1, <2>2 DEF TypeOK
<1>5. ASSUME NEW r \in Requests, PassOn(r) PROVE TypeOK'
  <2>1. UNCHANGED <<asks, routes, instances, iteration, changes, actual, sent, handled, round_robin, request, mailbox, picks>>
    BY <1>5 DEF PassOn, registryVars, instanceVars
  <2>2. replies' \subseteq replies /\ Respond(r, Target(r)) /\ Target(r) \in Instances
    BY <1>5, <1>t DEF PassOn
  <2>. QED BY <1>r, <2>1, <2>2 DEF TypeOK
<1>6. ASSUME NEW r \in Requests, Refused(r) \/ TimesOut(r) PROVE TypeOK'
  <2>1. UNCHANGED <<asks, routes, instances, iteration, changes, actual, handled, round_robin, mailbox, picks>>
    BY <1>6 DEF Refused, TimesOut, registryVars, instanceVars
  <2>2. sent' \subseteq sent /\ replies' \subseteq replies /\ Fails(r)
    BY <1>6 DEF Refused, TimesOut
  <2>3. request' \in [Requests -> Served]
    <3>1. PICK x \in Served : x = request[r]
      BY DEF TypeOK
    <3>2. [x EXCEPT !.failures = @ + 1] \in Served
      BY DEF Served
    <3>3. request' = [request EXCEPT ![r] = [x EXCEPT !.failures = @ + 1]]
      BY <2>2, <3>1 DEF Fails
    <3>. QED BY <1>x, <3>2, <3>3
  <2>4. pc' \in [Requests -> Places] /\ answer' \in [Requests -> Instances \cup Statuses \cup {None}]
    <3>1. CASE Goto(r, "forward") /\ UNCHANGED answer
      BY <1>g, <1>p, <3>1 DEF TypeOK
    <3>2. CASE Respond(r, "502")
      BY <1>r, <1>s, <3>2
    <3>. QED BY <2>2, <3>1, <3>2 DEF Fails
  <2>. QED BY <2>1, <2>2, <2>3, <2>4 DEF TypeOK
<1>7. ASSUME NEW r \in Requests, NEW i \in Instances, Handles(r, i) PROVE TypeOK'
  <2>1. UNCHANGED <<asks, routes, instances, iteration, changes, actual, round_robin, pc, request, answer, mailbox, picks>>
    BY <1>7 DEF Handles, registryVars, instanceVars
  <2>2. /\ sent' \subseteq sent /\ handled' = handled \cup {<<r, i>>}
        /\ replies' \subseteq replies \cup {<<r, i>>}
    BY <1>7 DEF Handles
  <2>. QED BY <2>1, <2>2 DEF TypeOK
<1>8. ASSUME NEW id \in RouteIds, remove_route(id) \/ \E decl \in RouteDecls : declare_route(id, decl) PROVE TypeOK'
  <2>1. UNCHANGED routeFree /\ changes' = changes + 1
    BY <1>8 DEF remove_route, declare_route
  <2>2. routes' \in [RouteIds -> RouteDecls \cup {None}]
    BY <1>8 DEF remove_route, declare_route, TypeOK
  <2>. QED BY <2>1, <2>2 DEF TypeOK, routeFree, instanceVars, flightVars
<1>9. ASSUME NEW i \in Instances, declare_instance(i) \/ remove_instance(i) PROVE TypeOK'
  <2>1. UNCHANGED instanceFree /\ changes' = changes + 1 /\ instances' \subseteq Instances /\ iteration' \in Orders
    BY <1>9 DEF declare_instance, remove_instance, TypeOK
  <2>. QED BY <2>1 DEF TypeOK, instanceFree, instanceVars, flightVars
<1>10. ASSUME NEW i \in Instances, heartbeat(i) \/ Dies(i) \/ Starts(i) PROVE TypeOK'
  <2>1. UNCHANGED reportFree
    BY <1>10 DEF heartbeat, Dies, Starts
  <2>2. actual' \subseteq Instances /\ sent' \subseteq sent /\ replies' \subseteq replies
    BY <1>10 DEF heartbeat, Dies, Starts, TypeOK
  <2>. QED BY <2>1, <2>2 DEF TypeOK, reportFree, registryVars
<1>11. CASE UNCHANGED vars
  BY <1>11 DEF vars, registryVars, instanceVars, flightVars, TypeOK
<1>. QED BY <1>1, <1>2, <1>3, <1>4, <1>5, <1>6, <1>7, <1>8, <1>9, <1>10, <1>11 DEF Next, Serves

-----------------------------------------------------------------------------
(* A request on its way. *)

\* None of the answers of the gateway is an instance or no answer.
LEMMA StatusesApart ==
  /\ \A s \in Statuses : s \notin Instances /\ s # None
  /\ {"202", "400", "404", "502", "503"} = Statuses /\ None \notin Instances
BY GatewayAssumption DEF Statuses

\* Nothing changes for a request that fewer instances have and more have handled.
LEMMA SoundKept ==
  ASSUME NEW p, NEW q, NEW a, NEW on, NEW by, NEW mailed, NEW on2, NEW by2,
         Sound(p, q, a, on, by, mailed), on2 \subseteq on, by \subseteq by2
  PROVE  Sound(p, q, a, on2, by2, mailed)
BY DEF Sound

\* A request without targets is answered by the gateway: no instance has it.
LEMMA SoundAnswered ==
  ASSUME NEW p \in {"idle", "found"}, NEW q \in Served, NEW a, NEW on, NEW by, NEW mailed \in BOOLEAN,
         Sound(p, q, a, on, by, mailed),
         NEW s \in Statuses, NEW mailed2 \in BOOLEAN, (s = "202") = mailed2
  PROVE  Sound("answered", q, s, on, by, mailed2)
<1>1. q.targets = <<>> /\ q.failures = 0 /\ a = None
  BY DEF Sound
<1>2. on = {}
  BY <1>1 DEF Sound
<1>3. Tried("answered", q, s) = 0
  BY <1>1, StatusesApart DEF Tried
<1>. QED BY <1>1, <1>2, <1>3, StatusesApart DEF Sound

\* A route is found for it.
LEMMA SoundFound ==
  ASSUME NEW q \in Served, NEW a, NEW on, NEW by, NEW mailed,
         Sound("idle", q, a, on, by, mailed), NEW id \in RouteIds, NEW route \in RouteDecls
  PROVE  Sound("found", [q EXCEPT !.id = id, !.route = route], a, on, by, mailed)
<1> DEFINE q2 == [q EXCEPT !.id = id, !.route = route]
<1>1. q.targets = <<>> /\ q.failures = 0 /\ a = None
  BY DEF Sound
<1>2. on = {}
  BY <1>1 DEF Sound
<1>3. q2.targets = <<>> /\ q2.failures = 0 /\ q2.id = id /\ q2.route = route
  BY <1>1 DEF Served
<1> HIDE DEF q2
<1>4. Tried("found", q2, a) = 0
  BY <1>1, <1>3, StatusesApart DEF Tried
<1>5. Sound("found", q2, a, on, by, mailed)
  BY <1>1, <1>2, <1>3, <1>4, StatusesApart DEF Sound
<1>. QED BY <1>5 DEF q2

\* Targets are selected for it, all of them of the route's flow.
LEMMA SoundSelected ==
  ASSUME NEW q \in Served, NEW a, NEW on, NEW by, NEW mailed,
         Sound("found", q, a, on, by, mailed), NEW ordered \in Seq(Instances), ordered # <<>>,
         \A k \in 1..Len(ordered) : FlowOf[ordered[k]] = q.route.flow_id
  PROVE  Sound("forward", [q EXCEPT !.targets = ordered], a, on, by, mailed)
<1> DEFINE q2 == [q EXCEPT !.targets = ordered]
<1>1. q.targets = <<>> /\ q.failures = 0 /\ a = None
  BY DEF Sound
<1>2. on = {}
  BY <1>1 DEF Sound
<1>3. q2.targets = ordered /\ q2.failures = 0 /\ q2.route = q.route
  BY <1>1 DEF Served
<1>4. Len(ordered) > 0
  OBVIOUS
<1> HIDE DEF q2
<1>5. Tried("forward", q2, a) = 0
  BY <1>1, <1>3, StatusesApart DEF Tried
<1>6. Sound("forward", q2, a, on, by, mailed)
  BY <1>1, <1>2, <1>3, <1>4, <1>5, StatusesApart DEF Sound
<1>. QED BY <1>6 DEF q2

\* It is sent to the next of them.
LEMMA SoundSent ==
  ASSUME NEW q \in Served, NEW a, NEW on, NEW by, NEW mailed, Sound("forward", q, a, on, by, mailed)
  PROVE  Sound("waiting", q, a, on \cup {q.targets[q.failures + 1]}, by, mailed)
<1>1. q.failures \in Nat /\ Len(q.targets) \in Nat
  BY DEF Served
<1>2. a = None /\ q.failures < 2 /\ q.failures < Len(q.targets)
  BY DEF Sound
<1>3. Tried("forward", q, a) = q.failures /\ Tried("waiting", q, a) = q.failures + 1
  BY <1>1, <1>2, StatusesApart DEF Tried
<1>4. \A i \in on : \E k \in 1..Len(q.targets) : k <= q.failures + 1 /\ q.targets[k] = i
  BY <1>1, <1>3 DEF Sound
<1>5. q.failures + 1 \in 1..Len(q.targets)
  BY <1>1, <1>2
<1>6. \A i \in on \cup {q.targets[q.failures + 1]} :
        \E k \in 1..Len(q.targets) : k <= q.failures + 1 /\ q.targets[k] = i
  BY <1>1, <1>4, <1>5
<1>. QED BY <1>1, <1>2, <1>3, <1>6, StatusesApart DEF Sound

\* Its answer is passed on.
LEMMA SoundPassedOn ==
  ASSUME NEW q \in Served, NEW a, NEW on, NEW by, NEW mailed, Sound("waiting", q, a, on, by, mailed),
         q.targets[q.failures + 1] \in by, q.targets[q.failures + 1] \in Instances
  PROVE  Sound("answered", q, q.targets[q.failures + 1], on, by, mailed)
<1> DEFINE t == q.targets[q.failures + 1]
<1>1. q.failures \in Nat /\ Len(q.targets) \in Nat
  BY DEF Served
<1>2. a = None /\ q.failures < 2 /\ q.failures < Len(q.targets) /\ (a = "202") = mailed
  BY DEF Sound
<1>3. q.failures + 1 \in 1..Len(q.targets)
  BY <1>1, <1>2
<1>4. FlowOf[t] = q.route.flow_id
  BY <1>3 DEF Sound
<1> HIDE DEF t
<1>5. Tried("waiting", q, a) = q.failures + 1 /\ Tried("answered", q, t) = q.failures + 1
  BY <1>1, <1>2 DEF Tried, t
<1>6. t \notin Statuses /\ t # "202" /\ a # "202"
  BY <1>2, StatusesApart DEF t
<1>. QED BY <1>1, <1>2, <1>4, <1>5, <1>6 DEF Sound, t

\* It fails: the next target or 502.
LEMMA SoundFailed ==
  ASSUME NEW q \in Served, NEW a, NEW on, NEW by, NEW mailed, Sound("waiting", q, a, on, by, mailed)
  PROVE  /\ q.failures + 1 < 2 /\ q.failures + 1 < Len(q.targets)
              => Sound("forward", [q EXCEPT !.failures = @ + 1], a, on, by, mailed)
         /\ Sound("answered", [q EXCEPT !.failures = @ + 1], "502", on, by, mailed)
<1> DEFINE q2 == [q EXCEPT !.failures = @ + 1]
<1>1. q.failures \in Nat /\ Len(q.targets) \in Nat
  BY DEF Served
<1>2. a = None /\ q.failures < 2 /\ q.failures < Len(q.targets) /\ (a = "202") = mailed
  BY DEF Sound
<1>3. q2.targets = q.targets /\ q2.failures = q.failures + 1 /\ q2.route = q.route /\ q2.id = q.id
  BY DEF Served
<1> HIDE DEF q2
<1>4. "502" \notin Instances /\ a # "202" /\ a \notin Instances /\ "502" # "202" /\ a \notin Statuses
  BY <1>2, StatusesApart
<1>5. /\ Tried("waiting", q, a) = q.failures + 1 /\ Tried("forward", q2, a) = q.failures + 1
      /\ Tried("answered", q2, "502") = q.failures + 1
  BY <1>1, <1>2, <1>3, <1>4 DEF Tried
<1>6. /\ \A i \in on : \E k \in 1..Len(q.targets) : k <= q.failures + 1 /\ q.targets[k] = i
      /\ \A k \in 1..Len(q.targets) : FlowOf[q.targets[k]] = q.route.flow_id
  BY <1>5 DEF Sound
<1>7. q.failures + 1 < 2 /\ q.failures + 1 < Len(q.targets) => Sound("forward", q2, a, on, by, mailed)
  BY <1>1, <1>2, <1>3, <1>4, <1>5, <1>6 DEF Sound
<1>8. Sound("answered", q2, "502", on, by, mailed)
  BY <1>1, <1>2, <1>3, <1>4, <1>5, <1>6 DEF Sound
<1>. QED BY <1>7, <1>8 DEF q2

\* Whatever happens, every request is served soundly.
LEMMA ServedStep ==
  TypeOK /\ (\A r \in Requests : ServedOK(r)) /\ [Next]_vars => \A r \in Requests : ServedOK(r)'
<1> SUFFICES ASSUME TypeOK, \A r \in Requests : ServedOK(r), [Next]_vars, NEW u \in Requests PROVE ServedOK(u)'
  OBVIOUS
<1> DEFINE Is(p, q, a, on, by, mailed) ==
             /\ pc'[u] = p /\ request'[u] = q /\ answer'[u] = a
             /\ On(u)' \subseteq on /\ by \subseteq By(u)' /\ (u \in mailbox') = mailed
<1>k. ASSUME NEW p, NEW q, NEW a, NEW on, NEW by, NEW mailed \in BOOLEAN,
             Is(p, q, a, on, by, mailed), Sound(p, q, a, on, by, mailed)
      PROVE  ServedOK(u)'
  <2>1. Sound(p, q, a, On(u)', By(u)', mailed)
    BY <1>k, SoundKept
  <2>2. (u \in mailbox') = mailed /\ pc'[u] = p /\ request'[u] = q /\ answer'[u] = a
    BY <1>k
  <2>3. Sound(pc'[u], request'[u], answer'[u], On(u)', By(u)', u \in mailbox')
    BY <2>1, <2>2
  <2>. QED BY <2>3 DEF ServedOK
<1>s. /\ Sound(pc[u], request[u], answer[u], On(u), By(u), u \in mailbox)
      /\ request[u] \in Served /\ (u \in mailbox) \in BOOLEAN
  BY DEF ServedOK, TypeOK
<1>f. ASSUME pc'[u] = pc[u], request'[u] = request[u], answer'[u] = answer[u],
             (u \in mailbox') = (u \in mailbox), On(u)' \subseteq On(u), By(u) \subseteq By(u)'
      PROVE  ServedOK(u)'
  <2>1. Is(pc[u], request[u], answer[u], On(u), By(u), u \in mailbox)
    BY <1>f
  <2> HIDE DEF Is
  <2>. QED BY <1>k, <1>s, <2>1
<1>a. ASSUME pc[u] \in {"idle", "found"}, NEW status \in Statuses, NEW mailed \in BOOLEAN, (status = "202") = mailed
      PROVE  Sound("answered", request[u], status, On(u), By(u), mailed)
  <2>1. PICK p \in {"idle", "found"}, m \in BOOLEAN : p = pc[u] /\ m = (u \in mailbox)
    BY <1>a, <1>s
  <2>2. Sound(p, request[u], answer[u], On(u), By(u), m) /\ request[u] \in Served
    BY <1>s, <2>1
  <2>. QED BY <1>a, <2>2, SoundAnswered
<1>v. {"202", "400", "404"} \subseteq Statuses /\ ("404" = "202") = FALSE /\ ("400" = "202") = FALSE
  BY StatusesApart
<1>o. ASSUME UNCHANGED <<sent, handled>> PROVE On(u)' \subseteq On(u) /\ By(u) \subseteq By(u)'
  BY <1>o DEF On, By
<1>g. ASSUME NEW r \in Requests, NEW w, Goto(r, w) PROVE pc'[u] = IF u = r THEN w ELSE pc[u]
  BY <1>g DEF Goto, TypeOK
<1>r. ASSUME NEW r \in Requests, NEW status, Respond(r, status)
      PROVE  /\ pc'[u] = IF u = r THEN "answered" ELSE pc[u]
             /\ answer'[u] = IF u = r THEN status ELSE answer[u]
  BY <1>r, <1>g DEF Respond, TypeOK
<1>1. ASSUME NEW r \in Requests, gateway(r) PROVE ServedOK(u)'
  <2>1. UNCHANGED <<sent, handled, mailbox>> /\ pc[r] = "idle"
    BY <1>1 DEF gateway, flightVars
  <2>o. On(u)' \subseteq On(u) /\ By(u) \subseteq By(u)'
    BY <1>o, <2>1
  <2>2. CASE Respond(r, "404") /\ UNCHANGED request
    <3>1. CASE u = r
      <4>1. Is("answered", request[u], "404", On(u), By(u), FALSE)
        <5>1. answer[u] = None /\ u \notin mailbox
          BY <1>s, <2>1, <3>1, StatusesApart DEF Sound
        <5>. QED BY <1>r, <2>1, <2>2, <2>o, <3>1, <5>1
      <4>2. Sound("answered", request[u], "404", On(u), By(u), FALSE)
        BY <1>a, <1>v, <2>1, <3>1
      <4> HIDE DEF Is
      <4>. QED BY <1>k, <4>1, <4>2
    <3>2. CASE u # r
      BY <1>f, <1>r, <2>1, <2>2, <2>o, <3>2
    <3>. QED BY <3>1, <3>2
  <2>3. CASE Goto(r, "found") /\ UNCHANGED answer /\ \E id \in find_route(asks[r].path) :
               request' = [request EXCEPT ![r].id = id, ![r].route = routes[id]]
    <3>1. PICK id \in RouteIds : /\ request' = [request EXCEPT ![r].id = id, ![r].route = routes[id]]
                                 /\ routes[id] \in RouteDecls
      BY <2>3 DEF find_route, Matches, TypeOK
    <3>2. CASE u = r
      <4>1. Is("found", [request[u] EXCEPT !.id = id, !.route = routes[id]], answer[u], On(u), By(u), u \in mailbox)
        BY <1>g, <2>1, <2>3, <2>o, <3>1, <3>2 DEF TypeOK
      <4>2. Sound("found", [request[u] EXCEPT !.id = id, !.route = routes[id]], answer[u], On(u), By(u), u \in mailbox)
        <5>1. Sound("idle", request[u], answer[u], On(u), By(u), u \in mailbox) /\ request[u] \in Served
          BY <1>s, <2>1, <3>2
        <5>. QED BY <3>1, <5>1, SoundFound
      <4> HIDE DEF Is
      <4>. QED BY <1>k, <1>s, <4>1, <4>2
    <3>3. CASE u # r
      BY <1>f, <1>g, <2>1, <2>3, <2>o, <3>1, <3>3 DEF TypeOK
    <3>. QED BY <3>2, <3>3
  <2>. QED BY <1>1, <2>2, <2>3 DEF gateway
<1>2. ASSUME NEW r \in Requests, bus_dispatch(r) PROVE ServedOK(u)'
  <2>1. UNCHANGED <<sent, handled, request>> /\ pc[r] = "found"
    BY <1>2 DEF bus_dispatch, flightVars
  <2>o. On(u)' \subseteq On(u) /\ By(u) \subseteq By(u)'
    BY <1>o, <2>1
  <2>n. pc[u] = "found" => u \notin mailbox
    BY <1>s, StatusesApart DEF Sound
  <2>2. CASE mailbox' = mailbox \cup {r} /\ Respond(r, "202")
    <3>1. CASE u = r
      <4>1. Is("answered", request[u], "202", On(u), By(u), TRUE)
        BY <1>r, <2>1, <2>2, <2>o, <3>1
      <4>2. Sound("answered", request[u], "202", On(u), By(u), TRUE)
        BY <1>a, <1>v, <2>1, <3>1
      <4> HIDE DEF Is
      <4>. QED BY <1>k, <4>1, <4>2
    <3>2. CASE u # r
      BY <1>f, <1>r, <2>1, <2>2, <2>o, <3>2
    <3>. QED BY <3>1, <3>2
  <2>3. CASE mailbox' = mailbox /\ Respond(r, "400")
    <3>1. CASE u = r
      <4>1. Is("answered", request[u], "400", On(u), By(u), FALSE)
        BY <1>r, <2>1, <2>3, <2>o, <2>n, <3>1
      <4>2. Sound("answered", request[u], "400", On(u), By(u), FALSE)
        BY <1>a, <1>v, <2>1, <3>1
      <4> HIDE DEF Is
      <4>. QED BY <1>k, <4>1, <4>2
    <3>2. CASE u # r
      BY <1>f, <1>r, <2>1, <2>3, <2>o, <3>2
    <3>. QED BY <3>1, <3>2
  <2>. QED BY <1>2, <2>2, <2>3 DEF bus_dispatch
<1>3. ASSUME NEW r \in Requests, select_targets(r) PROVE ServedOK(u)'
  <2>0. PICK targets, ordered : targets = running_targets(request[r].route) /\ ordered = order_targets(r, targets)
    OBVIOUS
  <2>1. /\ UNCHANGED <<sent, handled, mailbox>> /\ pc[r] = "found"
        /\ \/ targets = <<>> /\ Respond(r, "503") /\ UNCHANGED <<round_robin, request, picks>>
           \/ /\ targets # <<>> /\ request' = [request EXCEPT ![r].targets = ordered]
              /\ picks' = Append(picks, Pick(r, targets, ordered)) /\ round_robin' = Counts(r)
              /\ Goto(r, "forward") /\ UNCHANGED answer
    BY <1>3, <2>0, SelectCases DEF flightVars
  <2>o. On(u)' \subseteq On(u) /\ By(u) \subseteq By(u)'
    BY <1>o, <2>1
  <2>2. CASE Respond(r, "503") /\ UNCHANGED request
    <3>1. CASE u = r
      <4>0. u \notin mailbox
        BY <1>s, <2>1, <3>1, StatusesApart DEF Sound
      <4>1. Is("answered", request[u], "503", On(u), By(u), FALSE)
        BY <1>r, <2>1, <2>2, <2>o, <3>1, <4>0
      <4>2. Sound("answered", request[u], "503", On(u), By(u), FALSE)
        <5>1. pc[u] \in {"idle", "found"} /\ "503" \in Statuses /\ ("503" = "202") = FALSE
          BY <2>1, <3>1, StatusesApart
        <5>. QED BY <1>s, <5>1, SoundAnswered
      <4> HIDE DEF Is
      <4>. QED BY <1>k, <4>1, <4>2
    <3>2. CASE u # r
      BY <1>f, <1>r, <2>1, <2>2, <2>o, <3>2
    <3>. QED BY <3>1, <3>2
  <2>3. CASE /\ targets # <<>> /\ request' = [request EXCEPT ![r].targets = ordered]
             /\ Goto(r, "forward") /\ UNCHANGED answer
    <3>1. CASE u = r
      <4>1. request[r].id \in RouteIds /\ request[r].route \in RouteDecls
        BY <2>1 DEF ServedOK, Sound
      <4>2. ordered \in Seq(Instances) /\ ordered # <<>> /\ \A n \in 1..Len(ordered) : ordered[n] \in Open(request[r].route)
        BY <2>0, <2>3, <4>1, TargetsSpec
      <4>3. \A n \in 1..Len(ordered) : FlowOf[ordered[n]] = request[u].route.flow_id
        BY <3>1, <4>2 DEF Open
      <4>4. Is("forward", [request[u] EXCEPT !.targets = ordered], answer[u], On(u), By(u), u \in mailbox)
        BY <1>g, <2>1, <2>3, <2>o, <3>1 DEF TypeOK
      <4>5. Sound("forward", [request[u] EXCEPT !.targets = ordered], answer[u], On(u), By(u), u \in mailbox)
        BY <1>s, <2>1, <3>1, <4>2, <4>3, SoundSelected
      <4> HIDE DEF Is
      <4>. QED BY <1>k, <1>s, <4>4, <4>5
    <3>2. CASE u # r
      BY <1>f, <1>g, <2>1, <2>3, <2>o, <3>2 DEF TypeOK
    <3>. QED BY <3>1, <3>2
  <2>. QED BY <2>1, <2>2, <2>3
<1>4. ASSUME NEW r \in Requests, forward_once(r) PROVE ServedOK(u)'
  <2>1. UNCHANGED <<request, handled, answer, mailbox>> /\ pc[r] = "forward" /\ Goto(r, "waiting")
        /\ sent' = sent \cup {<<r, Target(r)>>}
    BY <1>4 DEF forward_once
  <2>2. CASE u = r
    <3>1. Is("waiting", request[u], answer[u], On(u) \cup {request[u].targets[request[u].failures + 1]}, By(u), u \in mailbox)
      <4>1. On(u)' \subseteq On(u) \cup {request[u].targets[request[u].failures + 1]} /\ By(u) \subseteq By(u)'
        BY <2>1, <2>2 DEF On, By, Target
      <4>. QED BY <1>g, <2>1, <2>2, <4>1
    <3>2. Sound("waiting", request[u], answer[u], On(u) \cup {request[u].targets[request[u].failures + 1]}, By(u), u \in mailbox)
      BY <1>s, <2>1, <2>2, SoundSent
    <3> HIDE DEF Is
    <3>. QED BY <1>k, <1>s, <3>1, <3>2
  <2>3. CASE u # r
    <3>1. On(u)' \subseteq On(u) /\ By(u) \subseteq By(u)'
      BY <2>1, <2>3 DEF On, By
    <3>. QED BY <1>f, <1>g, <2>1, <2>3, <3>1
  <2>. QED BY <2>2, <2>3
<1>5. ASSUME NEW r \in Requests, PassOn(r) PROVE ServedOK(u)'
  <2>1. UNCHANGED <<request, sent, handled, mailbox>> /\ pc[r] = "waiting" /\ Respond(r, Target(r))
        /\ <<r, Target(r)>> \in handled
    BY <1>5 DEF PassOn, TypeOK
  <2>o. On(u)' \subseteq On(u) /\ By(u) \subseteq By(u)'
    BY <1>o, <2>1
  <2>2. CASE u = r
    <3>1. Is("answered", request[u], request[u].targets[request[u].failures + 1], On(u), By(u), u \in mailbox)
      BY <1>r, <2>1, <2>2, <2>o DEF Target
    <3>2. request[u].targets[request[u].failures + 1] \in By(u) /\ request[u].targets[request[u].failures + 1] \in Instances
      BY <2>1, <2>2 DEF Target, By, TypeOK
    <3>3. Sound("answered", request[u], request[u].targets[request[u].failures + 1], On(u), By(u), u \in mailbox)
      BY <1>s, <2>1, <2>2, <3>2, SoundPassedOn
    <3> HIDE DEF Is
    <3>. QED BY <1>k, <1>s, <3>1, <3>3
  <2>3. CASE u # r
    BY <1>f, <1>r, <2>1, <2>3, <2>o
  <2>. QED BY <2>2, <2>3
<1>6. ASSUME NEW r \in Requests, Refused(r) \/ TimesOut(r) PROVE ServedOK(u)'
  <2>1. UNCHANGED <<handled, mailbox>> /\ pc[r] = "waiting" /\ Fails(r) /\ sent' \subseteq sent
    BY <1>6 DEF Refused, TimesOut
  <2>o. On(u)' \subseteq On(u) /\ By(u) \subseteq By(u)'
    BY <2>1 DEF On, By
  <2>2. request' = [request EXCEPT ![r].failures = @ + 1]
    BY <2>1 DEF Fails
  <2>3. CASE u = r
    <3>0. request'[u] = [request[u] EXCEPT !.failures = @ + 1]
      BY <2>2, <2>3 DEF TypeOK
    <3>1. CASE request[r].failures + 1 < Candidates(r)
      <4>1. Is("forward", [request[u] EXCEPT !.failures = @ + 1], answer[u], On(u), By(u), u \in mailbox)
        <5>1. Goto(r, "forward") /\ UNCHANGED answer
          BY <2>1, <3>1 DEF Fails
        <5>. QED BY <1>g, <2>1, <2>3, <2>o, <3>0, <5>1
      <4>2. request[u].failures + 1 < 2 /\ request[u].failures + 1 < Len(request[u].targets)
        <5>1. request[u].failures \in Nat /\ Len(request[u].targets) \in Nat
          BY DEF TypeOK, Served
        <5>2. Candidates(u) \in Nat /\ Candidates(u) <= 2 /\ Candidates(u) <= Len(request[u].targets)
          BY CandidatesSpec
        <5>. QED BY <2>3, <3>1, <5>1, <5>2
      <4>3. Sound("forward", [request[u] EXCEPT !.failures = @ + 1], answer[u], On(u), By(u), u \in mailbox)
        BY <1>s, <2>1, <2>3, <4>2, SoundFailed
      <4> HIDE DEF Is
      <4>. QED BY <1>k, <1>s, <4>1, <4>3
    <3>2. CASE ~(request[r].failures + 1 < Candidates(r))
      <4>1. Is("answered", [request[u] EXCEPT !.failures = @ + 1], "502", On(u), By(u), u \in mailbox)
        <5>1. Respond(r, "502")
          BY <2>1, <3>2 DEF Fails
        <5>. QED BY <1>r, <2>1, <2>3, <2>o, <3>0, <5>1
      <4>2. Sound("answered", [request[u] EXCEPT !.failures = @ + 1], "502", On(u), By(u), u \in mailbox)
        BY <1>s, <2>1, <2>3, SoundFailed
      <4> HIDE DEF Is
      <4>. QED BY <1>k, <1>s, <4>1, <4>2
    <3>. QED BY <3>1, <3>2
  <2>4. CASE u # r
    <3>1. request'[u] = request[u]
      BY <2>2, <2>4 DEF TypeOK
    <3>2. pc'[u] = pc[u] /\ answer'[u] = answer[u]
      BY <1>g, <1>r, <2>1, <2>4 DEF Fails
    <3>. QED BY <1>f, <2>1, <2>o, <3>1, <3>2
  <2>. QED BY <2>3, <2>4
<1>7. ASSUME NEW r \in Requests, NEW i \in Instances, Handles(r, i) PROVE ServedOK(u)'
  <2>1. UNCHANGED <<pc, request, answer, mailbox>> /\ <<r, i>> \in sent
        /\ sent' = sent \ {<<r, i>>} /\ handled' = handled \cup {<<r, i>>}
    BY <1>7 DEF Handles
  <2>2. On(u)' \subseteq On(u) /\ By(u) \subseteq By(u)'
    BY <2>1 DEF On, By
  <2>. QED BY <1>f, <2>1, <2>2
<1>8. ASSUME NEW id \in RouteIds, remove_route(id) \/ \E decl \in RouteDecls : declare_route(id, decl) PROVE ServedOK(u)'
  <2>1. UNCHANGED <<pc, request, answer, mailbox, sent, handled>>
    BY <1>8 DEF remove_route, declare_route, routeFree, flightVars
  <2>. QED BY <1>f, <1>o, <2>1
<1>9. ASSUME NEW i \in Instances, declare_instance(i) \/ remove_instance(i) PROVE ServedOK(u)'
  <2>1. UNCHANGED <<pc, request, answer, mailbox, sent, handled>>
    BY <1>9 DEF declare_instance, remove_instance, instanceFree, flightVars
  <2>. QED BY <1>f, <1>o, <2>1
<1>10. ASSUME NEW i \in Instances, heartbeat(i) \/ Dies(i) \/ Starts(i) PROVE ServedOK(u)'
  <2>1. UNCHANGED <<pc, request, answer, mailbox, handled>> /\ sent' \subseteq sent
    BY <1>10 DEF heartbeat, Dies, Starts, reportFree
  <2>2. On(u)' \subseteq On(u) /\ By(u) \subseteq By(u)'
    BY <2>1 DEF On, By
  <2>. QED BY <1>f, <2>1, <2>2
<1>11. CASE UNCHANGED vars
  <2>1. UNCHANGED <<pc, request, answer, mailbox, sent, handled>>
    BY <1>11 DEF vars, flightVars
  <2>. QED BY <1>f, <1>o, <2>1
<1>. QED BY <1>1, <1>2, <1>3, <1>4, <1>5, <1>6, <1>7, <1>8, <1>9, <1>10, <1>11 DEF Next, Serves

-----------------------------------------------------------------------------
(* Selections. *)

\* The selections of a route are finitely many.
LEMMA RoundsFinite ==
  ASSUME NEW made, NEW id, NEW n \in Nat
  PROVE  IsFiniteSet(Rounds(made, id, n)) /\ Cardinality(Rounds(made, id, n)) \in Nat
<1>1. 1 \in Int /\ n \in Int
  OBVIOUS
<1>2. IsFiniteSet(1..n)
  BY <1>1, FS_Interval
<1>3. Rounds(made, id, n) \in SUBSET (1..n)
  BY DEF Rounds
<1>4. IsFiniteSet(Rounds(made, id, n))
  BY <1>2, <1>3, FS_Subset
<1>. QED BY <1>4, FS_CardinalityType

\* A selection extends what is known of the selections before it.
LEMMA PickStep ==
  ASSUME TypeOK, LeastHash, CounterCounts, SelectedInTurn, NEW r \in Requests, ServedOK(r), select_targets(r)
  PROVE  LeastHash' /\ CounterCounts' /\ SelectedInTurn'
<1>0. PICK targets, ordered : targets = running_targets(request[r].route) /\ ordered = order_targets(r, targets)
  OBVIOUS
<1>1. /\ UNCHANGED <<iteration, changes>> /\ pc[r] = "found"
      /\ \/ targets = <<>> /\ Respond(r, "503") /\ UNCHANGED <<round_robin, request, picks>>
         \/ /\ targets # <<>> /\ request' = [request EXCEPT ![r].targets = ordered]
            /\ picks' = Append(picks, Pick(r, targets, ordered)) /\ round_robin' = Counts(r)
            /\ Goto(r, "forward") /\ UNCHANGED answer
  BY <1>0, SelectCases DEF registryVars
<1>2. CASE UNCHANGED <<round_robin, picks>>
  <2>1. LeastHash' /\ CounterCounts'
    BY <1>2 DEF LeastHash, CounterCounts, Rounds
  <2>2. SelectedInTurn'
    BY <1>1, <1>2 DEF SelectedInTurn
  <2>. QED BY <2>1, <2>2
<1>3. CASE targets # <<>> /\ picks' = Append(picks, Pick(r, targets, ordered)) /\ round_robin' = Counts(r)
  <2>1. request[r].id \in RouteIds /\ request[r].route \in RouteDecls
    BY <1>1 DEF ServedOK, Sound
  <2> DEFINE S == Open(request[r].route)
  <2>2. PICK p \in Picks : p = Pick(r, targets, ordered)
    BY <1>0, <1>3, <2>1, PickType
  <2>3. PICK id \in RouteIds : id = request[r].id
    BY <2>1
  <2>4. /\ p.id = id /\ p.epoch = changes /\ p.from = S /\ p.first = ordered[1]
        /\ p.key = (IF Hashed(r) THEN HashKey(r) ELSE None) /\ (Hashed(r) => HashKey(r) # None)
    BY <1>0, <1>3, <2>1, <2>2, <2>3, PickType
  <2>5. PICK N \in Nat : N = Len(picks)
    BY DEF TypeOK
  <2>6. /\ picks \in Seq(Picks) /\ Len(picks') = N + 1 /\ picks'[N + 1] = p
        /\ \A k \in 1..N : picks'[k] = picks[k]
    BY <1>3, <2>2, <2>5 DEF TypeOK
  <2>7. /\ S # {} /\ targets = Ordered(S, iteration)
        /\ Hashed(r) => /\ ordered[1] \in S
                        /\ \A j \in S : HashOrder[HashKey(r)][ordered[1]] <= HashOrder[HashKey(r)][j]
        /\ ~Hashed(r) => ordered[1] = targets[(round_robin[id] % Cardinality(S)) + 1]
    BY <1>0, <1>3, <2>1, <2>3, TargetsSpec
  <2> HIDE DEF S
  <2>8. LeastHash'
    <3> SUFFICES ASSUME NEW n \in 1..(N + 1), picks'[n].key # None
                 PROVE  /\ picks'[n].first \in picks'[n].from
                        /\ \A j \in picks'[n].from : HashOrder[picks'[n].key][picks'[n].first] <= HashOrder[picks'[n].key][j]
      BY <2>6 DEF LeastHash
    <3>1. CASE n \in 1..N
      <4>1. picks'[n] = picks[n]
        BY <2>6, <3>1
      <4>. QED BY <2>5, <3>1, <4>1 DEF LeastHash
    <3>2. CASE n = N + 1
      BY <2>4, <2>6, <2>7, <3>2
    <3>. QED BY <3>1, <3>2
  <2>9. ASSUME NEW n \in 0..N, NEW other PROVE Rounds(picks', other, n) = Rounds(picks, other, n)
    BY <2>6 DEF Rounds
  <2>10. CounterCounts'
    <3> SUFFICES ASSUME NEW other \in RouteIds PROVE round_robin'[other] = Cardinality(Rounds(picks', other, N + 1))
      BY <2>6 DEF CounterCounts, Rounds
    <3>1. round_robin[other] = Cardinality(Rounds(picks, other, N)) /\ Rounds(picks', other, N) = Rounds(picks, other, N)
      BY <2>5, <2>9 DEF CounterCounts
    <3>2. CASE other = id /\ ~Hashed(r)
      <4>1. Rounds(picks', other, N + 1) = Rounds(picks, other, N) \cup {N + 1} /\ N + 1 \notin Rounds(picks, other, N)
        BY <2>4, <2>6, <3>2 DEF Rounds
      <4>2. IsFiniteSet(Rounds(picks, other, N))
        BY RoundsFinite
      <4>3. Cardinality(Rounds(picks, other, N) \cup {N + 1}) = Cardinality(Rounds(picks, other, N)) + 1
        BY <4>1, <4>2, FS_AddElement
      <4>4. round_robin'[other] = round_robin[other] + 1
        BY <1>3, <2>3, <3>2 DEF Counts, TypeOK
      <4>. QED BY <3>1, <4>1, <4>3, <4>4
    <3>3. CASE other # id \/ Hashed(r)
      <4>1. Rounds(picks', other, N + 1) = Rounds(picks, other, N)
        BY <2>4, <2>6, <3>3 DEF Rounds
      <4>2. round_robin'[other] = round_robin[other]
        BY <1>3, <2>3, <3>3 DEF Counts, TypeOK
      <4>. QED BY <3>1, <4>1, <4>2
    <3>. QED BY <3>2, <3>3
  <2>11. SelectedInTurn'
    <3>1. PICK walks \in [0..changes -> Orders] : walks[changes] = iteration /\ WentRound(picks, walks, changes)
      BY DEF SelectedInTurn
    <3>2. WentRound(picks', walks, changes')
      <4> SUFFICES ASSUME NEW n \in 1..(N + 1)
                   PROVE  /\ picks'[n].epoch <= changes'
                          /\ picks'[n].key = None =>
                               /\ picks'[n].from # {}
                               /\ picks'[n].first = Ordered(picks'[n].from, walks[picks'[n].epoch])
                                    [(Cardinality(Rounds(picks', picks'[n].id, n - 1)) % Cardinality(picks'[n].from)) + 1]
        BY <2>6 DEF WentRound, Rounds
      <4>1. CASE n \in 1..N
        <5>1. picks'[n] = picks[n] /\ Rounds(picks', picks[n].id, n - 1) = Rounds(picks, picks[n].id, n - 1)
          BY <2>6, <2>9, <4>1 DEF Rounds
        <5>. QED BY <1>1, <2>5, <2>6, <2>9, <3>1, <4>1, <5>1 DEF WentRound
      <4>2. CASE n = N + 1
        <5>1. picks'[n] = p /\ n - 1 = N /\ changes' = changes /\ changes \in Nat
          BY <1>1, <2>6, <4>2 DEF TypeOK
        <5>2. Rounds(picks', id, N) = Rounds(picks, id, N) /\ Cardinality(Rounds(picks, id, N)) = round_robin[id]
          BY <2>5, <2>9 DEF CounterCounts
        <5>3. p.key = None => ordered[1] = targets[(round_robin[id] % Cardinality(S)) + 1]
          BY <2>4, <2>7
        <5>. QED BY <2>4, <2>7, <3>1, <5>1, <5>2, <5>3
      <4>. QED BY <4>1, <4>2
    <3>. QED BY <1>1, <3>1, <3>2 DEF SelectedInTurn
  <2>. QED BY <2>8, <2>10, <2>11
<1>. QED BY <1>1, <1>2, <1>3

\* Selections stay as they were made, whatever else happens.
LEMMA PicksStep ==
  TypeOK /\ (\A r \in Requests : ServedOK(r)) /\ LeastHash /\ CounterCounts /\ SelectedInTurn /\ [Next]_vars
    => LeastHash' /\ CounterCounts' /\ SelectedInTurn'
<1> SUFFICES ASSUME TypeOK, \A r \in Requests : ServedOK(r), LeastHash, CounterCounts, SelectedInTurn, [Next]_vars
             PROVE  LeastHash' /\ CounterCounts' /\ SelectedInTurn'
  OBVIOUS
<1>1. ASSUME UNCHANGED <<picks, round_robin>> PROVE LeastHash' /\ CounterCounts'
  BY <1>1 DEF LeastHash, CounterCounts
<1>2. ASSUME UNCHANGED <<picks, round_robin, changes, iteration>> PROVE LeastHash' /\ CounterCounts' /\ SelectedInTurn'
  <2>1. SelectedInTurn'
    BY <1>2 DEF SelectedInTurn
  <2>. QED BY <1>1, <1>2, <2>1
<1>3. ASSUME UNCHANGED <<picks, round_robin>>, changes' = changes + 1, iteration' \in Orders
      PROVE  LeastHash' /\ CounterCounts' /\ SelectedInTurn'
  <2>1. PICK walks \in [0..changes -> Orders] : walks[changes] = iteration /\ WentRound(picks, walks, changes)
    BY DEF SelectedInTurn
  <2>2. PICK c \in Nat, x \in Orders : c = changes /\ x = iteration' /\ walks \in [0..c -> Orders] /\ changes' = c + 1
    BY <1>3, <2>1 DEF TypeOK
  <2> DEFINE walks2 == [e \in 0..(c + 1) |-> IF e <= c THEN walks[e] ELSE x]
  <2>3. walks2 \in [0..(c + 1) -> Orders] /\ walks2[c + 1] = x /\ \A e \in 0..c : walks2[e] = walks[e]
    BY <2>2
  <2> HIDE DEF walks2
  <2>4. WentRound(picks, walks2, c + 1)
    <3> SUFFICES ASSUME NEW n \in 1..Len(picks)
                 PROVE  /\ picks[n].epoch <= c + 1
                        /\ picks[n].key = None =>
                             /\ picks[n].from # {}
                             /\ picks[n].first = Ordered(picks[n].from, walks2[picks[n].epoch])
                                  [(Cardinality(Rounds(picks, picks[n].id, n - 1)) % Cardinality(picks[n].from)) + 1]
      BY DEF WentRound
    <3>1. picks[n].epoch \in Nat
      <4>1. picks[n] \in Picks
        BY DEF TypeOK
      <4>. QED BY <4>1 DEF Picks
    <3>2. picks[n].epoch <= c
      BY <2>1, <2>2 DEF WentRound
    <3>3. walks2[picks[n].epoch] = walks[picks[n].epoch] /\ picks[n].epoch <= c + 1
      BY <2>3, <3>1, <3>2
    <3>. QED BY <2>1, <2>2, <3>3 DEF WentRound
  <2>5. SelectedInTurn'
    BY <1>3, <2>2, <2>3, <2>4 DEF SelectedInTurn
  <2>. QED BY <1>1, <1>3, <2>5
<1>4. ASSUME NEW r \in Requests, select_targets(r) PROVE LeastHash' /\ CounterCounts' /\ SelectedInTurn'
  BY <1>4, PickStep
<1>5. ASSUME NEW r \in Requests,
             gateway(r) \/ bus_dispatch(r) \/ forward_once(r) \/ PassOn(r) \/ Refused(r) \/ TimesOut(r)
      PROVE  LeastHash' /\ CounterCounts' /\ SelectedInTurn'
  <2>1. UNCHANGED <<picks, round_robin, changes, iteration>>
    BY <1>5 DEF gateway, bus_dispatch, forward_once, PassOn, Refused, TimesOut, registryVars
  <2>. QED BY <1>2, <2>1
<1>6. ASSUME NEW r \in Requests, NEW i \in Instances, Handles(r, i) PROVE LeastHash' /\ CounterCounts' /\ SelectedInTurn'
  <2>1. UNCHANGED <<picks, round_robin, changes, iteration>>
    BY <1>6 DEF Handles, registryVars
  <2>. QED BY <1>2, <2>1
<1>7. ASSUME NEW id \in RouteIds, remove_route(id) \/ \E decl \in RouteDecls : declare_route(id, decl)
      PROVE  LeastHash' /\ CounterCounts' /\ SelectedInTurn'
  <2>1. UNCHANGED <<picks, round_robin, iteration>> /\ changes' = changes + 1
    BY <1>7 DEF remove_route, declare_route, routeFree
  <2>. QED BY <1>3, <2>1 DEF TypeOK
<1>8. ASSUME NEW i \in Instances, declare_instance(i) \/ remove_instance(i) PROVE LeastHash' /\ CounterCounts' /\ SelectedInTurn'
  <2>1. UNCHANGED <<picks, round_robin>> /\ changes' = changes + 1 /\ iteration' \in Orders
    BY <1>8 DEF declare_instance, remove_instance, instanceFree, TypeOK
  <2>. QED BY <1>3, <2>1
<1>9. ASSUME NEW i \in Instances, heartbeat(i) \/ Dies(i) \/ Starts(i) PROVE LeastHash' /\ CounterCounts' /\ SelectedInTurn'
  <2>1. UNCHANGED <<picks, round_robin, changes, iteration>>
    BY <1>9 DEF heartbeat, Dies, Starts, reportFree, registryVars
  <2>. QED BY <1>2, <2>1
<1>10. CASE UNCHANGED vars
  <2>1. UNCHANGED <<picks, round_robin, changes, iteration>>
    BY <1>10 DEF vars, registryVars
  <2>. QED BY <1>2, <2>1
<1>. QED BY <1>4, <1>5, <1>6, <1>7, <1>8, <1>9, <1>10 DEF Next, Serves

-----------------------------------------------------------------------------
\* The gateway starts with nothing asked and nothing selected.
LEMMA InitHolds == Init => IInv
<1> SUFFICES ASSUME Init PROVE IInv
  OBVIOUS
<1>1. TypeOK
  <2>1. iteration \in Orders
    BY OrdersSpec DEF Init
  <2>2. NoRequest \in Served
    BY DEF NoRequest, Served
  <2>3. "idle" \in Places
    BY DEF Places
  <2>. QED BY <2>1, <2>2, <2>3, GatewayAssumption DEF Init, TypeOK
<1>2. ASSUME NEW r \in Requests PROVE ServedOK(r)
  <2>1. /\ pc[r] = "idle" /\ request[r] = NoRequest /\ answer[r] = None /\ r \notin mailbox
        /\ On(r) = {} /\ By(r) = {}
    BY DEF Init, On, By
  <2>2. NoRequest.targets = <<>> /\ NoRequest.failures = 0
    BY DEF NoRequest
  <2>3. Tried("idle", NoRequest, None) = 0
    BY <2>2, StatusesApart DEF Tried
  <2>4. Sound("idle", NoRequest, None, {}, {}, FALSE)
    BY <2>2, <2>3, StatusesApart DEF Sound
  <2>5. (r \in mailbox) = FALSE
    BY <2>1
  <2>6. Sound(pc[r], request[r], answer[r], On(r), By(r), r \in mailbox)
    BY <2>1, <2>4, <2>5
  <2>. QED BY <2>6 DEF ServedOK
<1>3. picks = <<>> /\ Len(picks) = 0 /\ changes = 0
  BY DEF Init
<1>4. LeastHash
  BY <1>3 DEF LeastHash
<1>5. CounterCounts
  <2> SUFFICES ASSUME NEW id \in RouteIds PROVE round_robin[id] = Cardinality(Rounds(picks, id, Len(picks)))
    BY DEF CounterCounts
  <2>1. Rounds(picks, id, Len(picks)) = {}
    BY <1>3 DEF Rounds
  <2>2. Cardinality({}) = 0
    BY FS_EmptySet
  <2>. QED BY <2>1, <2>2 DEF Init
<1>6. SelectedInTurn
  <2> DEFINE walks == [e \in 0..changes |-> iteration]
  <2>1. walks \in [0..changes -> Orders] /\ walks[changes] = iteration
    BY <1>1, <1>3 DEF TypeOK
  <2> HIDE DEF walks
  <2>2. WentRound(picks, walks, changes)
    BY <1>3 DEF WentRound
  <2>. QED BY <2>1, <2>2 DEF SelectedInTurn
<1>. QED BY <1>1, <1>2, <1>4, <1>5, <1>6 DEF IInv

\* The inductive invariant holds throughout.
THEOREM Invariance == Spec => []IInv
<1>1. Init => IInv
  BY InitHolds
<1>2. IInv /\ [Next]_vars => IInv'
  BY TypeStep, ServedStep, PicksStep DEF IInv
<1>. QED BY <1>1, <1>2, PTL DEF Spec

\* AnswersTruthful: what a caller is told is what happened to its request.
THEOREM CallersAreToldTheTruth == Spec => []AnswersTruthful
<1>1. IInv => AnswersTruthful
  <2> SUFFICES ASSUME IInv, NEW r \in Requests
               PROVE  /\ answer[r] \in Instances =>
                           answer[r] \in By(r) /\ FlowOf[answer[r]] = request[r].route.flow_id
                      /\ answer[r] \in {"404", "400", "503", "202"} => On(r) = {}
                      /\ (answer[r] = "202") = (r \in mailbox)
                      /\ Cardinality(On(r)) <= 2
                      /\ Cardinality(On(r)) = 2 => request[r].failures > 0
    BY DEF AnswersTruthful
  <2>1. Sound(pc[r], request[r], answer[r], On(r), By(r), r \in mailbox) /\ request[r] \in Served
    BY DEF IInv, ServedOK, TypeOK
  <2>2. PICK t \in Nat : t = Tried(pc[r], request[r], answer[r])
    BY <2>1 DEF Tried, Served
  <2>3. /\ t <= 2 /\ t <= request[r].failures + 1 /\ request[r].failures \in Nat
        /\ \A i \in On(r) : \E k \in 1..Len(request[r].targets) : k <= t /\ request[r].targets[k] = i
    BY <2>1, <2>2 DEF Sound, Tried, Served
  <2>4. answer[r] \in {"404", "400", "503", "202"} => On(r) = {}
    <3> SUFFICES ASSUME answer[r] \in {"404", "400", "503", "202"} PROVE On(r) = {}
      OBVIOUS
    <3>1. answer[r] \in Statuses \ {"502"}
      BY DEF Statuses
    <3>2. request[r].targets = <<>>
      BY <2>1, <3>1 DEF Sound
    <3>. QED BY <2>3, <3>2
  <2>5. PICK a, b : a = request[r].targets[1] /\ b = request[r].targets[2]
    OBVIOUS
  <2>6. On(r) \in SUBSET {a, b} /\ (request[r].failures = 0 => On(r) \in SUBSET {a})
    <3>1. ASSUME NEW k \in 1..Len(request[r].targets), k <= t PROVE k \in {1, 2} /\ (request[r].failures = 0 => k = 1)
      BY <2>1, <2>3, <3>1 DEF Served
    <3>. QED BY <2>3, <2>5, <3>1
  <2>7. IsFiniteSet({a}) /\ Cardinality({a}) = 1
    BY FS_Singleton
  <2>8. IsFiniteSet({a, b}) /\ Cardinality({a, b}) <= 2
    <3>1. {a, b} = {a} \cup {b}
      OBVIOUS
    <3>2. IsFiniteSet({a} \cup {b}) /\ (Cardinality({a} \cup {b}) = Cardinality({a}) \/ Cardinality({a} \cup {b}) = Cardinality({a}) + 1)
      BY <2>7, FS_AddElement
    <3>. QED BY <2>7, <3>1, <3>2
  <2>9. IsFiniteSet(On(r)) /\ Cardinality(On(r)) \in Nat /\ Cardinality({a, b}) \in Nat
    BY <2>6, <2>8, FS_Subset, FS_CardinalityType
  <2>10. Cardinality(On(r)) <= Cardinality({a, b}) /\ (request[r].failures = 0 => Cardinality(On(r)) <= 1)
    BY <2>6, <2>7, <2>8, FS_Subset
  <2>. QED BY <2>1, <2>3, <2>4, <2>8, <2>9, <2>10 DEF Sound
<1>. QED BY <1>1, Invariance, PTL

\* KeyKeepsTarget: a sticky key moves only when it must.
THEOREM KeysStay == Spec => []KeyKeepsTarget
<1>1. IInv => KeyKeepsTarget
  <2> SUFFICES ASSUME IInv, NEW m \in 1..Len(picks), NEW n \in 1..Len(picks),
                      picks[m].key # None, picks[m].key = picks[n].key,
                      picks[m].first \in picks[n].from, picks[n].first \in picks[m].from
               PROVE  picks[m].first = picks[n].first
    BY DEF KeyKeepsTarget
  <2>1. picks[m] \in Picks /\ picks[n] \in Picks
    BY DEF IInv, TypeOK
  <2>2. PICK k \in Keys, f \in Instances, g \in Instances : k = picks[m].key /\ f = picks[m].first /\ g = picks[n].first
    BY <2>1 DEF Picks
  <2>3. HashOrder[k][f] <= HashOrder[k][g] /\ HashOrder[k][g] <= HashOrder[k][f]
    BY <2>2 DEF IInv, LeastHash
  <2>4. HashOrder[k] \in [Instances -> Nat] /\ \A i, j \in Instances : HashOrder[k][i] = HashOrder[k][j] => i = j
    BY OrdersSpec
  <2>5. HashOrder[k][f] = HashOrder[k][g]
    BY <2>3, <2>4
  <2>. QED BY <2>2, <2>4, <2>5
<1>. QED BY <1>1, Invariance, PTL

\* Counters less than a round apart stand at different places.
LEMMA LessThanARound ==
  ASSUME NEW L \in Nat \ {0}, NEW a \in Nat, NEW d \in 1..(L - 1)
  PROVE  a % L # (a + d) % L
<1> SUFFICES ASSUME a % L = (a + d) % L PROVE FALSE
  OBVIOUS
<1>1. PICK p \in Int, q \in Int, x \in 0..(L - 1) :
        p = a \div L /\ q = (a + d) \div L /\ x = a % L /\ x = (a + d) % L
  <2>1. a \div L \in Int /\ a % L \in 0..(L - 1)
    OBVIOUS
  <2>2. (a + d) \div L \in Int
    OBVIOUS
  <2>. QED BY <2>1, <2>2
<1>2. a = L * p + x /\ a + d = L * q + x
  BY <1>1
<1>3. d = L * (q - p)
  BY <1>2
<1>4. PICK z \in Int : z = q - p /\ d = L * z
  BY <1>3
<1>5. CASE z <= 0
  <2>1. L * z <= 0
    BY <1>5
  <2>. QED BY <1>4, <2>1
<1>6. CASE z >= 1
  <2>1. L * z >= L
    BY <1>6
  <2>. QED BY <1>4, <2>1
<1>. QED BY <1>5, <1>6

\* SelectionSpreads: round robin goes round.
THEOREM RoundRobinGoesRound == Spec => []SelectionSpreads
<1>1. IInv => SelectionSpreads
  <2> SUFFICES ASSUME IInv, NEW m \in 1..Len(picks), NEW n \in 1..Len(picks), NEW between,
                      between = {k \in m..n : picks[k].id = picks[m].id /\ picks[k].key = None},
                      m < n, {m, n} \subseteq between, Cardinality(between) <= Cardinality(picks[m].from),
                      \A k \in between : picks[k].from = picks[m].from /\ picks[k].epoch = picks[m].epoch,
                      picks[m].first = picks[n].first
               PROVE  FALSE
    BY DEF SelectionSpreads
  <2>1. picks[m] \in Picks /\ Len(picks) \in Nat
    BY DEF IInv, TypeOK
  <2>2. PICK S \in SUBSET Instances, id \in RouteIds : S = picks[m].from /\ id = picks[m].id
    BY <2>1 DEF Picks
  <2>3. PICK walks \in [0..changes -> Orders] : WentRound(picks, walks, changes)
    BY DEF IInv, SelectedInTurn
  <2>4. /\ picks[m].key = None /\ picks[n].key = None /\ picks[n].id = id
        /\ picks[n].from = S /\ picks[n].epoch = picks[m].epoch
    BY <2>2
  <2>5. PICK walk \in Orders : walk = walks[picks[m].epoch]
    <3>1. picks[m].epoch \in 0..changes
      <4>1. picks[m].epoch \in Nat /\ changes \in Nat
        BY <2>1 DEF Picks, IInv, TypeOK
      <4>2. picks[m].epoch <= changes
        BY <2>3 DEF WentRound
      <4>. QED BY <4>1, <4>2
    <3>. QED BY <3>1
  <2>6. walk \in [Instances -> Nat] /\ \A i, j \in Instances : walk[i] = walk[j] => i = j
    BY OrdersSpec
  <2>7. /\ IsFiniteSet(S) /\ Cardinality(S) \in Nat
        /\ \A x, y \in 1..Cardinality(S) : Ordered(S, walk)[x] = Ordered(S, walk)[y] => x = y
    BY <2>6, OrderedInstances
  <2>8. S # {}
    BY <2>2, <2>3, <2>4 DEF WentRound
  <2>9. PICK L \in Nat \ {0} : L = Cardinality(S)
    BY <2>7, <2>8, FS_EmptySet
  <2>10. m - 1 \in Nat /\ n - 1 \in Nat /\ m \in Nat /\ n \in Nat
    BY <2>1
  <2>11. PICK a \in Nat, c \in Nat : a = Cardinality(Rounds(picks, id, m - 1)) /\ c = Cardinality(Rounds(picks, id, n - 1))
    BY <2>10, RoundsFinite
  <2>12. PICK rest : rest = between \ {n}
    OBVIOUS
  <2>13. Rounds(picks, id, n - 1) = Rounds(picks, id, m - 1) \cup rest /\ Rounds(picks, id, m - 1) \cap rest = {}
    BY <2>2, <2>10, <2>12 DEF Rounds
  <2>14. IsFiniteSet(between) /\ IsFiniteSet(rest) /\ IsFiniteSet(Rounds(picks, id, m - 1))
    <3>1. m \in Int /\ n \in Int
      BY <2>10
    <3>2. IsFiniteSet(m..n)
      BY <3>1, FS_Interval
    <3>3. between \in SUBSET (m..n) /\ rest \in SUBSET between
      BY <2>12
    <3>. QED BY <2>10, <3>2, <3>3, FS_Subset, RoundsFinite
  <2>15. PICK d \in Nat : d = Cardinality(rest)
    BY <2>14, FS_CardinalityType
  <2>16. c = a + d
    <3>1. Cardinality(Rounds(picks, id, m - 1) \cup rest) = Cardinality(Rounds(picks, id, m - 1)) + Cardinality(rest)
      <4>1. Cardinality(Rounds(picks, id, m - 1) \cap rest) = 0
        BY <2>13, FS_EmptySet
      <4>2. Cardinality(Rounds(picks, id, m - 1) \cup rest)
              = Cardinality(Rounds(picks, id, m - 1)) + Cardinality(rest) - Cardinality(Rounds(picks, id, m - 1) \cap rest)
        BY <2>14, FS_Union
      <4>. QED BY <2>11, <2>15, <4>1, <4>2
    <3>. QED BY <2>11, <2>13, <2>15, <3>1
  <2>17. d \in 1..(L - 1)
    <3>1. Cardinality(between) = d + 1
      <4>1. between = rest \cup {n} /\ n \notin rest
        BY <2>12
      <4>. QED BY <2>14, <2>15, <4>1, FS_AddElement
    <3>2. d # 0
      <4>1. m \in rest
        BY <2>10, <2>12
      <4>. QED BY <2>14, <2>15, <4>1, FS_EmptySet
    <3>. QED BY <2>2, <2>9, <2>15, <3>1, <3>2
  <2>18. picks[m].first = Ordered(S, walk)[(a % L) + 1] /\ picks[n].first = Ordered(S, walk)[(c % L) + 1]
    BY <2>2, <2>3, <2>4, <2>5, <2>9, <2>11 DEF WentRound
  <2>19. (a % L) + 1 \in 1..L /\ (c % L) + 1 \in 1..L
    OBVIOUS
  <2>20. (a % L) + 1 = (c % L) + 1
    BY <2>7, <2>9, <2>18, <2>19
  <2>21. a % L = c % L
    BY <2>20, <2>19
  <2>. QED BY <2>16, <2>17, <2>21, LessThanARound
<1>. QED BY <1>1, Invariance, PTL
=============================================================================
