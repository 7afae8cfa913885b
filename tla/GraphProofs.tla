---------------------------- MODULE GraphProofs ----------------------------
(***************************************************************************)
(* Proofs about the building of a flow's graph (Startup) and about the     *)
(* walk of records through it (ControlNodes), which share the lemmas about *)
(* sequences, routes and finite sets at the head of the module.            *)
(***************************************************************************)
EXTENDS Startup, ControlNodes, FiniteSetTheorems, TLAPS

-----------------------------------------------------------------------------
(* The sequences the graph is made of. *)

\* Rising lists every member of a set of numbers once, the least first.
LEMMA RisingSpec ==
  ASSUME NEW S \in SUBSET Nat, IsFiniteSet(S)
  PROVE  /\ Cardinality(S) \in Nat
         /\ DOMAIN Rising(S) = 1..Cardinality(S)
         /\ \A n \in 1..Cardinality(S) : Rising(S)[n] \in S
         /\ \A m, n \in 1..Cardinality(S) : Rising(S)[m] = Rising(S)[n] => m = n
         /\ \A i \in S : \E n \in 1..Cardinality(S) : Rising(S)[n] = i
         /\ S # {} => \E i \in S : \A j \in S : i <= j
<1> DEFINE Below(i) == {j \in S : j < i}
           N == Cardinality(S)
           rank == [i \in S |-> Cardinality(Below(i)) + 1]
<1>1. N \in Nat
  BY FS_CardinalityType
<1>2. \A i \in S : IsFiniteSet(Below(i)) /\ Cardinality(Below(i)) \in Nat /\ Cardinality(Below(i)) < N
  <2> SUFFICES ASSUME NEW i \in S
               PROVE  IsFiniteSet(Below(i)) /\ Cardinality(Below(i)) \in Nat /\ Cardinality(Below(i)) < N
    OBVIOUS
  <2>1. Below(i) \in SUBSET S /\ i \notin Below(i)
    OBVIOUS
  <2> HIDE DEF Below
  <2>2. IsFiniteSet(Below(i)) /\ Cardinality(Below(i)) <= N /\ Cardinality(Below(i)) # N
    BY <2>1, FS_Subset
  <2>3. Cardinality(Below(i)) \in Nat
    BY <2>2, FS_CardinalityType
  <2>. QED BY <1>1, <2>2, <2>3
<1>3. \A i, j \in S : i < j => Cardinality(Below(i)) < Cardinality(Below(j))
  <2> SUFFICES ASSUME NEW i \in S, NEW j \in S, i < j PROVE Cardinality(Below(i)) < Cardinality(Below(j))
    OBVIOUS
  <2>1. Below(i) \in SUBSET Below(j) /\ i \in Below(j) /\ i \notin Below(i)
    <3>1. i \in Nat /\ j \in Nat /\ \A k \in S : k \in Nat
      OBVIOUS
    <3>2. \A k \in Below(i) : k \in Below(j)
      BY <3>1
    <3>3. i \in Below(j) /\ i \notin Below(i)
      BY <3>1
    <3>. QED BY <3>2, <3>3, Zenon
  <2> HIDE DEF Below
  <2>2. IsFiniteSet(Below(j)) /\ Cardinality(Below(i)) \in Nat /\ Cardinality(Below(j)) \in Nat
    BY <1>2
  <2>3. Cardinality(Below(i)) <= Cardinality(Below(j)) /\ Cardinality(Below(i)) # Cardinality(Below(j))
    BY <2>1, <2>2, FS_Subset
  <2>. QED BY <2>2, <2>3
<1> HIDE DEF Below, N
<1>4. \A i, j \in S : Cardinality(Below(i)) = Cardinality(Below(j)) => i = j
  BY <1>2, <1>3
<1>5. rank \in [S -> 1..N] /\ \A i \in S : rank[i] = Cardinality(Below(i)) + 1
  BY <1>1, <1>2
<1> HIDE DEF rank
<1>6. rank \in Injection(S, 1..N)
  <2>1. \A i, j \in S : rank[i] = rank[j] => i = j
    BY <1>2, <1>4, <1>5
  <2>. QED BY <1>5, <2>1 DEF Injection, IsInjective
<1>7. \A n \in 1..N : \E i \in S : rank[i] = n
  <2>1. IsFiniteSet(1..N) /\ Cardinality(1..N) = N
    BY <1>1, FS_Interval
  <2>2. rank \in Surjection(S, 1..N)
    BY <1>6, <2>1, FS_Injection DEF N
  <2>. QED BY <2>2 DEF Surjection
<1>8. DOMAIN Rising(S) = 1..N /\ \A n \in 1..N : Rising(S)[n] = CHOOSE i \in S : Cardinality(Below(i)) = n - 1
  BY DEF Rising, N, Below
<1>9. \A n \in 1..N : Rising(S)[n] \in S /\ Cardinality(Below(Rising(S)[n])) = n - 1
  <2> SUFFICES ASSUME NEW n \in 1..N PROVE Rising(S)[n] \in S /\ Cardinality(Below(Rising(S)[n])) = n - 1
    OBVIOUS
  <2>1. \E i \in S : Cardinality(Below(i)) = n - 1
    <3>1. PICK i \in S : rank[i] = n
      BY <1>7
    <3>2. Cardinality(Below(i)) = n - 1
      BY <1>1, <1>2, <1>5, <3>1
    <3>. QED BY <3>2
  <2>. QED BY <1>8, <2>1
<1>10. \A i \in S : \E n \in 1..N : Rising(S)[n] = i
  <2> SUFFICES ASSUME NEW i \in S PROVE \E n \in 1..N : Rising(S)[n] = i
    OBVIOUS
  <2>1. rank[i] \in 1..N /\ Cardinality(Below(i)) = rank[i] - 1
    BY <1>1, <1>2, <1>5
  <2>. QED BY <1>4, <1>9, <2>1
<1>11. ASSUME S # {} PROVE \E i \in S : \A j \in S : i <= j
  <2>1. 1 \in 1..N
    <3>1. N # 0
      BY <1>11, FS_EmptySet DEF N
    <3>. QED BY <1>1, <3>1
  <2>2. PICK i \in S : Cardinality(Below(i)) = 0
    <3>1. Rising(S)[1] \in S /\ Cardinality(Below(Rising(S)[1])) = 1 - 1
      BY <1>9, <2>1
    <3>2. 1 - 1 = 0
      OBVIOUS
    <3>. QED BY <3>1, <3>2, Zenon
  <2>3. Below(i) = {}
    BY <1>2, <2>2, FS_EmptySet
  <2>. QED BY <2>3 DEF Below
<1>12. \A m, n \in 1..N : Rising(S)[m] = Rising(S)[n] => m = n
  BY <1>1, <1>9
<1>. QED BY <1>1, <1>8, <1>9, <1>10, <1>11, <1>12 DEF N

\* What is selected from a sequence is what it has at the places, as often.
LEMMA SelectSpec ==
  ASSUME NEW T, NEW s \in Seq(T), NEW places \in SUBSET DOMAIN s
  PROVE  /\ Select(s, places) \in Seq(T)
         /\ \A k \in DOMAIN Select(s, places) : \E i \in places : Select(s, places)[k] = s[i]
         /\ \A i \in places : \E k \in DOMAIN Select(s, places) : Select(s, places)[k] = s[i]
<1>1. places \in SUBSET Nat /\ IsFiniteSet(places)
  <2>1. DOMAIN s = 1..Len(s) /\ Len(s) \in Nat
    OBVIOUS
  <2>2. IsFiniteSet(1..Len(s))
    BY <2>1, FS_Interval
  <2>. QED BY <2>1, <2>2, FS_Subset
<1> DEFINE at == Rising(places)
<1>2. /\ Cardinality(places) \in Nat
      /\ DOMAIN at = 1..Cardinality(places)
      /\ \A n \in 1..Cardinality(places) : at[n] \in places
      /\ \A i \in places : \E n \in 1..Cardinality(places) : at[n] = i
  BY <1>1, RisingSpec
<1>3. Select(s, places) = [k \in 1..Cardinality(places) |-> s[at[k]]]
  BY <1>2 DEF Select
<1> HIDE DEF at
<1>4. \A k \in 1..Cardinality(places) : s[at[k]] \in T
  BY <1>2
<1>5. Select(s, places) \in [1..Cardinality(places) -> T]
  BY <1>3, <1>4
<1>6. Select(s, places) \in Seq(T) /\ DOMAIN Select(s, places) = 1..Cardinality(places)
  <2> DEFINE n == Cardinality(places)
             chosen == Select(s, places)
  <2>1. n \in Nat /\ chosen \in [1..n -> T]
    BY <1>2, <1>5
  <2> HIDE DEF n, chosen
  <2>2. chosen \in Seq(T) /\ DOMAIN chosen = 1..n
    BY ONLY <2>1
  <2>. QED BY <2>2 DEF n, chosen
<1>7. \A k \in 1..Cardinality(places) : Select(s, places)[k] = s[at[k]]
  BY <1>3
<1>. QED BY ONLY <1>2, <1>6, <1>7

\* The routes of one node: its edges.
LEMMA FromSpec ==
  ASSUME NEW edges \in Seq(EdgeConfigs), NEW id
  PROVE  /\ From(edges, id) \in Seq(EdgeConfigs)
         /\ \A k \in DOMAIN From(edges, id) : \E i \in DOMAIN edges : edges[i].from = id /\ edges[i] = From(edges, id)[k]
         /\ \A i \in DOMAIN edges : edges[i].from = id => \E k \in DOMAIN From(edges, id) : From(edges, id)[k] = edges[i]
<1> DEFINE places == {i \in DOMAIN edges : edges[i].from = id}
<1>1. places \in SUBSET DOMAIN edges
  OBVIOUS
<1>2. From(edges, id) = Select(edges, places)
  BY DEF From
<1>3. \A i : i \in places <=> i \in DOMAIN edges /\ edges[i].from = id
  OBVIOUS
<1> HIDE DEF places
<1>4. /\ From(edges, id) \in Seq(EdgeConfigs)
      /\ \A k \in DOMAIN From(edges, id) : \E i \in places : From(edges, id)[k] = edges[i]
      /\ \A i \in places : \E k \in DOMAIN From(edges, id) : From(edges, id)[k] = edges[i]
  BY <1>1, <1>2, SelectSpec
<1>. QED BY <1>3, <1>4

\* A finite set as a sequence, each member once.
LEMMA ListSpec ==
  ASSUME NEW S, IsFiniteSet(S), NEW f \in SetToSeqs(S)
  PROVE  /\ f \in Seq(S) /\ Len(f) = Cardinality(S)
         /\ ToSet(f) = S
         /\ \A i, j \in 1..Len(f) : f[i] = f[j] => i = j
<1> DEFINE N == Cardinality(S)
<1>1. N \in Nat
  BY FS_CardinalityType
<1> HIDE DEF N
<1>2. f \in [1..N -> S] /\ \A i, j \in 1..N : f[i] = f[j] => i = j
  BY DEF SetToSeqs, N
<1>3. f \in Seq(S) /\ Len(f) = N /\ DOMAIN f = 1..N
  BY <1>1, <1>2
<1>4. f \in Injection(1..N, S)
  BY <1>2 DEF Injection, IsInjective
<1>5. f \in Surjection(1..N, S)
  <2>1. IsFiniteSet(1..N) /\ Cardinality(1..N) = N
    BY <1>1, FS_Interval
  <2>. QED BY <1>4, <2>1, FS_Injection DEF N
<1>6. ToSet(f) = S
  BY <1>2, <1>3, <1>5 DEF Surjection, ToSet
<1>. QED BY <1>2, <1>3, <1>6 DEF N

\* The same for the order the program happens to take.
LEMMA SomeListSpec ==
  ASSUME NEW S, IsFiniteSet(S)
  PROVE  SetToSeq(S) \in Seq(S) /\ ToSet(SetToSeq(S)) = S
<1> DEFINE N == Cardinality(S)
           f == SetToSeq(S)
<1>1. N \in Nat /\ \E g \in [1..N -> S] : IsInjective(g)
  <2>1. N \in Nat /\ ExistsBijection(1..N, S)
    BY FS_CardinalityType
  <2>2. PICK g \in Bijection(1..N, S) : TRUE
    BY <2>1 DEF ExistsBijection
  <2> HIDE DEF N
  <2>3. g \in [1..N -> S] /\ IsInjective(g)
    BY <2>2 DEF Bijection, Injection, IsInjective
  <2>. QED BY <2>1, <2>3
<1>2. f \in [1..N -> S] /\ IsInjective(f)
  BY <1>1 DEF SetToSeq
<1>3. f \in SetToSeqs(S)
  BY <1>2 DEF SetToSeqs, IsInjective
<1> HIDE DEF f
<1>4. f \in Seq(S) /\ ToSet(f) = S
  BY <1>3, ListSpec
<1>. QED BY <1>4 DEF f

-----------------------------------------------------------------------------
(* The flow, as it was given and as its templates leave it. *)

Commands == {"run", "serve", "approve"}

\* What was given keeps its shape when templates are applied.
GivenOK ==
  /\ input \in [command : Commands, flow : FlowConfigs(input.flow.templates),
                trusted : Seq(ManifestFiles), user : Seq(ManifestFiles)]
  /\ \A t \in DOMAIN flow.templates : flow.templates[t] \in StepConfigs

Validated == validate_triggers /\ validate_steps /\ validate_edges

\* The shape of a flow, whether given or built.
FlowShape(f) == f.steps \in Seq(StepConfigs) /\ f.edges \in Seq(EdgeConfigs) /\ f.triggers \in Seq(STRING)

\* Its parts.
LEMMA ShapeParts ==
  ASSUME NEW f, FlowShape(f)
  PROVE  /\ f.steps \in Seq(StepConfigs) /\ f.edges \in Seq(EdgeConfigs)
         /\ f.triggers \in Seq(STRING)
         /\ DOMAIN f.steps = 1..Len(f.steps) /\ Len(f.steps) \in Nat
         /\ DOMAIN f.edges = 1..Len(f.edges) /\ Len(f.edges) \in Nat
         /\ DOMAIN f.triggers = 1..Len(f.triggers) /\ Len(f.triggers) \in Nat
         /\ \A i \in DOMAIN f.steps : f.steps[i].id \in STRING /\ f.steps[i].targets \in Seq(STRING)
<1>1. /\ f.steps \in Seq(StepConfigs) /\ f.edges \in Seq(EdgeConfigs)
      /\ f.triggers \in Seq(STRING)
  BY DEF FlowShape
<1>2. ASSUME NEW i \in DOMAIN f.steps PROVE f.steps[i].id \in STRING /\ f.steps[i].targets \in Seq(STRING)
  <2>1. f.steps[i] \in StepConfigs
    BY <1>1
  <2>. QED BY <2>1 DEF StepConfigs
<1>. QED BY <1>1, <1>2

\* The parts of a flow that is given.
LEMMA FlowParts ==
  ASSUME GivenOK
  PROVE  /\ command \in Commands /\ FlowShape(flow)
         /\ flow.steps \in Seq(StepConfigs) /\ flow.edges \in Seq(EdgeConfigs)
         /\ flow.triggers \in Seq(STRING)
         /\ DOMAIN flow.steps = 1..Len(flow.steps) /\ Len(flow.steps) \in Nat
         /\ DOMAIN flow.edges = 1..Len(flow.edges) /\ Len(flow.edges) \in Nat
         /\ DOMAIN flow.triggers = 1..Len(flow.triggers) /\ Len(flow.triggers) \in Nat
         /\ \A i \in DOMAIN flow.steps : flow.steps[i].id \in STRING /\ flow.steps[i].targets \in Seq(STRING)
<1>1. command \in Commands /\ FlowShape(flow)
  BY DEF GivenOK, flow, command, FlowConfigs, FlowShape
<1>. QED BY <1>1, ShapeParts

\* The values of a function over an interval of numbers are finitely many.
LEMMA FiniteRange ==
  ASSUME NEW n \in Nat, NEW f, DOMAIN f = 1..n
  PROVE  IsFiniteSet({f[i] : i \in 1..n})
<1> DEFINE R == {f[i] : i \in 1..n}
           g == [i \in 1..n |-> f[i]]
<1>1. g \in Surjection(1..n, R)
  BY DEF Surjection
<1>2. IsFiniteSet(1..n)
  BY FS_Interval
<1>. QED BY <1>1, <1>2, FS_Surjection

\* The nodes of a flow are finitely many.
LEMMA FiniteIds ==
  ASSUME GivenOK
  PROVE  /\ IsFiniteSet(StepIds(flow)) /\ IsFiniteSet(Ids(flow)) /\ IsFiniteSet(NodeIds)
         /\ StepIds(flow) \subseteq NodeIds /\ NodeIds \subseteq Ids(flow)
         /\ command = "serve" => NodeIds = Ids(flow)
         /\ \A id \in Ids(flow) : id \notin NodeIds => id \in ToSet(flow.triggers)
<1> USE FlowParts
<1> DEFINE ids == [i \in 1..Len(flow.steps) |-> flow.steps[i].id]
<1>1. StepIds(flow) = {ids[i] : i \in 1..Len(flow.steps)}
  BY DEF StepIds
<1>2. IsFiniteSet(StepIds(flow))
  <2>1. DOMAIN ids = 1..Len(flow.steps)
    OBVIOUS
  <2>2. Len(flow.steps) \in Nat
    OBVIOUS
  <2> HIDE DEF ids
  <2>. QED BY ONLY <1>1, <2>1, <2>2, FiniteRange
<1>3. IsFiniteSet(ToSet(flow.triggers))
  BY FiniteRange DEF ToSet
<1>4. IsFiniteSet(Ids(flow))
  BY <1>2, <1>3, FS_Union DEF Ids
<1>5. StepIds(flow) \subseteq NodeIds /\ NodeIds \subseteq Ids(flow)
  BY DEF NodeIds, Ids
<1>6. /\ command = "serve" => NodeIds = Ids(flow)
      /\ \A id \in Ids(flow) : id \notin NodeIds => id \in ToSet(flow.triggers)
  BY DEF NodeIds, Ids
<1>. QED BY <1>2, <1>4, <1>5, <1>6, FS_Subset

\* A step is the only one of its id.
LEMMA StepSpec ==
  ASSUME NEW f, \A i, j \in DOMAIN f.steps : f.steps[i].id = f.steps[j].id => i = j, NEW i \in DOMAIN f.steps
  PROVE  Step(f, f.steps[i].id) = f.steps[i]
<1>1. (CHOOSE j \in DOMAIN f.steps : f.steps[j].id = f.steps[i].id) = i
  OBVIOUS
<1>. QED BY <1>1 DEF Step

\* An edge of a flow that has none: from a step that does not route by itself to the next.
LEMMA ChainedSpec ==
  ASSUME NEW f, FlowShape(f)
  PROVE  /\ Chained(f) \in Seq(EdgeConfigs)
         /\ \A k \in DOMAIN Chained(f) : \E i \in DOMAIN f.steps :
              /\ i < Len(f.steps) /\ ~has_explicit_routes(f.steps[i])
              /\ Chained(f)[k].from = f.steps[i].id /\ Chained(f)[k].to = f.steps[i + 1].id
         /\ \A i \in DOMAIN f.steps : i < Len(f.steps) /\ ~has_explicit_routes(f.steps[i]) =>
              \E k \in DOMAIN Chained(f) :
                Chained(f)[k].from = f.steps[i].id /\ Chained(f)[k].to = f.steps[i + 1].id
<1> USE ShapeParts
<1> DEFINE S == {i \in DOMAIN f.steps : i < Len(f.steps) /\ ~has_explicit_routes(f.steps[i])}
           N == Cardinality(S)
           at == Rising(S)
<1>1. S \in SUBSET Nat /\ IsFiniteSet(S) /\ \A i \in S : i + 1 \in DOMAIN f.steps
  <2>1. S \in SUBSET (1..Len(f.steps))
    OBVIOUS
  <2>2. IsFiniteSet(S)
    <3> HIDE DEF S
    <3>1. 1 \in Int /\ Len(f.steps) \in Int
      OBVIOUS
    <3>2. IsFiniteSet(1..Len(f.steps))
      BY ONLY <3>1, FS_Interval
    <3>. QED BY <2>1, <3>2, FS_Subset
  <2>. QED BY <2>1, <2>2
<1>2. \A i : i \in S <=> i \in DOMAIN f.steps /\ i < Len(f.steps) /\ ~has_explicit_routes(f.steps[i])
  OBVIOUS
<1>3. Chained(f) = [k \in DOMAIN at |-> Edge(f.steps[at[k]].id, f.steps[at[k] + 1].id)]
  BY DEF Chained
<1> HIDE DEF S
<1>4. /\ N \in Nat
      /\ DOMAIN at = 1..N
      /\ \A n \in 1..N : at[n] \in S
      /\ \A i \in S : \E n \in 1..N : at[n] = i
  BY <1>1, RisingSpec
<1> HIDE DEF at, N
<1>5. \A k \in 1..N : /\ Chained(f)[k] \in EdgeConfigs
                      /\ Chained(f)[k].from = f.steps[at[k]].id
                      /\ Chained(f)[k].to = f.steps[at[k] + 1].id
  <2> SUFFICES ASSUME NEW k \in 1..N
               PROVE  /\ Chained(f)[k] \in EdgeConfigs
                      /\ Chained(f)[k].from = f.steps[at[k]].id
                      /\ Chained(f)[k].to = f.steps[at[k] + 1].id
    OBVIOUS
  <2>1. Chained(f)[k] = Edge(f.steps[at[k]].id, f.steps[at[k] + 1].id)
    BY <1>3, <1>4
  <2>2. at[k] \in DOMAIN f.steps /\ at[k] + 1 \in DOMAIN f.steps
    BY <1>1, <1>2, <1>4
  <2>3. f.steps[at[k]].id \in STRING /\ f.steps[at[k] + 1].id \in STRING
    BY <2>2
  <2>. QED BY <2>1, <2>3 DEF Edge, EdgeConfigs
<1>6. Chained(f) \in Seq(EdgeConfigs) /\ DOMAIN Chained(f) = 1..N
  <2>1. DOMAIN Chained(f) = 1..N
    BY <1>3, <1>4
  <2>2. Chained(f) \in [1..N -> EdgeConfigs]
    BY <1>3, <1>4, <1>5
  <2>. QED BY <1>4, <2>1, <2>2
<1>7. ASSUME NEW k \in DOMAIN Chained(f)
      PROVE  \E i \in DOMAIN f.steps :
               /\ i < Len(f.steps) /\ ~has_explicit_routes(f.steps[i])
               /\ Chained(f)[k].from = f.steps[i].id /\ Chained(f)[k].to = f.steps[i + 1].id
  <2>1. k \in 1..N
    BY <1>6
  <2>2. at[k] \in S /\ Chained(f)[k].from = f.steps[at[k]].id /\ Chained(f)[k].to = f.steps[at[k] + 1].id
    BY <1>4, <1>5, <2>1
  <2>. QED BY <1>2, <2>2
<1>8. ASSUME NEW i \in DOMAIN f.steps, i < Len(f.steps) /\ ~has_explicit_routes(f.steps[i])
      PROVE  \E k \in DOMAIN Chained(f) :
                Chained(f)[k].from = f.steps[i].id /\ Chained(f)[k].to = f.steps[i + 1].id
  <2>1. i \in S
    BY <1>2, <1>8
  <2>2. PICK k \in 1..N : at[k] = i
    BY <1>4, <2>1
  <2>. QED BY <1>5, <1>6, <2>2
<1>. QED BY ONLY <1>6, <1>7, <1>8

\* The targets of a step.
Targets(f, a) == IF a \in StepIds(f) THEN Step(f, a).targets ELSE <<>>

\* The routes of a node: the edges from it, then its targets.
LEMMA RoutesShape ==
  ASSUME NEW f, FlowShape(f), \A i, j \in DOMAIN f.steps : f.steps[i].id = f.steps[j].id => i = j, NEW a \in Ids(f)
  PROVE  /\ wire_routes(f)[a] \in Seq([to : STRING, when : BOOLEAN]) /\ Targets(f, a) \in Seq(STRING)
         /\ \A k \in DOMAIN wire_routes(f)[a] :
              \/ \E i \in DOMAIN Edges(f) : Edges(f)[i].from = a /\ Edges(f)[i].to = wire_routes(f)[a][k].to
              \/ \E i \in DOMAIN Targets(f, a) : Targets(f, a)[i] = wire_routes(f)[a][k].to
         /\ \A i \in DOMAIN Edges(f) : Edges(f)[i].from = a => \E k \in DOMAIN wire_routes(f)[a] : wire_routes(f)[a][k].to = Edges(f)[i].to
         /\ \A i \in DOMAIN Targets(f, a) : \E k \in DOMAIN wire_routes(f)[a] : wire_routes(f)[a][k].to = Targets(f, a)[i]
         /\ \E n \in Nat : \A i \in DOMAIN Targets(f, a) :
              n + i \in DOMAIN wire_routes(f)[a] /\ wire_routes(f)[a][n + i].to = Targets(f, a)[i]
<1> DEFINE edges == From(Edges(f), a)
           targets == Targets(f, a)
           R == [to : STRING, when : BOOLEAN]
           first == [k \in DOMAIN edges |-> [to |-> edges[k].to, when |-> edges[k].when]]
           second == [k \in DOMAIN targets |-> [to |-> targets[k], when |-> FALSE]]
<1>2. wire_routes(f)[a] = first \o second
  BY DEF wire_routes, Targets
<1>3. Edges(f) \in Seq(EdgeConfigs)
  BY ChainedSpec DEF Edges, FlowShape
<1>4. /\ edges \in Seq(EdgeConfigs)
      /\ \A k \in DOMAIN edges : \E i \in DOMAIN Edges(f) : Edges(f)[i].from = a /\ Edges(f)[i] = edges[k]
      /\ \A i \in DOMAIN Edges(f) : Edges(f)[i].from = a => \E k \in DOMAIN edges : edges[k] = Edges(f)[i]
  BY <1>3, FromSpec
<1>5. targets \in Seq(STRING)
  <2>1. CASE a \in StepIds(f)
    <3>1. PICK i \in DOMAIN f.steps : f.steps[i].id = a
      BY <2>1 DEF StepIds
    <3>2. Step(f, a) = f.steps[i]
      BY <3>1, StepSpec
    <3>3. f.steps[i].targets \in Seq(STRING)
      BY ShapeParts
    <3>. QED BY <2>1, <3>2, <3>3 DEF Targets
  <2>2. CASE a \notin StepIds(f)
    BY <2>2 DEF Targets
  <2>. QED BY <2>1, <2>2
<1> HIDE DEF edges, targets
<1>6. /\ first \in Seq(R) /\ Len(first) = Len(edges)
      /\ second \in Seq(R) /\ Len(second) = Len(targets)
  <2>1. \A k \in DOMAIN edges : edges[k].to \in STRING /\ edges[k].when \in BOOLEAN
    <3>1. \A k \in DOMAIN edges : edges[k] \in EdgeConfigs
      BY <1>4
    <3>. QED BY <3>1 DEF EdgeConfigs
  <2>2. \A k \in DOMAIN targets : targets[k] \in STRING
    BY <1>5
  <2>3. first \in [1..Len(edges) -> R] /\ Len(edges) \in Nat
    BY <1>4, <2>1
  <2>4. second \in [1..Len(targets) -> R] /\ Len(targets) \in Nat
    BY <1>5, <2>2
  <2> HIDE DEF first, second, R
  <2>5. first \in Seq(R) /\ Len(first) = Len(edges)
    BY <2>3
  <2>6. second \in Seq(R) /\ Len(second) = Len(targets)
    BY <2>4
  <2>. QED BY <2>5, <2>6
<1>7. /\ \A k \in DOMAIN edges : first[k].to = edges[k].to
      /\ \A k \in DOMAIN targets : second[k].to = targets[k]
  OBVIOUS
<1>8. /\ Len(edges) \in Nat /\ DOMAIN edges = 1..Len(edges)
      /\ Len(targets) \in Nat /\ DOMAIN targets = 1..Len(targets)
  BY <1>4, <1>5
<1> HIDE DEF first, second, R
<1>9. /\ first \o second \in Seq(R) /\ Len(first \o second) = Len(edges) + Len(targets)
      /\ \A k \in 1..Len(edges) : (first \o second)[k] = first[k]
      /\ \A k \in 1..Len(targets) : (first \o second)[Len(edges) + k] = second[k]
  BY <1>6, <1>8
<1> DEFINE routes == first \o second
<1>10. DOMAIN routes = 1..Len(edges) + Len(targets)
  BY <1>8, <1>9
<1> HIDE DEF routes
<1>11. ASSUME NEW k \in DOMAIN routes
       PROVE  \/ \E i \in DOMAIN Edges(f) : Edges(f)[i].from = a /\ Edges(f)[i].to = routes[k].to
              \/ \E i \in DOMAIN targets : targets[i] = routes[k].to
  <2>1. CASE k \in 1..Len(edges)
    <3>1. routes[k].to = edges[k].to /\ k \in DOMAIN edges
      BY <1>7, <1>8, <1>9, <2>1 DEF routes
    <3>2. PICK i \in DOMAIN Edges(f) : Edges(f)[i].from = a /\ Edges(f)[i] = edges[k]
      BY <1>4, <3>1
    <3>. QED BY <3>1, <3>2
  <2>2. CASE k - Len(edges) \in 1..Len(targets)
    <3>1. PICK j \in 1..Len(targets) : k = Len(edges) + j
      <4>1. k \in Int
        BY <1>8, <1>10
      <4>2. k = Len(edges) + (k - Len(edges))
        BY <1>8, <4>1
      <4>. QED BY <2>2, <4>2
    <3>2. routes[k] = second[j] /\ j \in DOMAIN targets
      BY <1>8, <1>9, <3>1 DEF routes
    <3>3. targets[j] = routes[k].to
      BY <1>7, <3>2
    <3>. QED BY <3>2, <3>3
  <2>3. k \in 1..Len(edges) \/ k - Len(edges) \in 1..Len(targets)
    BY <1>8, <1>10
  <2>. QED BY <2>1, <2>2, <2>3
<1>12. ASSUME NEW k \in DOMAIN edges
       PROVE  \E j \in DOMAIN routes : routes[j].to = edges[k].to
  <2>1. routes[k] = first[k] /\ k \in DOMAIN routes
    BY <1>8, <1>9, <1>10 DEF routes
  <2>. QED BY <1>7, <2>1
<1>13. ASSUME NEW i \in DOMAIN Edges(f), Edges(f)[i].from = a
       PROVE  \E j \in DOMAIN routes : routes[j].to = Edges(f)[i].to
  <2>1. PICK k \in DOMAIN edges : edges[k] = Edges(f)[i]
    BY <1>4, <1>13
  <2>. QED BY <1>12, <2>1
<1>14. ASSUME NEW k \in DOMAIN targets
       PROVE  Len(edges) + k \in DOMAIN routes /\ routes[Len(edges) + k].to = targets[k]
  <2>1. routes[Len(edges) + k] = second[k] /\ Len(edges) + k \in DOMAIN routes
    BY <1>8, <1>9, <1>10 DEF routes
  <2>. QED BY <1>7, <2>1
<1>15. wire_routes(f)[a] = routes /\ routes \in Seq([to : STRING, when : BOOLEAN])
  BY <1>2, <1>9 DEF routes, R
<1> HIDE DEF routes
<1>. QED BY ONLY <1>5, <1>8, <1>11, <1>13, <1>14, <1>15 DEF targets

\* The routes of a node lead where a record may go from it.
LEMMA WireSpec ==
  ASSUME GivenOK, IsInjective(StepSeq)
  PROVE  /\ DOMAIN wire_routes(flow) = Ids(flow)
         /\ \A a \in Ids(flow) :
              /\ wire_routes(flow)[a] \in Seq([to : STRING, when : BOOLEAN])
              /\ \A k \in DOMAIN wire_routes(flow)[a] : Leads(a, wire_routes(flow)[a][k].to)
              /\ \A b : Leads(a, b) => \E k \in DOMAIN wire_routes(flow)[a] : wire_routes(flow)[a][k].to = b
<1>0. FlowShape(flow)
  BY FlowParts
<1>1. DOMAIN wire_routes(flow) = Ids(flow)
  BY DEF wire_routes
<1>2. \A i, j \in DOMAIN flow.steps : flow.steps[i].id = flow.steps[j].id => i = j
  BY DEF StepSeq, IsInjective
<1> SUFFICES ASSUME NEW a \in Ids(flow)
             PROVE  /\ wire_routes(flow)[a] \in Seq([to : STRING, when : BOOLEAN])
                    /\ \A k \in DOMAIN wire_routes(flow)[a] : Leads(a, wire_routes(flow)[a][k].to)
                    /\ \A b : Leads(a, b) => \E k \in DOMAIN wire_routes(flow)[a] : wire_routes(flow)[a][k].to = b
  BY <1>1
<1> DEFINE W == wire_routes(flow)[a]
           E == Edges(flow)
           T == Targets(flow, a)
<1>3. /\ W \in Seq([to : STRING, when : BOOLEAN]) /\ T \in Seq(STRING)
      /\ \A k \in DOMAIN W : (\E i \in DOMAIN E : E[i].from = a /\ E[i].to = W[k].to) \/ \E i \in DOMAIN T : T[i] = W[k].to
      /\ \A i \in DOMAIN E : E[i].from = a => \E k \in DOMAIN W : W[k].to = E[i].to
      /\ \A i \in DOMAIN T : \E k \in DOMAIN W : W[k].to = T[i]
  BY <1>0, <1>2, RoutesShape
<1>4. \A i \in DOMAIN flow.steps : flow.steps[i].id = a => T = flow.steps[i].targets
  BY <1>2, StepSpec DEF StepIds, Targets
<1> HIDE DEF W
<1>5. ASSUME NEW i \in DOMAIN E, E[i].from = a PROVE Leads(a, E[i].to)
  <2>1. CASE flow.edges # <<>>
    BY <1>5, <2>1 DEF Edges, Leads
  <2>2. CASE flow.edges = <<>>
    <3>1. E = Chained(flow)
      BY <2>2 DEF Edges
    <3>2. PICK j \in DOMAIN flow.steps :
            /\ j < Len(flow.steps) /\ ~has_explicit_routes(flow.steps[j])
            /\ Chained(flow)[i].from = flow.steps[j].id /\ Chained(flow)[i].to = flow.steps[j + 1].id
      BY <1>0, <1>5, <3>1, ChainedSpec
    <3>. QED BY <1>5, <2>2, <3>1, <3>2 DEF Leads
  <2>. QED BY <2>1, <2>2
<1>6. ASSUME NEW k \in DOMAIN T PROVE Leads(a, T[k])
  <2>1. PICK i \in DOMAIN flow.steps : flow.steps[i].id = a
    BY DEF StepIds, Targets
  <2>2. T[k] \in ToSet(flow.steps[i].targets)
    BY <1>4, <2>1 DEF ToSet
  <2> HIDE DEF T
  <2>. QED BY <2>1, <2>2 DEF Leads
<1>7. ASSUME NEW b, Leads(a, b) PROVE \E k \in DOMAIN W : W[k].to = b
  <2>1. CASE \E i \in DOMAIN flow.edges : flow.edges[i].from = a /\ flow.edges[i].to = b
    <3>1. E = flow.edges
      BY <2>1 DEF Edges
    <3> HIDE DEF E
    <3>. QED BY <1>3, <2>1, <3>1
  <2>2. ASSUME NEW i \in DOMAIN flow.steps, flow.steps[i].id = a, b \in ToSet(flow.steps[i].targets)
        PROVE  \E k \in DOMAIN W : W[k].to = b
    <3>1. T = flow.steps[i].targets
      BY <1>4, <2>2
    <3>2. PICK k \in DOMAIN T : T[k] = b
      BY <2>2, <3>1 DEF ToSet
    <3> HIDE DEF T
    <3>. QED BY <1>3, <3>2
  <2>3. ASSUME flow.edges = <<>>, NEW i \in DOMAIN flow.steps, ~has_explicit_routes(flow.steps[i]), i < Len(flow.steps),
               flow.steps[i].id = a, flow.steps[i + 1].id = b
        PROVE  \E k \in DOMAIN W : W[k].to = b
    <3>1. E = Chained(flow)
      BY <2>3 DEF Edges
    <3>2. PICK j \in DOMAIN Chained(flow) : Chained(flow)[j].from = a /\ Chained(flow)[j].to = b
      BY <1>0, <2>3, ChainedSpec
    <3> HIDE DEF E
    <3>. QED BY <1>3, <3>1, <3>2
  <2> HIDE DEF E, T
  <2>. QED BY <1>7, <2>1, <2>2, <2>3 DEF Leads
<1> HIDE DEF E, T
<1>. QED BY <1>3, <1>5, <1>6, <1>7 DEF W

-----------------------------------------------------------------------------
(* Cycles. *)

\* Every node of a set has a route to it from within the set.
Loops(L) == L # {} /\ \A b \in L : \E a \in L : Leads(a, b)

\* What is after a set of nodes: where they lead, and on from there; nothing else.
LEMMA AfterSpec ==
  ASSUME NEW from
  PROVE  /\ After(from) \subseteq Ids(flow)
         /\ \A a \in from \cup After(from), b \in Ids(flow) : Leads(a, b) => b \in After(from)
         /\ \A C \in SUBSET Ids(flow) :
              (\A a \in from \cup C, b \in Ids(flow) : Leads(a, b) => b \in C) => After(from) \subseteq C
<1> DEFINE Closed == {C \in SUBSET Ids(flow) : \A b \in Ids(flow) : (\E a \in from \cup C : Leads(a, b)) => b \in C}
<1>1. After(from) = {b \in Ids(flow) : \A C \in Closed : b \in C}
  BY DEF After
<1>2. ASSUME NEW a \in from \cup After(from), NEW b \in Ids(flow), Leads(a, b), NEW C \in Closed PROVE b \in C
  <2>1. a \in from \cup C
    BY <1>1
  <2>2. \A d \in Ids(flow) : (\E e \in from \cup C : Leads(e, d)) => d \in C
    OBVIOUS
  <2>. QED BY <1>2, <2>1, <2>2
<1>3. ASSUME NEW C \in SUBSET Ids(flow), \A a \in from \cup C, b \in Ids(flow) : Leads(a, b) => b \in C
      PROVE  C \in Closed
  BY <1>3
<1> HIDE DEF Closed
<1>. QED BY <1>1, <1>2, <1>3

\* Whatever is after a set of nodes has a route from one of them or from another such node.
LEMMA AfterBefore ==
  ASSUME NEW from, NEW b \in After(from)
  PROVE  \E a \in from \cup After(from) : Leads(a, b)
<1> DEFINE C == {d \in After(from) : \E a \in from \cup After(from) : Leads(a, d)}
<1>1. After(from) \subseteq Ids(flow)
  BY AfterSpec
<1>2. \A a \in from \cup C, d \in Ids(flow) : Leads(a, d) => d \in C
  BY AfterSpec
<1>3. C \in SUBSET Ids(flow)
  BY <1>1
<1>4. After(from) \subseteq C
  <2> HIDE DEF C
  <2>. QED BY <1>2, <1>3, AfterSpec
<1>. QED BY <1>4

\* What is after a node is after every node that leads to it.
LEMMA AfterNext ==
  ASSUME NEW a, NEW b \in Ids(flow), Leads(a, b) \/ b \in After({a})
  PROVE  b \in After({a}) /\ After({b}) \subseteq After({a})
<1>1. b \in After({a})
  BY AfterSpec
<1>2. After({a}) \in SUBSET Ids(flow)
  BY AfterSpec
<1>3. \A c \in {b} \cup After({a}), d \in Ids(flow) : Leads(c, d) => d \in After({a})
  BY <1>1, AfterSpec
<1>4. After({b}) \subseteq After({a})
  BY <1>2, <1>3, AfterSpec
<1>. QED BY <1>1, <1>4

\* A flow with a cycle has such a set: the nodes on a path from a node to itself.
LEMMA CycleLoops ==
  ASSUME Cyclic PROVE \E L \in SUBSET Ids(flow) : Loops(L)
<1>1. PICK id \in Ids(flow) : id \in After({id})
  BY DEF Cyclic
<1> DEFINE L == {b \in After({id}) : id \in After({b})}
<1>2. L \in SUBSET Ids(flow) /\ id \in L
  BY <1>1, AfterSpec
<1>3. ASSUME NEW b \in L PROVE \E a \in L : Leads(a, b)
  <2>1. b \in After({id}) /\ b \in Ids(flow) /\ id \in After({b})
    BY <1>2
  <2>2. PICK a \in {id} \cup After({id}) : Leads(a, b)
    BY <2>1, AfterBefore
  <2>3. a \in After({id})
    BY <1>1, <2>2
  <2>4. After({b}) \subseteq After({a})
    BY <2>1, <2>2, AfterNext
  <2>. QED BY <2>1, <2>2, <2>3, <2>4
<1> HIDE DEF L
<1>. QED BY <1>2, <1>3 DEF Loops

\* And the other way round: otherwise the node with the fewest others before it would
\* have one before it with still fewer.
LEMMA LoopsCycle ==
  ASSUME GivenOK, NEW L \in SUBSET Ids(flow), Loops(L)
  PROVE  Cyclic
<1> SUFFICES ASSUME ~Cyclic PROVE FALSE
  OBVIOUS
<1> DEFINE Before(b) == {a \in L : b \in After({a})}
           counts == [b \in L |-> Cardinality(Before(b))]
           N == {counts[b] : b \in L}
<1>1. IsFiniteSet(L)
  BY FiniteIds, FS_Subset
<1>2. \A b \in L : IsFiniteSet(Before(b)) /\ Cardinality(Before(b)) \in Nat
  <2> SUFFICES ASSUME NEW b \in L PROVE IsFiniteSet(Before(b)) /\ Cardinality(Before(b)) \in Nat
    OBVIOUS
  <2>1. Before(b) \in SUBSET L
    OBVIOUS
  <2> HIDE DEF Before
  <2>. QED BY <1>1, <2>1, FS_Subset, FS_CardinalityType
<1>3. ASSUME NEW b \in L PROVE \E a \in L : Cardinality(Before(a)) < Cardinality(Before(b))
  <2>1. PICK a \in L : Leads(a, b)
    BY DEF Loops
  <2>2. b \in After({a}) /\ a \notin After({a})
    <3>1. b \in After({a})
      BY <2>1, AfterNext
    <3>2. a \notin After({a})
      BY DEF Cyclic
    <3>. QED BY <3>1, <3>2
  <2>3. ASSUME NEW c \in Before(a) PROVE c \in Before(b)
    <3>1. c \in L /\ a \in After({c})
      OBVIOUS
    <3>2. After({a}) \subseteq After({c})
      BY <3>1, AfterNext
    <3>. QED BY <2>2, <3>1, <3>2
  <2>4. Before(a) \in SUBSET Before(b) /\ a \in Before(b) /\ a \notin Before(a)
    BY <2>2, <2>3
  <2> HIDE DEF Before
  <2>5. Cardinality(Before(a)) <= Cardinality(Before(b)) /\ Cardinality(Before(a)) # Cardinality(Before(b))
    BY <1>2, <2>4, FS_Subset
  <2>. QED BY <1>2, <2>5
<1> HIDE DEF Before
<1>4. counts \in [L -> Nat] /\ \A b \in L : counts[b] = Cardinality(Before(b))
  BY <1>2
<1> HIDE DEF counts
<1>5. N \in SUBSET Nat /\ N # {}
  BY <1>4 DEF Loops
<1>6. IsFiniteSet(N)
  <2>1. counts \in Surjection(L, N)
    BY <1>4 DEF Surjection
  <2> HIDE DEF N
  <2>. QED BY <1>1, <2>1, FS_Surjection
<1>7. PICK n \in N : \A m \in N : n <= m
  <2> HIDE DEF N
  <2>. QED BY <1>5, <1>6, RisingSpec
<1>8. PICK b \in L : counts[b] = n
  OBVIOUS
<1>9. PICK a \in L : counts[a] < counts[b]
  BY <1>3, <1>4
<1>10. counts[a] \in N
  OBVIOUS
<1> HIDE DEF N
<1>. QED BY <1>4, <1>7, <1>8, <1>9, <1>10

-----------------------------------------------------------------------------
(* Kahn's algorithm. *)

\* What it is run on: finitely many routes.
RoutesOK ==
  /\ IsFiniteSet(DOMAIN adjacency) /\ DOMAIN indegree \subseteq DOMAIN adjacency
  /\ indegree \in [DOMAIN indegree -> Nat]
  /\ \A a \in DOMAIN adjacency : IsFiniteSet(DOMAIN adjacency[a])

\* Routes to a node from nodes that have not gone.
Waits(gone, id) == {p \in RoutesTo(adjacency, id) : p[1] \notin gone}

NoLoop(X) == \A L \in SUBSET X : L # {} => \E b \in L : \A a \in L : Times(a, b) = 0

\* The nodes that have gone are as many as were visited, and no cycle is among them; a
\* node's count is that of the routes it still waits for; ready are those with none.
Kahn(gone) ==
  /\ gone \in SUBSET DOMAIN indegree /\ Cardinality(gone) = visited
  /\ ready \in Seq(DOMAIN indegree) /\ \A i, j \in 1..Len(ready) : ready[i] = ready[j] => i = j
  /\ gone \cap ToSet(ready) = {}
  /\ \A id \in DOMAIN indegree : indegree[id] = Cardinality(Waits(gone, id))
  /\ \A id \in DOMAIN indegree : indegree[id] = 0 <=> id \in gone \cup ToSet(ready)
  /\ NoLoop(gone)

\* The routes to a node, one by one.
LEMMA RouteSpec ==
  ASSUME NEW routes, NEW id, NEW p
  PROVE  p \in RoutesTo(routes, id) <=>
           \E a \in DOMAIN routes : \E k \in DOMAIN routes[a] : p = <<a, k>> /\ routes[a][k].to = id
<1> DEFINE All == UNION {{from} \X (DOMAIN routes[from]) : from \in DOMAIN routes}
<1>1. p \in All <=> \E a \in DOMAIN routes : \E k \in DOMAIN routes[a] : p = <<a, k>>
  OBVIOUS
<1>2. p \in RoutesTo(routes, id) <=> p \in All /\ routes[p[1]][p[2]].to = id
  BY DEF RoutesTo
<1> HIDE DEF All
<1>3. ASSUME p \in RoutesTo(routes, id)
      PROVE  \E a \in DOMAIN routes : \E k \in DOMAIN routes[a] : p = <<a, k>> /\ routes[a][k].to = id
  <2>1. PICK a \in DOMAIN routes : \E k \in DOMAIN routes[a] : p = <<a, k>>
    BY <1>1, <1>2, <1>3
  <2>2. PICK k \in DOMAIN routes[a] : p = <<a, k>>
    BY <2>1
  <2>. QED BY <1>2, <1>3, <2>2
<1>4. ASSUME NEW a \in DOMAIN routes, NEW k \in DOMAIN routes[a], p = <<a, k>>, routes[a][k].to = id
      PROVE  p \in RoutesTo(routes, id)
  BY <1>1, <1>2, <1>4
<1>. QED BY <1>3, <1>4

\* They are finitely many, and a pair of a node and a place.
LEMMA RoutesFinite ==
  ASSUME NEW routes, IsFiniteSet(DOMAIN routes), \A a \in DOMAIN routes : IsFiniteSet(DOMAIN routes[a]), NEW id
  PROVE  IsFiniteSet(RoutesTo(routes, id)) /\ Cardinality(RoutesTo(routes, id)) \in Nat
<1> DEFINE one == [a \in DOMAIN routes |-> {a} \X (DOMAIN routes[a])]
           Ones == {one[a] : a \in DOMAIN routes}
<1>1. \A a \in DOMAIN routes : one[a] = {a} \X (DOMAIN routes[a])
  OBVIOUS
<1>2. \A a \in DOMAIN routes : IsFiniteSet(one[a])
  BY <1>1, FS_Singleton, FS_Product
<1>3. DOMAIN one = DOMAIN routes
  OBVIOUS
<1>4. IsFiniteSet(Ones)
  <2> HIDE DEF one
  <2>1. [a \in DOMAIN routes |-> one[a]] \in Surjection(DOMAIN routes, Ones)
    BY DEF Surjection
  <2> HIDE DEF Ones
  <2>. QED BY <2>1, FS_Surjection
<1>5. IsFiniteSet(UNION Ones)
  <2>1. \A T \in Ones : IsFiniteSet(T)
    BY <1>2
  <2> HIDE DEF Ones
  <2>. QED BY <1>4, <2>1, FS_UNION
<1>6. RoutesTo(routes, id) \in SUBSET UNION Ones
  <2> SUFFICES ASSUME NEW p \in RoutesTo(routes, id) PROVE p \in UNION Ones
    OBVIOUS
  <2>1. PICK a \in DOMAIN routes : \E k \in DOMAIN routes[a] : p = <<a, k>>
    BY RouteSpec
  <2>2. p \in one[a]
    BY <1>1, <2>1
  <2>. QED BY <2>2
<1> HIDE DEF Ones
<1>. QED BY <1>5, <1>6, FS_Subset, FS_CardinalityType

\* How many routes of a node lead to another: as many as there are pairs with it.
LEMMA TimesSpec ==
  ASSUME RoutesOK, NEW a, NEW b
  PROVE  /\ Times(a, b) \in Nat
         /\ Times(a, b) = Cardinality({p \in RoutesTo(adjacency, b) : p[1] = a})
         /\ Times(a, b) > 0 <=> \E p \in RoutesTo(adjacency, b) : p[1] = a
<1> DEFINE P == {p \in RoutesTo(adjacency, b) : p[1] = a}
           K == {k \in DOMAIN adjacency[a] : adjacency[a][k].to = b}
<1>1. IsFiniteSet(P) /\ Cardinality(P) \in Nat
  <2>1. P \in SUBSET RoutesTo(adjacency, b) /\ IsFiniteSet(RoutesTo(adjacency, b))
    BY RoutesFinite DEF RoutesOK
  <2> HIDE DEF P
  <2>. QED BY <2>1, FS_Subset, FS_CardinalityType
<1>2. Times(a, b) = Cardinality(P)
  <2>1. CASE a \in DOMAIN adjacency
    <3>1. IsFiniteSet(K)
      <4>1. K \in SUBSET DOMAIN adjacency[a]
        OBVIOUS
      <4> HIDE DEF K
      <4>. QED BY <2>1, <4>1, FS_Subset DEF RoutesOK
    <3> DEFINE f == [k \in K |-> <<a, k>>]
    <3>2. \A k \in K : <<a, k>> \in P
      BY <2>1, RouteSpec
    <3>3. \A p \in P : \E k \in K : p = <<a, k>>
      <4> SUFFICES ASSUME NEW p \in P PROVE \E k \in K : p = <<a, k>>
        OBVIOUS
      <4>1. PICK c \in DOMAIN adjacency : \E k \in DOMAIN adjacency[c] : p = <<c, k>> /\ adjacency[c][k].to = b
        BY RouteSpec
      <4>. QED BY <4>1
    <3> HIDE DEF P, K
    <3>4. f \in Surjection(K, P)
      BY <3>2, <3>3 DEF Surjection
    <3>5. f \in Injection(K, P)
      BY <3>2 DEF Injection, IsInjective
    <3>6. Cardinality(P) = Cardinality(K)
      BY <3>1, <3>4, <3>5, FS_Surjection
    <3>. QED BY <2>1, <3>6 DEF Times, K
  <2>2. CASE a \notin DOMAIN adjacency
    <3>1. P = {}
      BY <2>2, RouteSpec
    <3> HIDE DEF P
    <3>. QED BY <2>2, <3>1, FS_EmptySet DEF Times
  <2>. QED BY <2>1, <2>2
<1>3. Times(a, b) > 0 <=> P # {}
  <2> HIDE DEF P
  <2>. QED BY <1>1, <1>2, FS_EmptySet
<1>4. P # {} <=> \E p \in RoutesTo(adjacency, b) : p[1] = a
  OBVIOUS
<1> HIDE DEF P
<1>. QED BY <1>1, <1>2, <1>3, <1>4, Zenon DEF P

\* What a node waits for when another has gone as well.
LEMMA WaitsLess ==
  ASSUME RoutesOK, NEW gone, NEW a, a \notin gone, NEW b
  PROVE  /\ IsFiniteSet(Waits(gone, b)) /\ Cardinality(Waits(gone, b)) \in Nat
         /\ Cardinality(Waits(gone \cup {a}, b)) \in Nat
         /\ Cardinality(Waits(gone, b)) = Cardinality(Waits(gone \cup {a}, b)) + Times(a, b)
         /\ Waits(gone, b) = {} => Times(a, b) = 0
<1> DEFINE P == {p \in RoutesTo(adjacency, b) : p[1] = a}
           W == Waits(gone, b)
           V == Waits(gone \cup {a}, b)
<1>1. W \in SUBSET RoutesTo(adjacency, b) /\ V \in SUBSET RoutesTo(adjacency, b) /\ P \in SUBSET RoutesTo(adjacency, b)
  BY DEF Waits
<1>2. IsFiniteSet(RoutesTo(adjacency, b))
  BY RoutesFinite DEF RoutesOK
<1>3. W = V \cup P /\ V \cap P = {}
  BY DEF Waits
<1>4. Times(a, b) = Cardinality(P) /\ Times(a, b) \in Nat /\ (Times(a, b) > 0 <=> P # {})
  <2>1. Times(a, b) = Cardinality(P) /\ Times(a, b) \in Nat /\ (Times(a, b) > 0 <=> \E p \in RoutesTo(adjacency, b) : p[1] = a)
    BY TimesSpec
  <2>. QED BY <2>1
<1> HIDE DEF P, W, V
<1>5. IsFiniteSet(W) /\ IsFiniteSet(V) /\ IsFiniteSet(P) /\ Cardinality(W) \in Nat /\ Cardinality(V) \in Nat
  BY <1>1, <1>2, FS_Subset, FS_CardinalityType
<1>6. Cardinality(W) = Cardinality(V) + Cardinality(P) - Cardinality(V \cap P)
  BY <1>3, <1>5, FS_Union
<1>7. Cardinality(W) = Cardinality(V) + Times(a, b)
  <2>1. Cardinality(V \cap P) = 0
    BY <1>3, FS_EmptySet
  <2>2. Cardinality(P) \in Nat
    BY <1>4
  <2>. QED BY <1>4, <1>5, <1>6, <2>1, <2>2
<1>8. W = {} => Times(a, b) = 0
  BY <1>3, <1>4
<1>. QED BY <1>4, <1>5, <1>7, <1>8 DEF W, V

\* It starts with nothing gone.
LEMMA KahnStarts ==
  ASSUME NEW routes, NEW ids, IsFiniteSet(ids), ids \subseteq DOMAIN routes, IsFiniteSet(DOMAIN routes),
         \A a \in DOMAIN routes : IsFiniteSet(DOMAIN routes[a]),
         check_acyclic(routes, ids)
  PROVE  adjacency' = routes /\ DOMAIN indegree' = ids /\ RoutesOK' /\ Kahn({})'
<1>1. adjacency' = routes /\ indegree' = [id \in ids |-> Cardinality(RoutesTo(routes, id))] /\ visited' = 0
  BY DEF check_acyclic, Indegrees
<1>2. \A id \in ids : Cardinality(RoutesTo(routes, id)) \in Nat
  BY RoutesFinite
<1>3. RoutesOK'
  BY <1>1, <1>2 DEF RoutesOK
<1> DEFINE None == {id \in ids : Indegrees(routes, ids)[id] = 0}
<1>4. None \in SUBSET ids /\ IsFiniteSet(None)
  <2>1. None \in SUBSET ids
    OBVIOUS
  <2> HIDE DEF None
  <2>. QED BY <2>1, FS_Subset
<1>5. ready' \in Seq(None) /\ ToSet(ready') = None /\ \A i, j \in 1..Len(ready') : ready'[i] = ready'[j] => i = j
  <2>1. ready' \in SetToSeqs(None)
    BY DEF check_acyclic
  <2> HIDE DEF None
  <2>. QED BY <1>4, <2>1, ListSpec
<1>6. \A id \in ids : indegree'[id] = Cardinality(RoutesTo(routes, id)) /\ (id \in None <=> indegree'[id] = 0)
  BY <1>1 DEF Indegrees
<1>7. ready' \in Seq(DOMAIN indegree')
  <2>1. DOMAIN indegree' = ids
    BY <1>1
  <2> HIDE DEF None
  <2>. QED BY <1>4, <1>5, <2>1
<1>8. \A id : Waits({}, id)' = RoutesTo(routes, id)
  BY <1>1 DEF Waits
<1>9. NoLoop({})'
  BY DEF NoLoop
<1> HIDE DEF None
<1>10. Cardinality({}) = 0
  BY FS_EmptySet
<1>. QED BY <1>1, <1>3, <1>5, <1>6, <1>7, <1>8, <1>9, <1>10 DEF Kahn

\* With the last node that is ready one more goes: nothing it waits for is left, so that
\* no cycle goes through it.
LEMMA KahnPop ==
  ASSUME RoutesOK, NEW gone, Kahn(gone), Pop, NEW id, id = Last(ready), NEW now, now = gone \cup {id}
  PROVE  RoutesOK' /\ Kahn(now)' /\ DOMAIN indegree' = DOMAIN indegree
<1> DEFINE D == DOMAIN indegree
           Freed == {to \in D : Times(id, to) > 0 /\ indegree[to] = Times(id, to)}
<1>0. ready \in Seq(D) /\ ready # <<>> /\ Len(ready) \in Nat /\ Len(ready) > 0 /\ DOMAIN ready = 1..Len(ready)
  BY DEF Kahn, Pop
<1>1. id \in D /\ id \in ToSet(ready) /\ id \notin gone
  BY <1>0 DEF Kahn, Last, ToSet
<1>2. /\ adjacency' = adjacency /\ visited' = visited + 1
      /\ indegree' = [to \in D |-> indegree[to] - Times(id, to)]
      /\ \E freed \in SetToSeqs(Freed) : ready' = Front(ready) \o freed
  <2>1. Freed = {to \in {to \in D : Times(id, to) > 0} : indegree[to] = Times(id, to)}
    OBVIOUS
  <2>. QED BY <2>1 DEF Pop
<1>3. IsFiniteSet(D)
  BY FS_Subset DEF RoutesOK
<1>4. PICK freed \in SetToSeqs(Freed) : ready' = Front(ready) \o freed
  BY <1>2
<1>5. freed \in Seq(Freed) /\ ToSet(freed) = Freed /\ \A i, j \in 1..Len(freed) : freed[i] = freed[j] => i = j
  <2>1. IsFiniteSet(Freed)
    <3>1. Freed \in SUBSET D
      OBVIOUS
    <3> HIDE DEF Freed, D
    <3>. QED BY <1>3, <3>1, FS_Subset
  <2> HIDE DEF Freed
  <2>. QED BY <1>4, <2>1, ListSpec
<1>6. \A a, b : Times(a, b)' = Times(a, b)
  BY <1>2 DEF Times
<1>7. \A S, b : Waits(S, b)' = Waits(S, b)
  BY <1>2 DEF Waits
<1>8. \A to \in D : /\ indegree[to] \in Nat /\ Times(id, to) \in Nat /\ Cardinality(Waits(now, to)) \in Nat
                    /\ indegree[to] = Cardinality(Waits(now, to)) + Times(id, to)
                    /\ indegree[to] = 0 => Times(id, to) = 0
  <2> SUFFICES ASSUME NEW to \in D
               PROVE  /\ indegree[to] \in Nat /\ Times(id, to) \in Nat /\ Cardinality(Waits(now, to)) \in Nat
                      /\ indegree[to] = Cardinality(Waits(now, to)) + Times(id, to)
                      /\ indegree[to] = 0 => Times(id, to) = 0
    OBVIOUS
  <2>1. indegree[to] = Cardinality(Waits(gone, to)) /\ indegree[to] \in Nat
    BY DEF Kahn, RoutesOK
  <2>2. Times(id, to) \in Nat
    BY TimesSpec
  <2>3. /\ Cardinality(Waits(gone, to)) = Cardinality(Waits(now, to)) + Times(id, to)
        /\ Cardinality(Waits(now, to)) \in Nat
    BY <1>1, WaitsLess
  <2>. QED BY <2>1, <2>2, <2>3
<1>9. \A to \in D : indegree'[to] \in Nat /\ indegree'[to] = Cardinality(Waits(now, to))
  <2> SUFFICES ASSUME NEW to \in D PROVE indegree'[to] \in Nat /\ indegree'[to] = Cardinality(Waits(now, to))
    OBVIOUS
  <2>1. indegree'[to] = indegree[to] - Times(id, to)
    BY <1>2
  <2>2. /\ indegree[to] \in Nat /\ Times(id, to) \in Nat /\ Cardinality(Waits(now, to)) \in Nat
        /\ indegree[to] = Cardinality(Waits(now, to)) + Times(id, to)
    BY <1>8
  <2>. QED BY ONLY <2>1, <2>2
<1>10. DOMAIN indegree' = D /\ RoutesOK'
  <2>1. indegree' \in [D -> Nat] /\ DOMAIN indegree' = D
    BY <1>2, <1>9
  <2>. QED BY <1>2, <2>1 DEF RoutesOK
<1>11. now \in SUBSET D /\ Cardinality(now) = visited'
  <2>1. gone \in SUBSET D /\ Cardinality(gone) = visited
    BY DEF Kahn
  <2>2. IsFiniteSet(gone)
    BY <1>3, <2>1, FS_Subset
  <2>. QED BY <1>1, <1>2, <2>1, <2>2, FS_AddElement
<1>12. /\ ready' \in Seq(D)
       /\ ToSet(ready') = (ToSet(ready) \ {id}) \cup Freed
       /\ \A i, j \in 1..Len(ready') : ready'[i] = ready'[j] => i = j
  <2>1. \A i, j \in 1..Len(ready) : ready[i] = ready[j] => i = j
    BY DEF Kahn
  <2>2. Freed \cap ToSet(ready) = {}
    <3>1. \A to \in ToSet(ready) : indegree[to] = 0
      BY <1>0 DEF Kahn, ToSet
    <3>. QED BY <1>8, <3>1
  <2> DEFINE front == Front(ready)
             n == Len(ready) - 1
  <2>3. front \in Seq(D) /\ Len(front) = n /\ n \in Nat /\ Len(ready) = n + 1 /\ \A i \in 1..n : front[i] = ready[i]
    BY <1>0 DEF Front
  <2>4. id = ready[n + 1]
    BY <1>0 DEF Last
  <2>5. Freed \in SUBSET D
    OBVIOUS
  <2> HIDE DEF front, n, Freed, D
  <2>6. freed \in Seq(D) /\ Len(freed) \in Nat /\ DOMAIN freed = 1..Len(freed)
    BY <1>5, <2>5
  <2>7. /\ ready' \in Seq(D) /\ Len(ready') = n + Len(freed) /\ DOMAIN ready' = 1..n + Len(freed)
        /\ \A i \in 1..n : ready'[i] = ready[i]
        /\ \A i \in 1..Len(freed) : ready'[n + i] = freed[i]
    <3>1. ready' = front \o freed
      BY <1>4 DEF front
    <3>2. front \o freed \in Seq(D) /\ Len(front \o freed) = n + Len(freed)
      BY <2>3, <2>6
    <3>3. \A i \in 1..n : (front \o freed)[i] = front[i]
      BY <2>3, <2>6
    <3>4. \A i \in 1..Len(freed) : (front \o freed)[n + i] = freed[i]
      BY <2>3, <2>6
    <3>5. DOMAIN (front \o freed) = 1..n + Len(freed)
      BY <3>2
    <3>. QED BY <2>3, <3>1, <3>2, <3>3, <3>4, <3>5
  <2>8. \A i \in 1..n + Len(freed) : \/ i \in 1..n /\ ready'[i] = ready[i]
                                     \/ i - n \in 1..Len(freed) /\ ready'[i] = freed[i - n]
    <3> SUFFICES ASSUME NEW i \in 1..n + Len(freed)
                 PROVE  \/ i \in 1..n /\ ready'[i] = ready[i]
                        \/ i - n \in 1..Len(freed) /\ ready'[i] = freed[i - n]
      OBVIOUS
    <3>1. CASE i <= n
      BY <2>3, <2>7, <3>1
    <3>2. CASE i > n
      <4>1. i - n \in 1..Len(freed) /\ n + (i - n) = i
        BY <2>3, <2>6, <3>2
      <4>. QED BY <2>7, <4>1
    <3>. QED BY <2>3, <3>1, <3>2
  <2>9. \A i \in 1..n : i \in 1..Len(ready) /\ ready[i] \in ToSet(ready) /\ ready[i] # id
    <3> SUFFICES ASSUME NEW i \in 1..n PROVE i \in 1..Len(ready) /\ ready[i] \in ToSet(ready) /\ ready[i] # id
      OBVIOUS
    <3>1. i \in 1..Len(ready) /\ n + 1 \in 1..Len(ready) /\ i # n + 1
      BY <2>3
    <3>. QED BY <1>0, <2>1, <2>4, <3>1 DEF ToSet
  <2>10. \A i \in 1..Len(freed) : freed[i] \in Freed
    BY <1>5
  <2>11. \A i, j \in 1..n + Len(freed) : ready'[i] = ready'[j] => i = j
    <3> SUFFICES ASSUME NEW i \in 1..n + Len(freed), NEW j \in 1..n + Len(freed), ready'[i] = ready'[j] PROVE i = j
      OBVIOUS
    <3>1. CASE i \in 1..n /\ j \in 1..n
      BY <2>1, <2>7, <2>9, <3>1
    <3>2. CASE i - n \in 1..Len(freed) /\ j - n \in 1..Len(freed)
      <4>0. n + (i - n) = i /\ n + (j - n) = j
        BY <2>3
      <4>1. freed[i - n] = freed[j - n]
        BY <2>7, <3>2, <4>0
      <4>2. i - n = j - n
        BY <1>5, <3>2, <4>1
      <4>. QED BY <2>3, <4>2
    <3>3. ~(i \in 1..n /\ j - n \in 1..Len(freed)) /\ ~(j \in 1..n /\ i - n \in 1..Len(freed))
      <4>1. \A k \in 1..n : ready'[k] \in ToSet(ready)
        BY <2>7, <2>9
      <4>2. \A k \in 1..n + Len(freed) : k - n \in 1..Len(freed) => ready'[k] \in Freed
        <5> SUFFICES ASSUME NEW k \in 1..n + Len(freed), k - n \in 1..Len(freed) PROVE ready'[k] \in Freed
          OBVIOUS
        <5>1. n + (k - n) = k
          BY <2>3
        <5>. QED BY <2>7, <2>10, <5>1
      <4>. QED BY <2>2, <4>1, <4>2
    <3>. QED BY <2>8, <3>1, <3>2, <3>3
  <2>12. ToSet(ready') = (ToSet(ready) \ {id}) \cup Freed
    <3>1. ASSUME NEW x \in ToSet(ready') PROVE x \in (ToSet(ready) \ {id}) \cup Freed
      <4>1. PICK i \in 1..n + Len(freed) : x = ready'[i]
        BY <2>7 DEF ToSet
      <4>. QED BY <2>8, <2>9, <2>10, <4>1
    <3>2. ASSUME NEW x \in ToSet(ready), x # id PROVE x \in ToSet(ready')
      <4>1. PICK i \in 1..Len(ready) : x = ready[i]
        BY <1>0 DEF ToSet
      <4>2. i \in 1..n /\ i \in 1..n + Len(freed)
        BY <2>3, <2>4, <2>6, <3>2, <4>1
      <4>. QED BY <2>7, <4>1, <4>2 DEF ToSet
    <3>3. ASSUME NEW x \in Freed PROVE x \in ToSet(ready')
      <4>1. PICK i \in 1..Len(freed) : x = freed[i]
        BY <1>5, <2>6 DEF ToSet
      <4>2. n + i \in 1..n + Len(freed)
        BY <2>3, <2>6
      <4>. QED BY <2>7, <4>1, <4>2 DEF ToSet
    <3>. QED BY <3>1, <3>2, <3>3
  <2>. QED BY <2>7, <2>11, <2>12
<1>13. \A to \in D : indegree'[to] = 0 <=> to \in now \cup ToSet(ready')
  <2> SUFFICES ASSUME NEW to \in D PROVE indegree'[to] = 0 <=> to \in now \cup ToSet(ready')
    OBVIOUS
  <2>1. indegree[to] = 0 <=> to \in gone \cup ToSet(ready)
    BY DEF Kahn
  <2>2. indegree'[to] = indegree[to] - Times(id, to)
    BY <1>2
  <2>3. to \in now \cup ToSet(ready') <=> to \in gone \cup ToSet(ready) \/ to \in Freed
    BY <1>1, <1>12
  <2>4. to \in Freed <=> Times(id, to) > 0 /\ indegree[to] = Times(id, to)
    OBVIOUS
  <2> HIDE DEF Freed
  <2>. QED BY <1>8, <2>1, <2>2, <2>3, <2>4
<1>14. now \cap ToSet(ready') = {}
  <2>1. gone \cap ToSet(ready) = {}
    BY DEF Kahn
  <2>2. Freed \cap (gone \cup {id}) = {}
    <3>1. \A to \in gone \cup {id} : indegree[to] = 0
      BY <1>1, <1>11 DEF Kahn
    <3>. QED BY <1>8, <1>11, <3>1
  <2>. QED BY <1>12, <2>1, <2>2
<1>15. NoLoop(now)
  <2> SUFFICES ASSUME NEW L \in SUBSET now, L # {} PROVE \E b \in L : \A a \in L : Times(a, b) = 0
    BY DEF NoLoop
  <2>1. NoLoop(gone)
    BY DEF Kahn
  <2>2. \A b \in now : \A a : a \notin gone => Times(a, b) = 0
    <3> SUFFICES ASSUME NEW b \in now, NEW a, a \notin gone PROVE Times(a, b) = 0
      OBVIOUS
    <3>1. indegree[b] = 0 /\ indegree[b] = Cardinality(Waits(gone, b))
      BY <1>1, <1>11 DEF Kahn
    <3>2. Waits(gone, b) = {}
      BY <3>1, WaitsLess, FS_EmptySet
    <3>. QED BY <3>2, WaitsLess
  <2>3. CASE L \ {id} = {}
    <3>1. L = {id}
      BY <2>3
    <3>. QED BY <1>1, <2>2, <3>1
  <2>4. CASE L \ {id} # {}
    <3>1. PICK b \in L \ {id} : \A a \in L \ {id} : Times(a, b) = 0
      BY <2>1, <2>4 DEF NoLoop
    <3>2. Times(id, b) = 0
      BY <1>1, <2>2
    <3>. QED BY <3>1, <3>2
  <2>. QED BY <2>3, <2>4
<1>16. NoLoop(now)'
  BY <1>6, <1>15 DEF NoLoop
<1>17. Kahn(now)'
  <2>1. \A to \in D : indegree'[to] = Cardinality(Waits(now, to)')
    BY <1>7, <1>9
  <2> HIDE DEF Freed
  <2>. QED BY <1>10, <1>11, <1>12, <1>13, <1>14, <1>16, <2>1 DEF Kahn
<1>. QED BY <1>10, <1>17

-----------------------------------------------------------------------------
(* The start as a whole. *)

\* What is said of the flow stays true as long as the flow does.
LEMMA FlowStays ==
  ASSUME input' = input
  PROVE  /\ flow' = flow /\ command' = command /\ GivenOK' = GivenOK /\ Validated' = Validated
         /\ NodeIds' = NodeIds /\ Sinks' = Sinks /\ roots' = roots
         /\ \A a, b : Leads(a, b)' = Leads(a, b)
         /\ \A from : After(from)' = After(from)
         /\ Cyclic' = Cyclic
         /\ \A ids : Touched(ids)' = Touched(ids)
<1>1. flow' = flow /\ command' = command
  BY DEF flow, command
<1>2. GivenOK' = GivenOK
  BY <1>1 DEF GivenOK
<1>3. StepSeq' = StepSeq
  BY <1>1 DEF StepSeq
<1>4. Validated' = Validated
  BY <1>1, <1>3 DEF Validated, validate_triggers, validate_steps, validate_edges
<1>5. NodeIds' = NodeIds /\ roots' = roots
  BY <1>1, <1>3 DEF NodeIds, roots
<1>6. Sinks' = Sinks
  BY <1>1, <1>5 DEF Sinks, IsSink
<1>7. \A a, b : Leads(a, b)' = Leads(a, b)
  BY <1>1 DEF Leads
<1>8. \A from : After(from)' = After(from)
  BY <1>1, <1>7 DEF After
<1>9. Cyclic' = Cyclic
  BY <1>1, <1>8 DEF Cyclic
<1>10. \A ids : Touched(ids)' = Touched(ids)
  BY <1>1, <1>7 DEF Touched
<1>. QED BY <1>1, <1>2, <1>4, <1>5, <1>6, <1>7, <1>8, <1>9, <1>10

-----------------------------------------------------------------------------
(* What the searches rely on. *)

\* A stack without its last element.
LEMMA LastSpec ==
  ASSUME NEW T, NEW s \in Seq(T), s # <<>>
  PROVE  /\ Last(s) \in T /\ Last(s) \in ToSet(s)
         /\ Front(s) \in Seq(T) /\ ToSet(s) = ToSet(Front(s)) \cup {Last(s)}
<1> DEFINE n == Len(s) - 1
<1>1. n \in Nat /\ Len(s) = n + 1 /\ DOMAIN s = 1..n + 1
  OBVIOUS
<1>2. Last(s) = s[n + 1] /\ n + 1 \in DOMAIN s
  BY <1>1 DEF Last
<1>3. Front(s) \in Seq(T) /\ DOMAIN Front(s) = 1..n /\ \A i \in 1..n : Front(s)[i] = s[i]
  BY <1>1 DEF Front
<1> HIDE DEF n
<1>4. \A i \in 1..n + 1 : i \in 1..n \/ i = n + 1
  BY <1>1
<1>5. \A i \in 1..n : i \in 1..n + 1
  BY <1>1
<1>6. ToSet(s) = {s[i] : i \in 1..n + 1} /\ ToSet(Front(s)) = {Front(s)[i] : i \in 1..n}
  BY <1>1, <1>3 DEF ToSet
<1>7. ToSet(s) = ToSet(Front(s)) \cup {Last(s)}
  <2>1. ASSUME NEW x \in ToSet(s) PROVE x \in ToSet(Front(s)) \cup {Last(s)}
    BY <1>2, <1>3, <1>4, <1>6
  <2>2. ASSUME NEW x \in ToSet(Front(s)) PROVE x \in ToSet(s)
    BY <1>3, <1>5, <1>6
  <2>3. Last(s) \in ToSet(s)
    BY <1>1, <1>2, <1>6
  <2>. QED BY <2>1, <2>2, <2>3
<1>. QED BY <1>1, <1>2, <1>3, <1>7

\* Two sequences, one after the other.
LEMMA JoinSpec ==
  ASSUME NEW T, NEW s \in Seq(T), NEW t \in Seq(T)
  PROVE  s \o t \in Seq(T) /\ ToSet(s \o t) = ToSet(s) \cup ToSet(t)
<1> DEFINE m == Len(s)
           n == Len(t)
<1>1. m \in Nat /\ n \in Nat /\ DOMAIN s = 1..m /\ DOMAIN t = 1..n
  OBVIOUS
<1>2. s \o t \in Seq(T) /\ Len(s \o t) = m + n /\ DOMAIN (s \o t) = 1..m + n
  OBVIOUS
<1>3. \A i \in 1..m : (s \o t)[i] = s[i]
  OBVIOUS
<1>4. \A i \in 1..n : (s \o t)[m + i] = t[i]
  OBVIOUS
<1> DEFINE st == s \o t
<1>5. ToSet(s) = {s[i] : i \in 1..m} /\ ToSet(t) = {t[i] : i \in 1..n} /\ ToSet(st) = {st[i] : i \in 1..m + n}
  BY <1>1, <1>2 DEF ToSet
<1>6. st \in Seq(T) /\ (\A i \in 1..m : st[i] = s[i]) /\ (\A i \in 1..n : st[m + i] = t[i])
  BY <1>2, <1>3, <1>4
<1> HIDE DEF m, n, st
<1>7. \A i \in 1..m : i \in 1..m + n
  BY <1>1
<1>8. \A i \in 1..n : m + i \in 1..m + n
  BY <1>1
<1>9. \A i \in 1..m + n : i \in 1..m \/ (i - m \in 1..n /\ m + (i - m) = i)
  BY <1>1
<1>10. ToSet(st) = ToSet(s) \cup ToSet(t)
  <2>1. ASSUME NEW x \in ToSet(st) PROVE x \in ToSet(s) \cup ToSet(t)
    <3>1. PICK i \in 1..m + n : x = st[i]
      BY <1>5
    <3>2. CASE i \in 1..m
      BY <1>5, <1>6, <3>1, <3>2
    <3>3. CASE i - m \in 1..n /\ m + (i - m) = i
      <4>1. st[i] = t[i - m]
        BY <1>6, <3>3
      <4>. QED BY <1>5, <3>1, <3>3, <4>1
    <3>. QED BY <1>9, <3>2, <3>3
  <2>2. ASSUME NEW x \in ToSet(s) PROVE x \in ToSet(st)
    BY <1>5, <1>6, <1>7
  <2>3. ASSUME NEW x \in ToSet(t) PROVE x \in ToSet(st)
    <3>1. PICK i \in 1..n : x = t[i]
      BY <1>5
    <3>2. st[m + i] = x /\ m + i \in 1..m + n
      BY <1>6, <1>8, <3>1
    <3>. QED BY <1>5, <3>2
  <2>. QED BY <2>1, <2>2, <2>3
<1>. QED BY <1>6, <1>10 DEF st

\* The roots are nodes, and there are some.
LEMMA RootsSpec ==
  ASSUME GivenOK, Validated
  PROVE  /\ roots \in Seq(NodeIds) /\ ToSet(roots) \subseteq NodeIds
         /\ roots # <<>> \/ (command # "serve" /\ flow.triggers # <<>>)
<1> USE FlowParts
<1> DEFINE places == {i \in DOMAIN flow.steps : flow.steps[i].kind = "source"}
           mine == Select(StepSeq, places)
           theirs == IF command = "serve" THEN flow.triggers ELSE <<>>
<1>1. StepSeq \in Seq(NodeIds) /\ DOMAIN StepSeq = DOMAIN flow.steps
  <2>1. \A i \in DOMAIN flow.steps : flow.steps[i].id \in NodeIds
    BY DEF NodeIds, StepIds
  <2>2. StepSeq \in [1..Len(flow.steps) -> NodeIds]
    BY <2>1 DEF StepSeq
  <2>3. DOMAIN StepSeq = DOMAIN flow.steps /\ Len(flow.steps) \in Nat
    BY DEF StepSeq
  <2>4. StepSeq \in Seq(NodeIds)
    BY ONLY <2>2, <2>3
  <2>. QED BY <2>3, <2>4
<1>2. theirs \in Seq(NodeIds)
  <2>1. CASE command = "serve"
    <3>1. \A i \in DOMAIN flow.triggers : flow.triggers[i] \in NodeIds
      BY <2>1 DEF NodeIds, ToSet
    <3>2. flow.triggers \in [1..Len(flow.triggers) -> NodeIds] /\ Len(flow.triggers) \in Nat
      BY <3>1
    <3>3. flow.triggers \in Seq(NodeIds)
      BY ONLY <3>2
    <3>. QED BY <2>1, <3>3
  <2>2. CASE command # "serve"
    BY <2>2
  <2>. QED BY <2>1, <2>2
<1>3. places \in SUBSET DOMAIN StepSeq
  BY <1>1
<1>4. roots = mine \o theirs
  BY DEF roots
<1>5. flow.triggers # <<>> \/ places # {}
  BY DEF Validated, validate_steps
<1> HIDE DEF places
<1>6. mine \in Seq(NodeIds) /\ (places # {} => mine # <<>>)
  <2>1. /\ mine \in Seq(NodeIds)
        /\ \A i \in places : \E k \in DOMAIN mine : mine[k] = StepSeq[i]
    BY <1>1, <1>3, SelectSpec
  <2> HIDE DEF mine
  <2>. QED BY <2>1
<1> HIDE DEF mine
<1>7. roots \in Seq(NodeIds) /\ ToSet(roots) = ToSet(mine) \cup ToSet(theirs)
  <2> HIDE DEF theirs
  <2>. QED BY <1>2, <1>4, <1>6, JoinSpec
<1>8. ToSet(roots) \subseteq NodeIds
  BY <1>7 DEF ToSet
<1>9. mine # <<>> \/ theirs # <<>> => roots # <<>>
  <2> HIDE DEF theirs
  <2>1. Len(mine) \in Nat /\ Len(theirs) \in Nat /\ Len(mine \o theirs) = Len(mine) + Len(theirs)
    BY <1>2, <1>6
  <2>2. mine # <<>> => Len(mine) > 0
    BY <1>6
  <2>3. theirs # <<>> => Len(theirs) > 0
    BY <1>2
  <2>. QED BY <1>4, <2>1, <2>2, <2>3
<1>. QED BY <1>5, <1>6, <1>7, <1>8, <1>9

\* Along the routes of the graph records go where they may, and so the count of them is.
LEMMA TimesLeads ==
  ASSUME GivenOK, Validated, RoutesOK, adjacency = wire_routes(flow)
  PROVE  /\ DOMAIN adjacency = Ids(flow)
         /\ \A a \in Ids(flow) :
              /\ \A k \in DOMAIN adjacency[a] : Leads(a, adjacency[a][k].to)
              /\ \A b : Leads(a, b) => \E k \in DOMAIN adjacency[a] : adjacency[a][k].to = b
              /\ \A b : Times(a, b) > 0 => Leads(a, b)
              /\ \A b : Leads(a, b) => Times(a, b) > 0
<1>1. IsInjective(StepSeq)
  BY DEF Validated, validate_steps
<1>2. /\ DOMAIN adjacency = Ids(flow)
      /\ \A a \in Ids(flow) :
              /\ \A k \in DOMAIN adjacency[a] : Leads(a, adjacency[a][k].to)
              /\ \A b : Leads(a, b) => \E k \in DOMAIN adjacency[a] : adjacency[a][k].to = b
  BY <1>1, WireSpec
<1> SUFFICES ASSUME NEW a \in Ids(flow), NEW b
             PROVE  (Times(a, b) > 0 => Leads(a, b)) /\ (Leads(a, b) => Times(a, b) > 0)
  BY <1>2
<1>3. Times(a, b) > 0 <=> \E p \in RoutesTo(adjacency, b) : p[1] = a
  BY TimesSpec
<1>4. ASSUME NEW p \in RoutesTo(adjacency, b), p[1] = a PROVE Leads(a, b)
  <2>1. PICK c \in DOMAIN adjacency : \E k \in DOMAIN adjacency[c] : p = <<c, k>> /\ adjacency[c][k].to = b
    BY RouteSpec
  <2>2. c = a
    BY <1>4, <2>1
  <2>. QED BY <1>2, <2>1, <2>2
<1>5. ASSUME Leads(a, b) PROVE \E p \in RoutesTo(adjacency, b) : p[1] = a
  <2>1. PICK k \in DOMAIN adjacency[a] : adjacency[a][k].to = b
    BY <1>2, <1>5
  <2>2. <<a, k>> \in RoutesTo(adjacency, b)
    BY <1>2, <2>1, RouteSpec
  <2>3. <<a, k>>[1] = a
    OBVIOUS
  <2>. QED BY <2>2, <2>3
<1>. QED BY <1>3, <1>4, <1>5

-----------------------------------------------------------------------------
(* The inductive invariant. *)
Graphed == {"kahn_graph", "nodes", "from_source", "to_sink", "built"}
Loaded == {"kahn_config", "manifests", "build"} \cup Graphed
Pcs == {"load", "validate", "failed"} \cup Loaded

\* What has been checked of the flow stays checked; only a start that failed found a cycle.
CheckedInv ==
  /\ GivenOK /\ pc \in Pcs
  /\ pc \in Loaded => Validated
  /\ error = "cycle" => pc = "failed"

\* While routes are gone along, some nodes have gone.
KahnInv ==
  /\ pc \in {"kahn_config"} \cup Graphed => RoutesOK
  /\ pc \in {"kahn_config", "kahn_graph"} => \E gone \in SUBSET DOMAIN indegree : Kahn(gone)

\* The routes of the configuration are part of those records may take.
ConfigInv ==
  pc = "kahn_config" =>
    /\ DOMAIN adjacency = DOMAIN indegree /\ DOMAIN indegree \subseteq Ids(flow)
    /\ \A a, b \in DOMAIN adjacency : Times(a, b) > 0 => Leads(a, b)

\* Those of the graph are all of them, and end at its nodes.
GraphInv ==
  pc \in Graphed =>
    /\ adjacency = wire_routes(flow) /\ DOMAIN indegree = NodeIds
    /\ \A i \in DOMAIN flow.steps : Partial(flow.steps[i])
    /\ validate_targets(adjacency, NodeIds)

\* When the second count has come to its end there is no cycle, and no route left out.
SortedInv ==
  pc \in Graphed \ {"kahn_graph"} =>
    /\ ~Cyclic
    /\ \A a, b \in Ids(flow) : Leads(a, b) => a \in NodeIds /\ b \in NodeIds

SinksInv == pc \in {"from_source", "to_sink", "built"} => \A id \in Sinks : adjacency[id] = <<>>

FromSources == ToSet(roots) \cup After(ToSet(roots))
ToSinks == Sinks \cup {id \in NodeIds : After({id}) \cap Sinks # {}}

\* A search has seen or will see what it starts from and what is next to what it has
\* seen, and nothing that is not reached.
SearchInv ==
  /\ DOMAIN warned = {"from_source", "to_sink"}
  /\ pc \in {"from_source", "to_sink"} => stack \in Seq(NodeIds)
  /\ pc = "from_source" =>
       /\ ToSet(roots) \subseteq seen \cup ToSet(stack) /\ seen \cup ToSet(stack) \subseteq FromSources
       /\ \A a \in seen, b \in Ids(flow) : Leads(a, b) => b \in seen \cup ToSet(stack)
  /\ pc = "to_sink" =>
       /\ Sinks \subseteq seen \cup ToSet(stack) /\ seen \cup ToSet(stack) \subseteq ToSinks
       /\ \A b \in seen, a \in NodeIds : Leads(a, b) => a \in seen \cup ToSet(stack)
  /\ pc \in {"to_sink", "built"} => warned.from_source = NodeIds \ FromSources
  /\ pc = "built" => warned.to_sink = NodeIds \ ToSinks

StartInv ==
  /\ CheckedInv /\ KahnInv /\ ConfigInv /\ GraphInv /\ SortedInv /\ SinksInv /\ SearchInv
  /\ RefusedForCycle

\* A step and its template make a step.
LEMMA MergeSpec ==
  ASSUME NEW s \in StepConfigs, NEW t \in StepConfigs
  PROVE  merge_template(s, t) \in StepConfigs
<1> DEFINE or(mine, none, its) == IF mine = none THEN its ELSE mine
<1>1. /\ or(s.kind, "none", t.kind) \in Optional /\ or(s.type, "none", t.type) \in Optional
      /\ or(s.on_error, "none", t.on_error) \in Optional /\ or(s.targets, <<>>, t.targets) \in Seq(STRING)
      /\ or(s.n, 0, t.n) \in Nat /\ or(s.size, 0, t.size) \in Nat
      /\ (s.when \/ t.when) \in BOOLEAN /\ (s.retry \/ t.retry) \in BOOLEAN /\ (s.within \/ t.within) \in BOOLEAN
  BY DEF StepConfigs
<1>2. merge_template(s, t) =
        [s EXCEPT !.kind = or(s.kind, "none", t.kind), !.type = or(s.type, "none", t.type),
                  !.when = s.when \/ t.when, !.on_error = or(s.on_error, "none", t.on_error), !.retry = s.retry \/ t.retry,
                  !.targets = or(s.targets, <<>>, t.targets), !.n = or(s.n, 0, t.n),
                  !.size = or(s.size, 0, t.size), !.within = s.within \/ t.within, !.use = "none"]
  BY DEF merge_template
<1> DEFINE a == or(s.kind, "none", t.kind)
           b == or(s.type, "none", t.type)
           c == or(s.on_error, "none", t.on_error)
           d == or(s.targets, <<>>, t.targets)
           e == or(s.n, 0, t.n)
           f == or(s.size, 0, t.size)
           one == [s EXCEPT !.kind = a, !.type = b, !.when = s.when \/ t.when]
           two == [one EXCEPT !.on_error = c, !.retry = s.retry \/ t.retry, !.targets = d]
           three == [two EXCEPT !.n = e, !.size = f]
           within == s.within \/ t.within
           four == [three EXCEPT !.within = within, !.use = "none"]
<1>3. merge_template(s, t) = four
  BY <1>2
<1> HIDE DEF or, a, b, c, d, e, f, within
<1>4. one \in StepConfigs
  BY <1>1 DEF StepConfigs, a, b
<1>5. two \in StepConfigs
  <2> HIDE DEF one
  <2>. QED BY <1>1, <1>4 DEF StepConfigs, c, d
<1>6. three \in StepConfigs
  <2> HIDE DEF two
  <2>. QED BY <1>1, <1>5 DEF StepConfigs, e, f
<1>7. four \in StepConfigs
  <2>1. within \in BOOLEAN /\ "none" \in Optional
    BY DEF within, Optional
  <2> HIDE DEF one, two, three
  <2>. QED BY ONLY <1>6, <2>1 DEF StepConfigs
<1>. QED BY <1>3, <1>7

\* Templates leave steps what they are.
LEMMA TemplatesKeep ==
  ASSUME CheckedInv, apply_templates
  PROVE  GivenOK' /\ pc' \in Pcs /\ pc' \notin Loaded /\ error' # "cycle"
<1>1. CASE ~(\A i \in DOMAIN flow.steps : Mergeable(flow.steps[i]))
  <2>1. input' = input /\ pc' = "failed" /\ error' = "template"
    BY <1>1 DEF apply_templates, Fail
  <2>. QED BY <2>1, FlowStays DEF CheckedInv, Pcs, Loaded, Graphed
<1>2. CASE \A i \in DOMAIN flow.steps : Mergeable(flow.steps[i])
  <2> DEFINE steps == [i \in DOMAIN flow.steps |->
                         IF flow.steps[i].use = "none" THEN flow.steps[i]
                         ELSE merge_template(flow.steps[i], flow.templates[flow.steps[i].use])]
  <2>1. input' = [input EXCEPT !.flow = [input.flow EXCEPT !.steps = steps]] /\ pc' = "validate" /\ error' = error
    BY <1>2 DEF apply_templates, flow
  <2>2. steps \in Seq(StepConfigs)
    <3>1. ASSUME NEW i \in DOMAIN flow.steps, flow.steps[i].use # "none"
          PROVE  merge_template(flow.steps[i], flow.templates[flow.steps[i].use]) \in StepConfigs
      <4>1. flow.steps[i] \in StepConfigs
        BY FlowParts DEF CheckedInv
      <4>2. flow.templates[flow.steps[i].use] \in StepConfigs
        BY <1>2, <3>1 DEF Mergeable, CheckedInv, GivenOK
      <4>. QED BY <4>1, <4>2, MergeSpec
    <3>2. DOMAIN flow.steps = 1..Len(flow.steps) /\ Len(flow.steps) \in Nat /\ flow.steps \in Seq(StepConfigs)
      BY FlowParts DEF CheckedInv
    <3>3. steps \in [1..Len(flow.steps) -> StepConfigs]
      BY <3>1, <3>2
    <3>. QED BY <3>2, <3>3
  <2> HIDE DEF steps
  <2>3. GivenOK'
    <3>1. /\ input \in [command : Commands, flow : FlowConfigs(flow.templates),
                        trusted : Seq(ManifestFiles), user : Seq(ManifestFiles)]
          /\ \A t \in DOMAIN flow.templates : flow.templates[t] \in StepConfigs
      BY DEF CheckedInv, GivenOK, flow
    <3>2. [input.flow EXCEPT !.steps = steps] \in FlowConfigs(flow.templates)
      <4>1. input.flow \in FlowConfigs(flow.templates)
        BY <3>1
      <4>. QED BY <2>2, <4>1 DEF FlowConfigs
    <3>3. input'.flow = [input.flow EXCEPT !.steps = steps]
      BY <2>1, <3>1
    <3>4. input'.flow.templates = flow.templates
      BY <3>1, <3>3 DEF flow, FlowConfigs
    <3>5. input' \in [command : Commands, flow : FlowConfigs(flow.templates),
                      trusted : Seq(ManifestFiles), user : Seq(ManifestFiles)]
      BY <2>1, <3>1, <3>2
    <3>. QED BY <3>1, <3>4, <3>5 DEF GivenOK, flow
  <2>. QED BY <2>1, <2>3 DEF CheckedInv, Pcs, Loaded, Graphed, apply_templates
<1>. QED BY <1>1, <1>2

\* The count of the configuration is of edges of the flow.
LEMMA ConfigStarts ==
  ASSUME GivenOK, Validated, input' = input,
         NEW ends, ends = UNION {{e.from, e.to} : e \in ToSet(flow.edges)},
         NEW routes, routes = [id \in ends |-> From(flow.edges, id)],
         check_acyclic(routes, ends)
  PROVE  /\ adjacency' = routes /\ DOMAIN indegree' = ends /\ RoutesOK' /\ Kahn({})'
         /\ ends \subseteq Ids(flow)
         /\ \A a, b : (Times(a, b) > 0)' => Leads(a, b)
<1> USE FlowParts
<1>1. ends \subseteq Ids(flow)
  BY DEF Validated, validate_edges, ToSet
<1>2. IsFiniteSet(ends)
  BY <1>1, FiniteIds, FS_Subset
<1>3. DOMAIN routes = ends
  OBVIOUS
<1>4. \A a \in ends : /\ routes[a] \in Seq(EdgeConfigs)
                      /\ \A k \in DOMAIN routes[a] : \E i \in DOMAIN flow.edges : flow.edges[i].from = a /\ flow.edges[i] = routes[a][k]
  <2> SUFFICES ASSUME NEW a \in ends
               PROVE  /\ routes[a] \in Seq(EdgeConfigs)
                      /\ \A k \in DOMAIN routes[a] : \E i \in DOMAIN flow.edges : flow.edges[i].from = a /\ flow.edges[i] = routes[a][k]
    OBVIOUS
  <2>1. routes[a] = From(flow.edges, a)
    OBVIOUS
  <2>2. flow.edges \in Seq(EdgeConfigs)
    OBVIOUS
  <2>. QED BY ONLY <2>1, <2>2, FromSpec
<1>5. \A a \in ends : IsFiniteSet(DOMAIN routes[a])
  <2> SUFFICES ASSUME NEW a \in ends PROVE IsFiniteSet(DOMAIN routes[a])
    OBVIOUS
  <2>1. DOMAIN routes[a] = 1..Len(routes[a]) /\ 1 \in Int /\ Len(routes[a]) \in Int
    BY <1>4
  <2>. QED BY <2>1, FS_Interval
<1>6. adjacency' = routes /\ DOMAIN indegree' = ends /\ RoutesOK' /\ Kahn({})'
  BY <1>2, <1>3, <1>5, KahnStarts
<1>7. ASSUME NEW a, NEW b, (Times(a, b) > 0)' PROVE Leads(a, b)
  <2>1. \E p \in RoutesTo(routes, b) : p[1] = a
    <3>1. (Times(a, b) > 0 <=> \E p \in RoutesTo(adjacency, b) : p[1] = a)'
      BY <1>6, TimesSpec, PTL
    <3>. QED BY <1>6, <1>7, <3>1
  <2>2. PICK p \in RoutesTo(routes, b) : p[1] = a
    BY <2>1
  <2>3. \E c \in DOMAIN routes : \E k \in DOMAIN routes[c] : p = <<c, k>> /\ routes[c][k].to = b
    BY ONLY <2>2, RouteSpec
  <2>4. PICK k \in DOMAIN routes[a] : routes[a][k].to = b /\ a \in ends
    BY <1>3, <2>2, <2>3
  <2>5. PICK i \in DOMAIN flow.edges : flow.edges[i].from = a /\ flow.edges[i] = routes[a][k]
    <3>1. \E i \in DOMAIN flow.edges : flow.edges[i].from = a /\ flow.edges[i] = routes[a][k]
      BY ONLY <1>4, <2>4
    <3>. QED BY <3>1
  <2>. QED BY <2>4, <2>5 DEF Leads
<1>. QED BY <1>1, <1>6, <1>7

\* A start that fails for another reason than a cycle leaves nothing to keep.
LEMMA FailsSafely ==
  ASSUME StartInv, input' = input, pc' = "failed", warned' = warned, error' # "cycle"
  PROVE  StartInv'
<1>1. GivenOK' /\ DOMAIN warned' = {"from_source", "to_sink"}
  BY FlowStays DEF StartInv, CheckedInv, SearchInv
<1>2. /\ pc' \in Pcs /\ pc' \notin Loaded /\ pc' \notin Graphed /\ pc' \notin {"kahn_config"} \cup Graphed
      /\ pc' \notin {"kahn_config", "kahn_graph"} /\ pc' # "kahn_config" /\ pc' \notin Graphed \ {"kahn_graph"}
      /\ pc' \notin {"from_source", "to_sink", "built"} /\ pc' \notin {"from_source", "to_sink"}
      /\ pc' # "from_source" /\ pc' # "to_sink" /\ pc' \notin {"to_sink", "built"} /\ pc' # "built"
  BY DEF Pcs, Loaded, Graphed
<1>3. CheckedInv'
  BY <1>1, <1>2 DEF CheckedInv
<1>4. KahnInv' /\ ConfigInv' /\ GraphInv' /\ SortedInv' /\ SinksInv'
  BY <1>2 DEF KahnInv, ConfigInv, GraphInv, SortedInv, SinksInv
<1>5. SearchInv'
  BY <1>1, <1>2 DEF SearchInv
<1>6. RefusedForCycle'
  BY DEF RefusedForCycle
<1>. QED BY <1>3, <1>4, <1>5, <1>6 DEF StartInv

\* Between the two counts the flow is validated, and that is all.
LEMMA GoesOn ==
  ASSUME StartInv, pc \in Loaded, input' = input, pc' \in {"manifests", "build"}, warned' = warned, error' = error
  PROVE  StartInv'
<1>1. /\ GivenOK' /\ Validated' /\ DOMAIN warned' = {"from_source", "to_sink"} /\ error' # "cycle"
  BY FlowStays DEF StartInv, CheckedInv, SearchInv, Loaded, Graphed
<1>2. /\ pc' \in Pcs /\ pc' \notin Graphed /\ pc' \notin {"kahn_config"} \cup Graphed
      /\ pc' \notin {"kahn_config", "kahn_graph"} /\ pc' # "kahn_config" /\ pc' \notin Graphed \ {"kahn_graph"}
      /\ pc' \notin {"from_source", "to_sink", "built"} /\ pc' \notin {"from_source", "to_sink"}
      /\ pc' # "from_source" /\ pc' # "to_sink" /\ pc' \notin {"to_sink", "built"} /\ pc' # "built"
  BY DEF Pcs, Loaded, Graphed
<1>3. CheckedInv'
  BY <1>1, <1>2 DEF CheckedInv
<1>4. KahnInv' /\ ConfigInv' /\ GraphInv' /\ SortedInv' /\ SinksInv'
  BY <1>2 DEF KahnInv, ConfigInv, GraphInv, SortedInv, SinksInv
<1>5. SearchInv'
  BY <1>1, <1>2 DEF SearchInv
<1>6. RefusedForCycle'
  BY <1>1 DEF RefusedForCycle
<1>. QED BY <1>3, <1>4, <1>5, <1>6 DEF StartInv

\* The start of the program.
LEMMA StartStarts ==
  ASSUME StartupInit PROVE StartInv
<1>1. GivenOK
  BY StartupAssumption DEF StartupInit, GivenOK, Commands, flow
<1>2. pc = "load" /\ error = "none" /\ DOMAIN warned = {"from_source", "to_sink"}
  BY DEF StartupInit
<1>. QED
  BY <1>1, <1>2 DEF StartInv, CheckedInv, KahnInv, ConfigInv, GraphInv, SortedInv, SinksInv, SearchInv,
                    RefusedForCycle, Pcs, Loaded, Graphed

\* Loading the flow.
LEMMA TemplatesStep ==
  ASSUME StartInv, apply_templates PROVE StartInv'
<1>1. GivenOK' /\ pc' \in Pcs /\ pc' \notin Loaded /\ error' # "cycle"
  BY TemplatesKeep DEF StartInv
<1>2. DOMAIN warned' = {"from_source", "to_sink"}
  BY DEF StartInv, SearchInv, apply_templates, reachVars
<1>. QED
  BY <1>1, <1>2 DEF StartInv, CheckedInv, KahnInv, ConfigInv, GraphInv, SortedInv, SinksInv, SearchInv,
                    RefusedForCycle, Pcs, Loaded, Graphed

\* Validating it.
LEMMA ValidateStep ==
  ASSUME StartInv, validate PROVE StartInv'
<1>0. input' = input /\ warned' = warned /\ pc = "validate"
  BY DEF validate, reachVars
<1>1. CASE flow.version # "1" \/ ~validate_triggers \/ ~validate_steps \/ ~validate_edges
  <2>1. pc' = "failed" /\ error' # "cycle"
    BY <1>1 DEF validate, Fail
  <2>. QED BY <1>0, <2>1, FailsSafely
<1>2. CASE ~(flow.version # "1" \/ ~validate_triggers \/ ~validate_steps \/ ~validate_edges)
  <2> DEFINE ends == UNION {{e.from, e.to} : e \in ToSet(flow.edges)}
             routes == [id \in ends |-> From(flow.edges, id)]
  <2>1. check_acyclic(routes, ends) /\ pc' = "kahn_config" /\ error' = error
    BY <1>2 DEF validate
  <2>2. GivenOK /\ Validated /\ error # "cycle"
    BY <1>0, <1>2 DEF StartInv, CheckedInv, Validated
  <2>3. DOMAIN routes = ends
    OBVIOUS
  <2>4. /\ adjacency' = routes /\ DOMAIN indegree' = ends /\ RoutesOK' /\ Kahn({})'
        /\ ends \subseteq Ids(flow)
        /\ \A a, b : (Times(a, b) > 0)' => Leads(a, b)
    <3> DEFINE e == ends
               r == routes
    <3>1. e = UNION {{x.from, x.to} : x \in ToSet(flow.edges)} /\ r = [id \in e |-> From(flow.edges, id)]
      OBVIOUS
    <3>2. check_acyclic(r, e)
      BY <2>1
    <3> HIDE DEF e, r
    <3>3. /\ adjacency' = r /\ DOMAIN indegree' = e /\ RoutesOK' /\ Kahn({})'
          /\ e \subseteq Ids(flow)
          /\ \A a, b : (Times(a, b) > 0)' => Leads(a, b)
      BY <1>0, <2>2, <3>1, <3>2, ConfigStarts
    <3>. QED BY <3>3 DEF e, r
  <2> HIDE DEF ends, routes
  <2>5. GivenOK' /\ Validated' /\ flow' = flow /\ \A a, b : Leads(a, b)' = Leads(a, b)
    BY <1>0, <2>2, FlowStays
  <2>6. CheckedInv'
    BY <2>1, <2>2, <2>5 DEF CheckedInv, Pcs, Loaded
  <2>7. KahnInv'
    <3>1. {} \in SUBSET DOMAIN indegree'
      OBVIOUS
    <3>2. (\E gone \in SUBSET DOMAIN indegree : Kahn(gone))'
      BY <2>4, <3>1
    <3>. QED BY <2>4, <3>2 DEF KahnInv
  <2>8. ConfigInv'
    BY <2>3, <2>4, <2>5 DEF ConfigInv
  <2>9. GraphInv' /\ SortedInv' /\ SinksInv'
    BY <2>1 DEF GraphInv, SortedInv, SinksInv, Graphed
  <2>10. SearchInv'
    BY <1>0, <2>1 DEF StartInv, SearchInv
  <2>11. RefusedForCycle'
    BY <2>1, <2>2 DEF RefusedForCycle
  <2>. QED BY <2>6, <2>7, <2>8, <2>9, <2>10, <2>11 DEF StartInv
<1>. QED BY <1>1, <1>2

\* The manifests and the providers.
LEMMA ExtensionsStep ==
  ASSUME StartInv, LoadManifest \/ Providers PROVE StartInv'
<1>1. input' = input /\ warned' = warned /\ pc = "manifests"
  BY DEF LoadManifest, Providers, reachVars
<1>2. \/ pc' = "failed" /\ error' # "cycle"
      \/ pc' \in {"manifests", "build"} /\ error' = error
  BY <1>1 DEF LoadManifest, Providers, Fail
<1>3. pc \in Loaded
  BY <1>1 DEF Loaded
<1>. QED BY <1>1, <1>2, <1>3, FailsSafely, GoesOn

\* The count, of the configuration and of the graph.
LEMMA PopStep ==
  ASSUME StartInv, Pop PROVE StartInv'
<1>1. /\ pc \in {"kahn_config", "kahn_graph"} /\ ready # <<>> /\ pc' = pc
      /\ input' = input /\ error' = error /\ registry' = registry /\ adjacency' = adjacency /\ warned' = warned
  BY DEF Pop, reachVars
<1>2. RoutesOK /\ GivenOK /\ Validated /\ pc \in Loaded /\ error # "cycle"
  BY <1>1 DEF StartInv, KahnInv, CheckedInv, Loaded, Graphed
<1>3. PICK gone \in SUBSET DOMAIN indegree : Kahn(gone)
  BY <1>1 DEF StartInv, KahnInv
<1>4. PICK id : id = Last(ready)
  OBVIOUS
<1>5. PICK now : now = gone \cup {id}
  OBVIOUS
<1>6. RoutesOK' /\ Kahn(now)' /\ DOMAIN indegree' = DOMAIN indegree
  BY <1>2, <1>3, <1>4, <1>5, KahnPop
<1>7. /\ flow' = flow /\ GivenOK' /\ Validated' /\ NodeIds' = NodeIds
      /\ \A a, b : Leads(a, b)' = Leads(a, b)
  BY <1>1, <1>2, FlowStays
<1>8. CheckedInv'
  BY <1>1, <1>2, <1>7 DEF CheckedInv, StartInv
<1>9. KahnInv'
  <2>1. (\E g \in SUBSET DOMAIN indegree : Kahn(g))'
    <3>1. now \in SUBSET DOMAIN indegree'
      BY <1>6 DEF Kahn
    <3>. QED BY <1>6, <3>1
  <2>. QED BY <1>6, <2>1 DEF KahnInv
<1>10. ConfigInv'
  <2>1. \A a, b : Times(a, b)' = Times(a, b)
    BY <1>1 DEF Times
  <2>. QED BY <1>1, <1>6, <1>7, <2>1 DEF ConfigInv, StartInv
<1>11. GraphInv'
  <2>1. command' = command
    BY <1>1 DEF command
  <2>2. \A i \in DOMAIN flow.steps : Partial(flow.steps[i])' = Partial(flow.steps[i])
    BY <1>1, <1>7 DEF Partial
  <2>. QED BY <1>1, <1>6, <1>7, <2>2 DEF GraphInv, StartInv, validate_targets
<1>12. SortedInv' /\ SinksInv' /\ SearchInv'
  BY <1>1 DEF SortedInv, SinksInv, SearchInv, StartInv, Graphed
<1>13. RefusedForCycle'
  BY <1>1, <1>2 DEF RefusedForCycle
<1>. QED BY <1>8, <1>9, <1>10, <1>11, <1>12, <1>13 DEF StartInv

\* When nothing is ready, either every node has gone and nothing leads to one but from
\* another, or each of those left has a route to it from one that has not gone.
LEMMA KahnEnds ==
  ASSUME RoutesOK, NEW gone \in SUBSET DOMAIN indegree, Kahn(gone), ready = <<>>
  PROVE  /\ visited = Cardinality(DOMAIN indegree) => gone = DOMAIN indegree
         /\ visited # Cardinality(DOMAIN indegree) => gone # DOMAIN indegree
         /\ \A b \in gone : Waits(gone, b) = {}
         /\ \A b \in DOMAIN indegree \ gone : \E a \in DOMAIN adjacency \ gone : Times(a, b) > 0
<1> DEFINE D == DOMAIN indegree
<1>1. IsFiniteSet(D) /\ Cardinality(gone) = visited
  BY FS_Subset DEF RoutesOK, Kahn
<1>2. Cardinality(gone) = Cardinality(D) => gone = D
  <2> HIDE DEF D
  <2>1. gone \in SUBSET D
    BY DEF D
  <2>. QED BY <1>1, <2>1, FS_Subset
<1>3. ToSet(ready) = {}
  BY DEF ToSet
<1>4. \A b \in D : indegree[b] = 0 <=> b \in gone
  BY <1>3 DEF Kahn
<1>5. \A b \in D : indegree[b] = Cardinality(Waits(gone, b)) /\ IsFiniteSet(Waits(gone, b))
  <2>1. \A b \in D : IsFiniteSet(RoutesTo(adjacency, b)) /\ Waits(gone, b) \in SUBSET RoutesTo(adjacency, b)
    BY RoutesFinite DEF RoutesOK, Waits
  <2>. QED BY <2>1, FS_Subset DEF Kahn
<1>6. \A b \in gone : Waits(gone, b) = {}
  BY <1>4, <1>5, FS_EmptySet
<1>7. ASSUME NEW b \in D \ gone PROVE \E a \in DOMAIN adjacency \ gone : Times(a, b) > 0
  <2>1. Waits(gone, b) # {}
    BY <1>4, <1>5, <1>7, FS_EmptySet
  <2>2. PICK p \in RoutesTo(adjacency, b) : p[1] \notin gone
    BY <2>1 DEF Waits
  <2>3. Times(p[1], b) > 0
    BY <2>2, TimesSpec
  <2>4. \E a \in DOMAIN adjacency : \E k \in DOMAIN adjacency[a] : p = <<a, k>> /\ adjacency[a][k].to = b
    BY <2>2, RouteSpec
  <2>. QED BY <2>2, <2>3, <2>4
<1>. QED BY <1>1, <1>2, <1>6, <1>7

\* A flow that is refused has a cycle among the nodes left, or a route from a trigger.
LEMMA RefusedRightly ==
  ASSUME StartInv, Popped, visited # Cardinality(DOMAIN indegree)
  PROVE  Cyclic \/ (command # "serve" /\ Touched(ToSet(flow.triggers)))
<1>1. pc \in {"kahn_config", "kahn_graph"} /\ ready = <<>>
  BY DEF Popped
<1>2. RoutesOK /\ GivenOK /\ Validated
  BY <1>1 DEF StartInv, KahnInv, CheckedInv, Loaded, Graphed
<1>3. PICK gone \in SUBSET DOMAIN indegree : Kahn(gone)
  BY <1>1 DEF StartInv, KahnInv
<1> DEFINE left == DOMAIN indegree \ gone
<1>4. left # {} /\ \A b \in left : \E a \in DOMAIN adjacency \ gone : Times(a, b) > 0
  BY <1>1, <1>2, <1>3, KahnEnds
<1>5. left \in SUBSET Ids(flow) /\ \A a \in DOMAIN adjacency, b \in left : Times(a, b) > 0 => Leads(a, b)
  <2>1. CASE pc = "kahn_config"
    BY <2>1 DEF StartInv, ConfigInv
  <2>2. CASE pc = "kahn_graph"
    <3>1. adjacency = wire_routes(flow) /\ DOMAIN indegree = NodeIds
      BY <2>2 DEF StartInv, GraphInv, Graphed
    <3>2. NodeIds \subseteq Ids(flow)
      BY <1>2, FiniteIds
    <3>. QED BY <1>2, <3>1, <3>2, TimesLeads
  <2>. QED BY <1>1, <2>1, <2>2
<1>6. DOMAIN adjacency \subseteq Ids(flow)
  <2>1. CASE pc = "kahn_config"
    BY <2>1 DEF StartInv, ConfigInv
  <2>2. CASE pc = "kahn_graph"
    <3>1. adjacency = wire_routes(flow)
      BY <2>2 DEF StartInv, GraphInv, Graphed
    <3>. QED BY <1>2, <3>1, TimesLeads
  <2>. QED BY <1>1, <2>1, <2>2
<1>7. CASE \A b \in left : \E a \in left : Times(a, b) > 0
  <2>1. \A b \in left : \E a \in left : Leads(a, b)
    <3>1. DOMAIN indegree \subseteq DOMAIN adjacency
      BY <1>2 DEF RoutesOK
    <3>. QED BY <1>5, <1>7, <3>1
  <2> HIDE DEF left
  <2>. QED BY <1>2, <1>4, <1>5, <2>1, LoopsCycle DEF Loops
<1>8. CASE ~(\A b \in left : \E a \in left : Times(a, b) > 0)
  <2>1. PICK b \in left, a \in DOMAIN adjacency \ gone : Times(a, b) > 0 /\ a \notin left
    BY <1>4, <1>8
  <2>2. a \notin DOMAIN indegree /\ a \in Ids(flow) /\ b \in Ids(flow) /\ Leads(a, b)
    BY <1>5, <1>6, <2>1
  <2>3. pc = "kahn_graph"
    BY <1>1, <2>1, <2>2 DEF StartInv, ConfigInv
  <2>4. a \notin NodeIds
    BY <2>2, <2>3 DEF StartInv, GraphInv, Graphed
  <2>5. a \in ToSet(flow.triggers) /\ command # "serve"
    BY <1>2, <2>2, <2>4, FiniteIds
  <2>6. {a, b} \cap ToSet(flow.triggers) # {}
    BY <2>5
  <2>. QED BY <2>2, <2>5, <2>6 DEF Touched
<1>. QED BY <1>7, <1>8

\* A graph whose nodes have all gone has no cycle, and no route from elsewhere.
LEMMA SortedRightly ==
  ASSUME StartInv, Popped, visited = Cardinality(DOMAIN indegree), pc = "kahn_graph"
  PROVE  /\ ~Cyclic
         /\ \A a, b \in Ids(flow) : Leads(a, b) => a \in NodeIds /\ b \in NodeIds
<1>1. ready = <<>>
  BY DEF Popped
<1>2. RoutesOK /\ GivenOK /\ Validated
  BY DEF StartInv, KahnInv, CheckedInv, Loaded, Graphed
<1>3. PICK gone \in SUBSET DOMAIN indegree : Kahn(gone)
  BY DEF StartInv, KahnInv
<1>4. /\ adjacency = wire_routes(flow) /\ DOMAIN indegree = NodeIds /\ validate_targets(adjacency, NodeIds)
      /\ NodeIds \subseteq Ids(flow)
  BY <1>2, FiniteIds DEF StartInv, GraphInv, Graphed
<1>5. gone = NodeIds /\ \A b \in gone : Waits(gone, b) = {}
  BY <1>1, <1>2, <1>3, <1>4, KahnEnds
<1>6. /\ DOMAIN adjacency = Ids(flow)
      /\ \A a \in Ids(flow) :
           /\ \A b : Leads(a, b) => \E k \in DOMAIN adjacency[a] : adjacency[a][k].to = b
           /\ \A b : Leads(a, b) => Times(a, b) > 0
  BY <1>2, <1>4, TimesLeads
<1>7. ASSUME NEW a \in Ids(flow), NEW b \in Ids(flow), Leads(a, b) PROVE a \in NodeIds /\ b \in NodeIds
  <2>1. b \in NodeIds
    BY <1>4, <1>6, <1>7 DEF validate_targets
  <2>2. Times(a, b) > 0
    BY <1>6, <1>7
  <2>3. PICK p \in RoutesTo(adjacency, b) : p[1] = a
    BY <1>2, <2>2, TimesSpec
  <2>4. a \in gone
    BY <1>5, <2>1, <2>3 DEF Waits
  <2>. QED BY <1>5, <2>1, <2>4
<1>8. ASSUME Cyclic PROVE FALSE
  <2>1. PICK L \in SUBSET Ids(flow) : Loops(L)
    BY <1>8, CycleLoops
  <2>2. L # {} /\ \A b \in L : \E a \in L : Leads(a, b)
    BY <2>1 DEF Loops
  <2>3. L \in SUBSET gone
    BY <1>5, <1>7, <2>2
  <2>4. NoLoop(gone)
    BY <1>3 DEF Kahn
  <2>5. PICK b \in L : \A a \in L : Times(a, b) = 0
    BY <2>2, <2>3, <2>4 DEF NoLoop
  <2>6. PICK a \in L : Leads(a, b)
    BY <2>2
  <2>7. Times(a, b) > 0 /\ Times(a, b) = 0
    BY <1>6, <2>5, <2>6
  <2>. QED BY <2>7
<1>. QED BY <1>7, <1>8

\* The end of a count.
LEMMA PoppedStep ==
  ASSUME StartInv, Popped PROVE StartInv'
<1>1. /\ pc \in {"kahn_config", "kahn_graph"} /\ input' = input /\ warned' = warned /\ registry' = registry
      /\ adjacency' = adjacency /\ indegree' = indegree
  BY DEF Popped, reachVars, kahnVars
<1>2. RoutesOK /\ GivenOK /\ Validated /\ pc \in Loaded /\ error # "cycle"
  BY <1>1 DEF StartInv, KahnInv, CheckedInv, Loaded, Graphed
<1>3. CASE visited # Cardinality(DOMAIN indegree)
  <2>1. pc' = "failed" /\ error' = "cycle"
    BY <1>3 DEF Popped, Fail
  <2>2. (Cyclic \/ (command # "serve" /\ Touched(ToSet(flow.triggers))))'
    <3>1. Cyclic \/ (command # "serve" /\ Touched(ToSet(flow.triggers)))
      BY <1>3, RefusedRightly
    <3>2. flow' = flow /\ command' = command /\ Cyclic' = Cyclic /\ \A ids : Touched(ids)' = Touched(ids)
      BY <1>1, FlowStays
    <3>3. Touched(ToSet(flow.triggers))' = Touched(ToSet(flow.triggers))
      <4>1. \A a, b : Leads(a, b)' = Leads(a, b)
        BY <1>1, FlowStays
      <4>. QED BY <3>2, <4>1 DEF Touched
    <3>. QED BY <3>1, <3>2, <3>3
  <2>3. GivenOK' /\ DOMAIN warned' = {"from_source", "to_sink"}
    BY <1>1, <1>2, FlowStays DEF StartInv, SearchInv
  <2>4. CheckedInv'
    BY <2>1, <2>3 DEF CheckedInv, Pcs, Loaded, Graphed
  <2>5. KahnInv' /\ ConfigInv' /\ GraphInv' /\ SortedInv' /\ SinksInv' /\ SearchInv'
    BY <2>1, <2>3 DEF KahnInv, ConfigInv, GraphInv, SortedInv, SinksInv, SearchInv, Graphed
  <2>6. RefusedForCycle'
    BY <2>2 DEF RefusedForCycle
  <2>. QED BY <2>4, <2>5, <2>6 DEF StartInv
<1>4. CASE visited = Cardinality(DOMAIN indegree) /\ pc = "kahn_config"
  <2>1. pc' = "manifests" /\ error' = error
    BY <1>4 DEF Popped
  <2>. QED BY <1>1, <1>2, <2>1, GoesOn
<1>5. CASE visited = Cardinality(DOMAIN indegree) /\ pc = "kahn_graph"
  <2>1. pc' = "nodes" /\ error' = error
    BY <1>5 DEF Popped
  <2>2. /\ flow' = flow /\ command' = command /\ GivenOK' /\ Validated' /\ NodeIds' = NodeIds /\ Cyclic' = Cyclic
        /\ \A a, b : Leads(a, b)' = Leads(a, b)
    BY <1>1, <1>2, FlowStays
  <2>3. CheckedInv'
    BY <1>2, <2>1, <2>2 DEF CheckedInv, Pcs, Loaded, Graphed
  <2>4. KahnInv'
    BY <1>1, <1>2, <2>1 DEF KahnInv, RoutesOK
  <2>5. GraphInv'
    <3>1. \A i \in DOMAIN flow.steps : Partial(flow.steps[i])' = Partial(flow.steps[i])
      BY <1>1, <2>2 DEF Partial
    <3>2. /\ adjacency = wire_routes(flow) /\ DOMAIN indegree = NodeIds
          /\ \A i \in DOMAIN flow.steps : Partial(flow.steps[i])
          /\ validate_targets(adjacency, NodeIds)
      BY <1>5 DEF StartInv, GraphInv, Graphed
    <3>. QED BY <1>1, <2>2, <3>1, <3>2 DEF GraphInv, validate_targets
  <2>6. SortedInv'
    BY <1>5, <2>2, SortedRightly DEF SortedInv
  <2>7. ConfigInv' /\ SinksInv' /\ SearchInv'
    BY <1>1, <2>1 DEF ConfigInv, SinksInv, SearchInv, StartInv
  <2>8. RefusedForCycle'
    BY <1>2, <2>1 DEF RefusedForCycle
  <2>. QED BY <2>3, <2>4, <2>5, <2>6, <2>7, <2>8 DEF StartInv
<1>. QED BY <1>1, <1>3, <1>4, <1>5

\* The graph: its count starts.
LEMMA AssembleStep ==
  ASSUME StartInv, assemble PROVE StartInv'
<1>1. pc = "build" /\ input' = input /\ warned' = warned /\ registry' = registry
  BY DEF assemble, reachVars
<1>2. GivenOK /\ Validated /\ error # "cycle"
  BY <1>1 DEF StartInv, CheckedInv, Loaded
<1> DEFINE sound == (\A i \in DOMAIN flow.steps : Partial(flow.steps[i])) /\ validate_targets(wire_routes(flow), NodeIds)
<1>3. CASE ~sound
  <2>1. pc' = "failed" /\ error' # "cycle"
    BY <1>3 DEF assemble, Fail
  <2>. QED BY <1>1, <2>1, FailsSafely
<1>4. CASE sound
  <2>1. check_acyclic(wire_routes(flow), NodeIds) /\ pc' = "kahn_graph" /\ error' = error
    BY <1>4 DEF assemble
  <2>2. PICK routes : routes = wire_routes(flow)
    OBVIOUS
  <2>3. PICK ids : ids = NodeIds
    OBVIOUS
  <2>4. IsInjective(StepSeq)
    BY <1>2 DEF Validated, validate_steps
  <2>5. IsFiniteSet(ids) /\ ids \subseteq DOMAIN routes /\ IsFiniteSet(DOMAIN routes)
    BY <1>2, <2>2, <2>3, <2>4, WireSpec, FiniteIds
  <2>6. \A a \in DOMAIN routes : IsFiniteSet(DOMAIN routes[a])
    <3> SUFFICES ASSUME NEW a \in DOMAIN routes PROVE IsFiniteSet(DOMAIN routes[a])
      OBVIOUS
    <3>1. routes[a] \in Seq([to : STRING, when : BOOLEAN])
      BY <1>2, <2>2, <2>4, WireSpec
    <3>2. DOMAIN routes[a] = 1..Len(routes[a]) /\ 1 \in Int /\ Len(routes[a]) \in Int
      BY <3>1
    <3>. QED BY <3>2, FS_Interval
  <2>7. check_acyclic(routes, ids)
    BY <2>1, <2>2, <2>3
  <2>8. adjacency' = routes /\ DOMAIN indegree' = ids /\ RoutesOK' /\ Kahn({})'
    BY <2>5, <2>6, <2>7, KahnStarts
  <2>9. flow' = flow /\ command' = command /\ GivenOK' /\ Validated' /\ NodeIds' = NodeIds
    BY <1>1, <1>2, FlowStays
  <2>10. CheckedInv'
    BY <1>2, <2>1, <2>9 DEF CheckedInv, Pcs, Loaded, Graphed
  <2>11. KahnInv'
    <3>1. {} \in SUBSET DOMAIN indegree'
      OBVIOUS
    <3>2. (\E gone \in SUBSET DOMAIN indegree : Kahn(gone))'
      BY <2>8, <3>1
    <3>. QED BY <2>8, <3>2 DEF KahnInv
  <2>12. GraphInv'
    <3>1. \A i \in DOMAIN flow.steps : Partial(flow.steps[i])' = Partial(flow.steps[i])
      BY <1>1, <2>9 DEF Partial
    <3>. QED BY <1>4, <2>2, <2>3, <2>8, <2>9, <3>1 DEF GraphInv, validate_targets
  <2>13. ConfigInv' /\ SortedInv' /\ SinksInv'
    BY <2>1 DEF ConfigInv, SortedInv, SinksInv
  <2>14. SearchInv'
    BY <1>1, <2>1 DEF StartInv, SearchInv
  <2>15. RefusedForCycle'
    BY <1>2, <2>1 DEF RefusedForCycle
  <2>. QED BY <2>10, <2>11, <2>12, <2>13, <2>14, <2>15 DEF StartInv
<1>. QED BY <1>3, <1>4

Searching == {"nodes", "from_source", "to_sink"}

\* What was built stays while it is searched.
LEMMA GraphStays ==
  ASSUME StartInv, pc \in Searching, pc' \in {"from_source", "to_sink", "built"},
         UNCHANGED <<input, error, registry, adjacency, indegree>>
  PROVE  /\ CheckedInv' /\ KahnInv' /\ ConfigInv' /\ GraphInv' /\ SortedInv' /\ RefusedForCycle'
         /\ GivenOK /\ Validated /\ RoutesOK
         /\ adjacency = wire_routes(flow) /\ IsFiniteSet(NodeIds) /\ NodeIds \subseteq Ids(flow)
         /\ \A a, b \in Ids(flow) : Leads(a, b) => a \in NodeIds /\ b \in NodeIds
         /\ NodeIds' = NodeIds /\ Sinks' = Sinks /\ roots' = roots /\ Ids(flow)' = Ids(flow)
         /\ FromSources' = FromSources /\ ToSinks' = ToSinks
         /\ \A a, b : Leads(a, b)' = Leads(a, b)
<1>1. /\ GivenOK /\ Validated /\ RoutesOK /\ error # "cycle"
      /\ adjacency = wire_routes(flow) /\ DOMAIN indegree = NodeIds
      /\ \A i \in DOMAIN flow.steps : Partial(flow.steps[i])
      /\ validate_targets(adjacency, NodeIds)
      /\ ~Cyclic
      /\ \A a, b \in Ids(flow) : Leads(a, b) => a \in NodeIds /\ b \in NodeIds
  BY DEF StartInv, CheckedInv, KahnInv, GraphInv, SortedInv, Searching, Loaded, Graphed
<1>2. /\ flow' = flow /\ command' = command /\ GivenOK' /\ Validated' /\ Cyclic' = Cyclic
      /\ NodeIds' = NodeIds /\ Sinks' = Sinks /\ roots' = roots
      /\ \A a, b : Leads(a, b)' = Leads(a, b)
      /\ \A from : After(from)' = After(from)
  BY <1>1, FlowStays
<1>3. CheckedInv'
  BY <1>1, <1>2 DEF CheckedInv, Pcs, Loaded, Graphed
<1>4. KahnInv' /\ ConfigInv'
  BY <1>1 DEF KahnInv, ConfigInv, RoutesOK
<1>5. GraphInv'
  <2>1. \A i \in DOMAIN flow.steps : Partial(flow.steps[i])' = Partial(flow.steps[i])
    BY <1>2 DEF Partial
  <2>. QED BY <1>1, <1>2, <2>1 DEF GraphInv, validate_targets
<1>6. SortedInv'
  BY <1>1, <1>2 DEF SortedInv
<1>7. RefusedForCycle'
  BY <1>1 DEF RefusedForCycle
<1>8. IsFiniteSet(NodeIds) /\ NodeIds \subseteq Ids(flow)
  BY <1>1, FiniteIds
<1>9. FromSources' = FromSources
  <2>1. After(ToSet(roots))' = After(ToSet(roots))
    BY <1>2 DEF After
  <2>. QED BY <1>2, <2>1 DEF FromSources
<1>10. ToSinks' = ToSinks
  <2>1. \A id : After({id})' = After({id})
    BY <1>2 DEF After
  <2>. QED BY <1>2, <2>1 DEF ToSinks
<1>. QED BY <1>1, <1>2, <1>3, <1>4, <1>5, <1>6, <1>7, <1>8, <1>9, <1>10

\* The nodes; the search from the roots starts.
LEMMA NodesStep ==
  ASSUME StartInv, assemble_nodes PROVE StartInv'
<1>1. pc = "nodes" /\ UNCHANGED <<input, registry, adjacency, indegree, warned>>
  BY DEF assemble_nodes, kahnVars
<1>2. CASE \E id \in Sinks : adjacency[id] # <<>>
  <2>1. pc' = "failed" /\ error' # "cycle"
    BY <1>2 DEF assemble_nodes, Fail
  <2>. QED BY <1>1, <2>1, FailsSafely
<1>3. CASE ~(\E id \in Sinks : adjacency[id] # <<>>)
  <2>1. stack' = roots /\ seen' = {} /\ pc' = "from_source" /\ error' = error
    BY <1>3 DEF assemble_nodes
  <2>2. pc \in Searching
    BY <1>1 DEF Searching
  <2>3. /\ CheckedInv' /\ KahnInv' /\ ConfigInv' /\ GraphInv' /\ SortedInv' /\ RefusedForCycle'
        /\ GivenOK /\ Validated
        /\ NodeIds' = NodeIds /\ Sinks' = Sinks /\ roots' = roots /\ FromSources' = FromSources
    BY <1>1, <2>1, <2>2, GraphStays
  <2>4. SinksInv'
    BY <1>1, <1>3, <2>3 DEF SinksInv
  <2>5. SearchInv'
    <3>1. roots \in Seq(NodeIds)
      BY <2>3, RootsSpec
    <3>2. ToSet(roots) \subseteq FromSources
      BY DEF FromSources
    <3>. QED BY <1>1, <2>1, <2>3, <3>1, <3>2 DEF SearchInv, StartInv
  <2>. QED BY <2>3, <2>4, <2>5 DEF StartInv
<1>. QED BY <1>2, <1>3

\* What is next to a node on the way from the roots, and on the way back from the sinks.
LEMMA NeighboursSpec ==
  ASSUME GivenOK, Validated, RoutesOK, adjacency = wire_routes(flow), IsFiniteSet(NodeIds), NodeIds \subseteq Ids(flow),
         \A a, b \in Ids(flow) : Leads(a, b) => a \in NodeIds /\ b \in NodeIds,
         validate_targets(adjacency, NodeIds), NEW id \in NodeIds
  PROVE  /\ Neighbours(id) \in Seq(NodeIds)
         /\ pc = "from_source" =>
              \A b : (b \in ToSet(Neighbours(id)) => Leads(id, b)) /\ (Leads(id, b) => b \in ToSet(Neighbours(id)))
         /\ pc # "from_source" => \A a \in NodeIds : (a \in ToSet(Neighbours(id)) <=> Leads(a, id))
<1>1. /\ id \in Ids(flow) /\ id \in DOMAIN adjacency /\ DOMAIN adjacency = Ids(flow)
      /\ \A k \in DOMAIN adjacency[id] : Leads(id, adjacency[id][k].to)
      /\ \A b : Leads(id, b) => \E k \in DOMAIN adjacency[id] : adjacency[id][k].to = b
      /\ \A a \in Ids(flow) : (Times(a, id) > 0 => Leads(a, id)) /\ (Leads(a, id) => Times(a, id) > 0)
  BY TimesLeads
<1>2. CASE pc = "from_source"
  <2>1. Neighbours(id) = [k \in DOMAIN adjacency[id] |-> adjacency[id][k].to]
    BY <1>2 DEF Neighbours
  <2>2. DOMAIN adjacency[id] = 1..Len(adjacency[id]) /\ Len(adjacency[id]) \in Nat
    <3>1. IsInjective(StepSeq)
      BY DEF Validated, validate_steps
    <3>2. adjacency[id] \in Seq([to : STRING, when : BOOLEAN])
      BY <1>1, <3>1, WireSpec
    <3>. QED BY <3>2
  <2>3. \A k \in DOMAIN adjacency[id] : adjacency[id][k].to \in NodeIds
    BY <1>1 DEF validate_targets
  <2>4. Neighbours(id) \in Seq(NodeIds) /\ DOMAIN Neighbours(id) = DOMAIN adjacency[id]
    <3>1. Neighbours(id) \in [1..Len(adjacency[id]) -> NodeIds]
      BY <2>1, <2>2, <2>3
    <3>. QED BY <2>1, <2>2, <3>1
  <2>5. ToSet(Neighbours(id)) = {adjacency[id][k].to : k \in DOMAIN adjacency[id]}
    BY <2>1, <2>4 DEF ToSet
  <2>. QED BY <1>1, <1>2, <2>4, <2>5
<1>3. CASE pc # "from_source"
  <2> DEFINE froms == {from \in NodeIds : Times(from, id) > 0}
  <2>1. Neighbours(id) = SetToSeq(froms)
    BY <1>3 DEF Neighbours
  <2>2. froms \in SUBSET NodeIds /\ \A a \in NodeIds : a \in froms <=> Leads(a, id)
    BY <1>1
  <2> HIDE DEF froms
  <2>3. IsFiniteSet(froms)
    BY <2>2, FS_Subset
  <2>4. SetToSeq(froms) \in Seq(froms) /\ ToSet(SetToSeq(froms)) = froms
    BY <2>3, SomeListSpec
  <2>5. SetToSeq(froms) \in Seq(NodeIds)
    BY <2>2, <2>4
  <2>. QED BY <1>3, <2>1, <2>2, <2>4, <2>5
<1>. QED BY <1>2, <1>3

\* One node of a search.
LEMMA ReachStep ==
  ASSUME StartInv, Reach PROVE StartInv'
<1>1. /\ pc \in {"from_source", "to_sink"} /\ stack # <<>> /\ pc' = pc
      /\ UNCHANGED <<input, error, registry, adjacency, indegree, warned>>
  BY DEF Reach, kahnVars
<1>2. /\ CheckedInv' /\ KahnInv' /\ ConfigInv' /\ GraphInv' /\ SortedInv' /\ RefusedForCycle'
      /\ GivenOK /\ Validated /\ RoutesOK
      /\ adjacency = wire_routes(flow) /\ IsFiniteSet(NodeIds) /\ NodeIds \subseteq Ids(flow)
      /\ \A a, b \in Ids(flow) : Leads(a, b) => a \in NodeIds /\ b \in NodeIds
      /\ NodeIds' = NodeIds /\ Sinks' = Sinks /\ roots' = roots /\ Ids(flow)' = Ids(flow)
      /\ FromSources' = FromSources /\ ToSinks' = ToSinks
      /\ \A a, b : Leads(a, b)' = Leads(a, b)
  <2>1. pc \in Searching /\ pc' \in {"from_source", "to_sink", "built"}
    BY <1>1 DEF Searching
  <2>. QED BY <1>1, <2>1, GraphStays
<1>3. SinksInv'
  BY <1>1, <1>2 DEF SinksInv, StartInv
<1>4. PICK id : id = Last(stack)
  OBVIOUS
<1>5. stack \in Seq(NodeIds)
  BY <1>1 DEF StartInv, SearchInv
<1>6. id \in NodeIds /\ Front(stack) \in Seq(NodeIds) /\ ToSet(stack) = ToSet(Front(stack)) \cup {id}
  BY <1>1, <1>4, <1>5, LastSpec
<1>7. validate_targets(adjacency, NodeIds)
  BY <1>1 DEF StartInv, GraphInv, Graphed
<1>8. /\ Neighbours(id) \in Seq(NodeIds)
      /\ pc = "from_source" =>
           \A b : (b \in ToSet(Neighbours(id)) => Leads(id, b)) /\ (Leads(id, b) => b \in ToSet(Neighbours(id)))
      /\ pc # "from_source" => \A a \in NodeIds : (a \in ToSet(Neighbours(id)) <=> Leads(a, id))
  BY <1>2, <1>6, <1>7, NeighboursSpec
<1>9. \/ id \in seen /\ stack' = Front(stack) /\ seen' = seen
      \/ stack' = Front(stack) \o Neighbours(id) /\ seen' = seen \cup {id}
  BY <1>4 DEF Reach
<1>10. CASE id \in seen /\ stack' = Front(stack) /\ seen' = seen
  <2>1. stack' \in Seq(NodeIds) /\ seen' \cup ToSet(stack') = seen \cup ToSet(stack)
    BY <1>6, <1>10
  <2>2. SearchInv'
    BY <1>1, <1>2, <1>10, <2>1 DEF SearchInv, StartInv
  <2>. QED BY <1>2, <1>3, <2>2 DEF StartInv
<1>11. CASE stack' = Front(stack) \o Neighbours(id) /\ seen' = seen \cup {id}
  <2>1. stack' \in Seq(NodeIds) /\ ToSet(stack') = ToSet(Front(stack)) \cup ToSet(Neighbours(id))
    BY <1>6, <1>8, <1>11, JoinSpec
  <2>2. seen' \cup ToSet(stack') = seen \cup ToSet(stack) \cup ToSet(Neighbours(id))
    BY <1>6, <1>11, <2>1
  <2>3. ToSet(Neighbours(id)) \subseteq NodeIds
    BY <1>8 DEF ToSet
  <2>4. CASE pc = "from_source"
    <3>1. ToSet(Neighbours(id)) \subseteq FromSources
      <4> SUFFICES ASSUME NEW b \in ToSet(Neighbours(id)) PROVE b \in FromSources
        OBVIOUS
      <4>1. Leads(id, b) /\ b \in Ids(flow) /\ id \in FromSources
        BY <1>2, <1>6, <1>8, <2>3, <2>4 DEF SearchInv, StartInv
      <4>2. id \in ToSet(roots) \cup After(ToSet(roots))
        BY <4>1 DEF FromSources
      <4>3. b \in After(ToSet(roots))
        BY <4>1, <4>2, AfterSpec
      <4>. QED BY <4>3 DEF FromSources
    <3>2. /\ ToSet(roots) \subseteq seen \cup ToSet(stack) /\ seen \cup ToSet(stack) \subseteq FromSources
          /\ \A a \in seen, b \in Ids(flow) : Leads(a, b) => b \in seen \cup ToSet(stack)
          /\ DOMAIN warned = {"from_source", "to_sink"}
      BY <2>4 DEF SearchInv, StartInv
    <3>3. \A a \in seen', b \in Ids(flow) : Leads(a, b) => b \in seen' \cup ToSet(stack')
      BY <1>8, <1>11, <2>2, <2>4, <3>2
    <3>4. ToSet(roots) \subseteq seen' \cup ToSet(stack') /\ seen' \cup ToSet(stack') \subseteq FromSources
      BY <2>2, <3>1, <3>2
    <3>5. SearchInv'
      BY <1>1, <1>2, <2>1, <2>4, <3>2, <3>3, <3>4 DEF SearchInv
    <3>. QED BY <1>2, <1>3, <3>5 DEF StartInv
  <2>5. CASE pc = "to_sink"
    <3>1. ToSet(Neighbours(id)) \subseteq ToSinks
      <4> SUFFICES ASSUME NEW a \in ToSet(Neighbours(id)) PROVE a \in ToSinks
        OBVIOUS
      <4>1. a \in NodeIds /\ Leads(a, id) /\ id \in Ids(flow) /\ id \in ToSinks
        BY <1>2, <1>6, <1>8, <2>3, <2>5 DEF SearchInv, StartInv
      <4>2. id \in After({a}) /\ After({id}) \subseteq After({a})
        BY <4>1, AfterNext
      <4>. QED BY <4>1, <4>2 DEF ToSinks
    <3>2. /\ Sinks \subseteq seen \cup ToSet(stack) /\ seen \cup ToSet(stack) \subseteq ToSinks
          /\ \A b \in seen, a \in NodeIds : Leads(a, b) => a \in seen \cup ToSet(stack)
          /\ DOMAIN warned = {"from_source", "to_sink"} /\ warned.from_source = NodeIds \ FromSources
      BY <2>5 DEF SearchInv, StartInv
    <3>3. \A b \in seen', a \in NodeIds : Leads(a, b) => a \in seen' \cup ToSet(stack')
      BY <1>8, <1>11, <2>2, <2>5, <3>2
    <3>4. Sinks \subseteq seen' \cup ToSet(stack') /\ seen' \cup ToSet(stack') \subseteq ToSinks
      BY <2>2, <3>1, <3>2
    <3>5. SearchInv'
      BY <1>1, <1>2, <2>1, <2>5, <3>2, <3>3, <3>4 DEF SearchInv
    <3>. QED BY <1>2, <1>3, <3>5 DEF StartInv
  <2>. QED BY <1>1, <2>4, <2>5
<1>. QED BY <1>9, <1>10, <1>11

\* The end of a search.
LEMMA ReachedStep ==
  ASSUME StartInv, Reached PROVE StartInv'
<1>1. /\ pc \in {"from_source", "to_sink"} /\ stack = <<>>
      /\ UNCHANGED <<input, error, registry, adjacency, indegree>>
  BY DEF Reached, kahnVars
<1>2. /\ CheckedInv' /\ KahnInv' /\ ConfigInv' /\ GraphInv' /\ SortedInv' /\ RefusedForCycle'
      /\ GivenOK /\ Validated
      /\ IsFiniteSet(NodeIds) /\ NodeIds \subseteq Ids(flow)
      /\ \A a, b \in Ids(flow) : Leads(a, b) => a \in NodeIds /\ b \in NodeIds
      /\ NodeIds' = NodeIds /\ Sinks' = Sinks /\ roots' = roots /\ Ids(flow)' = Ids(flow)
      /\ FromSources' = FromSources /\ ToSinks' = ToSinks
      /\ \A a, b : Leads(a, b)' = Leads(a, b)
  <2>1. pc \in Searching /\ pc' \in {"from_source", "to_sink", "built"}
    BY <1>1 DEF Searching, Reached
  <2>. QED BY <1>1, <2>1, GraphStays
<1>3. SinksInv'
  BY <1>1, <1>2 DEF SinksInv, StartInv
<1>4. ToSet(stack) = {} /\ DOMAIN warned = {"from_source", "to_sink"}
  BY <1>1 DEF ToSet, StartInv, SearchInv
<1>5. CASE pc = "from_source"
  <2>1. /\ pc' = "to_sink" /\ seen' = {} /\ warned' = [warned EXCEPT !.from_source = NodeIds \ seen]
        /\ stack' = SetToSeq(Sinks)
    BY <1>5 DEF Reached
  <2>2. seen = FromSources
    <3>1. /\ ToSet(roots) \subseteq seen /\ seen \subseteq FromSources
          /\ \A a \in seen, b \in Ids(flow) : Leads(a, b) => b \in seen
      BY <1>4, <1>5 DEF SearchInv, StartInv
    <3>2. ToSet(roots) \subseteq NodeIds
      BY <1>2, RootsSpec
    <3>3. seen \in SUBSET Ids(flow)
      BY <1>2, <3>1, <3>2, AfterSpec DEF FromSources
    <3>4. \A a \in ToSet(roots) \cup seen, b \in Ids(flow) : Leads(a, b) => b \in seen
      BY <3>1
    <3>5. After(ToSet(roots)) \subseteq seen
      BY <3>3, <3>4, AfterSpec
    <3>. QED BY <3>1, <3>5 DEF FromSources
  <2>3. stack' \in Seq(NodeIds) /\ ToSet(stack') = Sinks
    <3>1. Sinks \in SUBSET NodeIds
      BY DEF Sinks
    <3>2. IsFiniteSet(Sinks)
      BY <1>2, <3>1, FS_Subset
    <3>3. SetToSeq(Sinks) \in Seq(Sinks) /\ ToSet(SetToSeq(Sinks)) = Sinks
      BY <3>2, SomeListSpec
    <3>. QED BY <2>1, <3>1, <3>3
  <2>4. Sinks \subseteq ToSinks
    BY DEF ToSinks
  <2>5. DOMAIN warned' = {"from_source", "to_sink"} /\ warned'.from_source = NodeIds \ FromSources
    BY <1>4, <2>1, <2>2
  <2>6. SearchInv'
    BY <1>2, <2>1, <2>3, <2>4, <2>5 DEF SearchInv
  <2>. QED BY <1>2, <1>3, <2>6 DEF StartInv
<1>6. CASE pc = "to_sink"
  <2>1. pc' = "built" /\ warned' = [warned EXCEPT !.to_sink = NodeIds \ (seen \cup Sinks)]
    BY <1>6 DEF Reached
  <2>2. /\ Sinks \subseteq seen /\ seen \subseteq ToSinks
        /\ \A b \in seen, a \in NodeIds : Leads(a, b) => a \in seen
        /\ warned.from_source = NodeIds \ FromSources
    BY <1>4, <1>6 DEF SearchInv, StartInv
  <2>3. ASSUME NEW id \in ToSinks, id \notin seen PROVE FALSE
    <3>1. id \in NodeIds /\ After({id}) \cap Sinks # {}
      BY <2>2, <2>3 DEF ToSinks
    <3> DEFINE C == NodeIds \ seen
    <3>2. C \in SUBSET Ids(flow)
      BY <1>2
    <3>3. \A a \in {id} \cup C, b \in Ids(flow) : Leads(a, b) => b \in C
      BY <1>2, <2>2, <2>3, <3>1
    <3>4. After({id}) \subseteq C
      <4> HIDE DEF C
      <4>. QED BY <3>2, <3>3, AfterSpec
    <3>. QED BY <2>2, <3>1, <3>4
  <2>4. seen \cup Sinks = ToSinks
    BY <2>2, <2>3
  <2>5. /\ DOMAIN warned' = {"from_source", "to_sink"} /\ warned'.from_source = NodeIds \ FromSources
        /\ warned'.to_sink = NodeIds \ ToSinks
    BY <1>4, <2>1, <2>2, <2>4
  <2>6. SearchInv'
    BY <1>2, <2>1, <2>5 DEF SearchInv
  <2>. QED BY <1>2, <1>3, <2>6 DEF StartInv
<1>. QED BY <1>1, <1>5, <1>6

\* Every step keeps the invariant.
LEMMA StartSteps ==
  ASSUME StartInv, [StartupNext]_startupVars PROVE StartInv'
<1>1. CASE UNCHANGED startupVars
  <2>1. /\ input' = input /\ pc' = pc /\ error' = error /\ registry' = registry /\ adjacency' = adjacency
        /\ indegree' = indegree /\ ready' = ready /\ visited' = visited /\ stack' = stack /\ seen' = seen /\ warned' = warned
    BY <1>1 DEF startupVars, kahnVars, reachVars
  <2>2. /\ flow' = flow /\ command' = command /\ GivenOK' = GivenOK /\ Validated' = Validated /\ Cyclic' = Cyclic
        /\ NodeIds' = NodeIds /\ Sinks' = Sinks /\ roots' = roots
        /\ \A a, b : Leads(a, b)' = Leads(a, b)
        /\ \A from : After(from)' = After(from)
    BY <2>1, FlowStays
  <2>3. CheckedInv'
    BY <2>1, <2>2 DEF CheckedInv, StartInv
  <2>4. KahnInv' /\ ConfigInv'
    <3>1. \A a, b : Times(a, b)' = Times(a, b)
      BY <2>1 DEF Times
    <3>2. RoutesOK' = RoutesOK /\ \A gone : Kahn(gone)' = Kahn(gone)
      BY <2>1, <3>1 DEF RoutesOK, Kahn, Waits, NoLoop
    <3>. QED BY <2>1, <2>2, <3>1, <3>2 DEF KahnInv, ConfigInv, StartInv
  <2>5. GraphInv' /\ SortedInv' /\ SinksInv'
    <3>1. \A i \in DOMAIN flow.steps : Partial(flow.steps[i])' = Partial(flow.steps[i])
      BY <2>1, <2>2 DEF Partial
    <3>. QED BY <2>1, <2>2, <3>1 DEF GraphInv, SortedInv, SinksInv, validate_targets, StartInv
  <2>6. SearchInv'
    <3>1. FromSources' = FromSources
      <4>1. After(ToSet(roots))' = After(ToSet(roots))
        BY <2>2 DEF After
      <4>. QED BY <2>2, <4>1 DEF FromSources
    <3>2. ToSinks' = ToSinks
      <4>1. \A id : After({id})' = After({id})
        BY <2>2 DEF After
      <4>. QED BY <2>2, <4>1 DEF ToSinks
    <3>. QED BY <2>1, <2>2, <3>1, <3>2 DEF SearchInv, StartInv
  <2>7. RefusedForCycle'
    <3>1. Touched(ToSet(flow.triggers))' = Touched(ToSet(flow.triggers))
      BY <2>2 DEF Touched
    <3>. QED BY <2>1, <2>2, <3>1 DEF RefusedForCycle, StartInv
  <2>. QED BY <2>3, <2>4, <2>5, <2>6, <2>7 DEF StartInv
<1>. QED
  BY <1>1, TemplatesStep, ValidateStep, PopStep, PoppedStep, ExtensionsStep, AssembleStep, NodesStep, ReachStep, ReachedStep
  DEF StartupNext

\* The invariant holds throughout a start.
THEOREM StartInvariance == StartupSpec => []StartInv
<1>1. StartupInit => StartInv
  BY StartStarts
<1>2. StartInv /\ [StartupNext]_startupVars => StartInv'
  BY StartSteps
<1>. QED BY <1>1, <1>2, PTL DEF StartupSpec

\* graph.rs, routes.rs: a graph that is built has no cycle, its routes end at nodes of it,
\* no sink has one, there is a root unless only run leaves a trigger out, and every step is
\* known, configured and has its policy.
THEOREM BuiltAsWalked == StartupSpec => []BuiltSoundly
<1>1. StartInv => BuiltSoundly
  <2> SUFFICES ASSUME StartInv, pc = "built" PROVE BuiltSoundly
    BY DEF BuiltSoundly
  <2>1. /\ GivenOK /\ Validated /\ RoutesOK
        /\ adjacency = wire_routes(flow) /\ \A i \in DOMAIN flow.steps : Partial(flow.steps[i])
        /\ ~Cyclic /\ \A a, b \in Ids(flow) : Leads(a, b) => a \in NodeIds /\ b \in NodeIds
        /\ \A id \in Sinks : adjacency[id] = <<>>
    BY DEF StartInv, CheckedInv, KahnInv, GraphInv, SortedInv, SinksInv, Loaded, Graphed
  <2>2. \A a \in NodeIds, b \in Ids(flow) : Leads(a, b) => b \in NodeIds /\ a \notin Sinks
    <3> SUFFICES ASSUME NEW a \in NodeIds, NEW b \in Ids(flow), Leads(a, b) PROVE b \in NodeIds /\ a \notin Sinks
      OBVIOUS
    <3>1. a \in Ids(flow)
      BY <2>1, FiniteIds
    <3>2. \E k \in DOMAIN adjacency[a] : TRUE
      BY <2>1, <3>1, TimesLeads
    <3>3. adjacency[a] # <<>>
      BY <3>2
    <3>. QED BY <2>1, <3>1, <3>3
  <2>3. roots # <<>> \/ (command # "serve" /\ flow.triggers # <<>>)
    BY <2>1, RootsSpec
  <2>. QED BY <2>1, <2>2, <2>3 DEF BuiltSoundly
<1>. QED BY <1>1, StartInvariance, PTL

\* routes.rs, validate.rs: no flow without a cycle is refused for one, except where run or
\* approve meet a route of a trigger they leave out.
THEOREM CycleOrTrigger == StartupSpec => []RefusedForCycle
<1>1. StartInv => RefusedForCycle
  BY DEF StartInv
<1>. QED BY <1>1, StartInvariance, PTL

\* warn_unreachable: the two searches find exactly the steps no root reaches and those
\* that reach no sink.
THEOREM WarningsExact == StartupSpec => []WarnsExactly
<1>1. StartInv => WarnsExactly
  BY DEF StartInv, SearchInv, WarnsExactly, FromSources, ToSinks
<1>. QED BY <1>1, StartInvariance, PTL

\* stdio_extensions.rs: manifests only add to the registry, and only trusted ones that are
\* built in add reserved names.
THEOREM ManifestsOnlyAdd == StartupSpec => RegistrationsStay
<1>1. ASSUME [StartupNext]_startupVars
      PROVE  \A r \in DOMAIN registry' :
               IF r \in DOMAIN registry THEN registry'[r] = registry[r]
               ELSE r[2] \in Reserved => Head(pending).trusted /\ Head(pending).manifest.builtin
  <2>1. CASE registry' = registry
    BY <2>1
  <2>2. CASE LoadManifest /\ registry' # registry
    <3> DEFINE m == Head(pending).manifest
    <3>1. validate_manifest(m, Head(pending).trusted) /\ registry' = Registered(m)
      BY <2>2 DEF LoadManifest
    <3> HIDE DEF m
    <3> DEFINE regs == {m.regs[i] : i \in {i \in DOMAIN m.regs : \A k \in 1..i : m.regs[k][1] # "control"}}
    <3>2. registry' = [r \in DOMAIN registry \cup regs |-> IF r \in regs THEN m.name ELSE registry[r]]
      BY <3>1 DEF Registered
    <3>3. \A r \in regs : \E i \in DOMAIN m.regs : m.regs[i] = r
      OBVIOUS
    <3> HIDE DEF regs
    <3> SUFFICES ASSUME NEW r \in DOMAIN registry'
                 PROVE  IF r \in DOMAIN registry THEN registry'[r] = registry[r]
                        ELSE r[2] \in Reserved => Head(pending).trusted /\ m.builtin
      BY DEF m
    <3>4. CASE r \in DOMAIN registry
      BY <3>1, <3>2, <3>3, <3>4 DEF validate_manifest
    <3>5. CASE r \notin DOMAIN registry
      BY <3>1, <3>2, <3>3, <3>5 DEF validate_manifest, ReservedFor
    <3>. QED BY <3>4, <3>5
  <2>3. registry' = registry \/ LoadManifest
    BY <1>1 DEF StartupNext, startupVars, apply_templates, validate, Pop, Popped, Providers, assemble, assemble_nodes, Reach, Reached
  <2>. QED BY <2>1, <2>2, <2>3
<1>. QED BY <1>1, PTL DEF StartupSpec, RegistrationsStay

-----------------------------------------------------------------------------
(* A run of a flow: its graph, its threads and what they carry. *)

\* A run is of one of the flows that were given.
GivenInv == \E f \in Flows : config = [roots |-> f.roots, store |-> f.store, every |-> f.every] /\ graph = Nodes(f)

Records == [from : SUBSET ((DOMAIN graph) \X Nat), corr : 0..MaxUuids]
Walks == [op : {"walk"}, rec : Records, at : DOMAIN graph]
Updates == [op : {"write", "save"}, rec : Records, at : OfKind("state"), seen : Nat]
Checkpoints == [op : {"checkpoint"}, seen : [OfKind("state") -> Nat]]
Marks == [op : {"await", "error"}]
Frames == Walks \cup Updates \cup Checkpoints \cup Marks

\* Buffers, states and counters are what they are made for.
BuffersInv ==
  /\ groups \in [OfKind("join") -> [1..MaxUuids -> Seq(Records)]]
  /\ batches \in [OfKind("batch") -> [records : Seq(Records), since : BOOLEAN]]
  /\ arrived \in [OfKind("join") \cup OfKind("batch") -> Nat]
  /\ emitted \in [OfKind("join") \cup OfKind("batch") -> Nat]
  /\ states \in [OfKind("state") -> Nat] /\ updates \in [OfKind("state") -> Nat]
  /\ DOMAIN stored = OfKind("state") /\ raced \in BOOLEAN
  /\ DOMAIN pulled = ToSet(config.roots) /\ \A s \in DOMAIN pulled : pulled[s] \in Nat
  /\ unflushed \in SUBSET OfKind("batch") /\ uuids \in 0..MaxUuids
  /\ phase \in {"running", "flushing", "finished", "failed"}

\* What threads are named with: a root or the flush, then the places of branches.
Tags == DOMAIN graph \cup {"flush"} \cup Nat

\* The first places of a thread's name: the task, or the branch, that it is a branch of.
Above(t, n) == [i \in 1..n |-> t[i]]

\* A stack has its walks under its top frame, and the threads a branch hangs from await it.
ThreadsInv ==
  /\ IsFiniteSet(DOMAIN threads)
  /\ \A t \in DOMAIN threads : t \in Seq(Tags) /\ t # <<>>
  /\ \A t \in DOMAIN threads : threads[t] \in Seq(Frames) /\ \A k \in DOMAIN threads[t] : k # 1 => threads[t][k] \in Walks
  /\ \A t \in DOMAIN threads : \A n \in 1..Len(t) - 1 : Above(t, n) \in DOMAIN threads /\ At(Above(t, n), "await")

\* The tasks: one per root, or the flush.
TasksInv ==
  /\ phase = "running" =>
       /\ \A i \in DOMAIN config.roots : <<config.roots[i]>> \in DOMAIN threads
       /\ \A t \in DOMAIN threads : Len(t) = 1 => \E i \in DOMAIN config.roots : t = <<config.roots[i]>>
  /\ phase \in {"flushing", "finished"} =>
       /\ <<"flush">> \in DOMAIN threads
       /\ \A t \in DOMAIN threads : Len(t) = 1 => t = <<"flush">>
  /\ phase = "finished" => \A t \in DOMAIN threads : threads[t] = <<>>

\* Threads that have read a state and not written it yet have read what it still is.
RaceInv ==
  ~raced =>
    /\ states = updates
    /\ \A t \in DOMAIN threads : At(t, "write") => top(t).seen = states[top(t).at]
    /\ \A t, u \in DOMAIN threads : At(t, "write") /\ At(u, "write") /\ top(t).at = top(u).at => t = u

SavedInv == phase = "finished" /\ config.store => \A id \in DOMAIN states \ unsaved : stored[id] = states[id]

\* Nothing pulled is lost before a step has failed.
AccountInv == phase # "failed" /\ ~Failed => Pulled = ended \cup InFlight \cup InGroups \cup InBatches

\* What flushed batches let go stays among the steps behind batches, and a batch that
\* has been flushed has records again only if it is one of them.
FlushInv ==
  /\ phase = "flushing" =>
       \A t \in DOMAIN threads : \A k \in DOMAIN threads[t] : threads[t][k].op \in {"walk", "write", "save"} => threads[t][k].at \in BehindBatches
  /\ phase \in {"flushing", "finished"} =>
       \A id \in DOMAIN batches \ unflushed : batches[id].records # <<>> => id \in BehindBatches
  /\ phase = "finished" => unflushed = {}

HeldInv ==
  /\ \A id \in DOMAIN groups : arrived[id] = emitted[id] + Cardinality(Held(id))
  /\ \A id \in DOMAIN batches : arrived[id] = emitted[id] + Len(batches[id].records)

\* The steps from the branches of p on, to the join that gets what they pass on.
Between(p, id) == ToSet(graph[p].targets) \cup {id}

\* A frame of a record at one of some steps.
Of(frame, ids, corrs) ==
  /\ frame.op \in {"walk", "write", "save"}
  /\ frame.at \in ids /\ frame.rec.corr \in corrs

\* The next frame of a stack, or one of those under it, is of such a record.
Ahead(pile, ids, corrs) == pile # <<>> /\ Of(pile[1], ids, corrs)
Beneath(pile, ids, corrs) == \E k \in DOMAIN pile : k # 1 /\ Of(pile[k], ids, corrs)

\* The threads that are at a record of one correlation between the two.
Coming(p, id, c) == {t \in DOMAIN threads : Ahead(threads[t], Between(p, id), {c})}

\* No record is between the two without a correlation.
Correlates(p, id) ==
  \A t \in DOMAIN threads : ~Ahead(threads[t], Between(p, id), {0}) /\ ~Beneath(threads[t], Between(p, id), {0})

\* The branches and the join have the records of a correlation a whole number of times.
Whole(p, id, c) ==
  /\ \A t \in DOMAIN threads : ~Beneath(threads[t], Between(p, id), {c})
  /\ Len(groups[id][c]) < Len(graph[p].targets)
  /\ \E m \in Nat : Cardinality(Coming(p, id, c)) + Len(groups[id][c]) = m * Len(graph[p].targets)

\* Some branch did not pass a record of the correlation on as one.
Astray(p, c) == \E b \in ToSet(graph[p].targets) : <<b, c>> \in strayed

Balanced(p, id) == Correlates(p, id) /\ \A c \in 1..MaxUuids : Astray(p, c) \/ Whole(p, id, c)

\* So it is for every join that balances a parallel, before a step has failed.
JoinInv ==
  phase # "failed" /\ ~Failed =>
    \A p \in OfKind("parallel"), id \in OfKind("join") : Balances(p, id) => Balanced(p, id)

ControlInv ==
  /\ GivenInv /\ BuffersInv /\ ThreadsInv /\ TasksInv /\ RaceInv /\ SavedInv /\ AccountInv /\ FlushInv /\ HeldInv /\ JoinInv

-----------------------------------------------------------------------------
(* What is given of the flow. *)

\* Every node of a graph: its routes are those of its step, and its counts are numbers.
LEMMA NodesSpec ==
  ASSUME NEW f \in Flows
  PROVE  /\ FlowShape(f) /\ FlowGiven(f) /\ DOMAIN Nodes(f) = StepIds(f) /\ StepIds(f) \in SUBSET Ids(f)
         /\ \A id \in StepIds(f) :
              /\ Nodes(f)[id].routes = wire_routes(f)[id] /\ Nodes(f)[id].targets = Targets(f, id)
              /\ Nodes(f)[id].kind = Step(f, id).kind
              /\ Nodes(f)[id].incoming = Cardinality(RoutesTo(wire_routes(f), id))
              /\ Nodes(f)[id].max_iterations \in Nat /\ Nodes(f)[id].n \in Nat /\ Nodes(f)[id].size \in Nat
              /\ Nodes(f)[id].when \in BOOLEAN /\ Nodes(f)[id].within \in BOOLEAN
              /\ Nodes(f)[id].kind = "parallel" => Nodes(f)[id].targets # <<>>
<1>1. FlowGiven(f)
  BY ControlAssumption
<1>2. FlowShape(f)
  BY <1>1 DEF FlowGiven, FlowShape
<1>3. DOMAIN Nodes(f) = StepIds(f) /\ StepIds(f) \in SUBSET Ids(f) /\ DOMAIN wire_routes(f) = Ids(f)
  BY DEF Nodes, Ids, wire_routes
<1>4. ASSUME NEW id \in StepIds(f)
      PROVE  /\ Nodes(f)[id].routes = wire_routes(f)[id] /\ Nodes(f)[id].targets = Targets(f, id)
             /\ Nodes(f)[id].kind = Step(f, id).kind
             /\ Nodes(f)[id].incoming = Cardinality(RoutesTo(wire_routes(f), id))
             /\ Nodes(f)[id].max_iterations \in Nat /\ Nodes(f)[id].n \in Nat /\ Nodes(f)[id].size \in Nat
             /\ Nodes(f)[id].when \in BOOLEAN /\ Nodes(f)[id].within \in BOOLEAN
             /\ Nodes(f)[id].kind = "parallel" => Nodes(f)[id].targets # <<>>
  <2>1. PICK i \in DOMAIN f.steps : f.steps[i].id = id
    BY DEF StepIds
  <2>2. Step(f, id) \in StepConfigs
    BY <1>1, <2>1, StepSpec DEF FlowGiven
  <2>3. count_incoming(wire_routes(f))[id] = Cardinality(RoutesTo(wire_routes(f), id))
    BY <1>3 DEF count_incoming
  <2>4. Targets(f, id) = Step(f, id).targets
    BY DEF Targets
  <2>5. /\ Nodes(f)[id].routes = wire_routes(f)[id] /\ Nodes(f)[id].targets = Step(f, id).targets
        /\ Nodes(f)[id].kind = Step(f, id).kind
        /\ Nodes(f)[id].incoming = count_incoming(wire_routes(f))[id]
        /\ Nodes(f)[id].max_iterations = Step(f, id).max_iterations /\ Nodes(f)[id].n = Step(f, id).n
        /\ Nodes(f)[id].size = Step(f, id).size
        /\ Nodes(f)[id].when = Step(f, id).when /\ Nodes(f)[id].within = Step(f, id).within
    BY DEF Nodes
  <2>6. Step(f, id).kind = "parallel" => Step(f, id).targets # <<>>
    BY <1>1 DEF FlowGiven
  <2>. QED BY <2>2, <2>3, <2>4, <2>5, <2>6 DEF StepConfigs
<1>. QED BY <1>1, <1>2, <1>3, <1>4

\* The routes that lead to a step of the run, one by one.
RoutesInto(id) ==
  {e \in (DOMAIN graph) \X Nat : e[2] \in DOMAIN graph[e[1]].routes /\ graph[e[1]].routes[e[2]].to = id}

\* A run's roots are sources of its graph, and the routes of a step lead to steps, among
\* them those it chooses itself.
LEMMA ControlGiven ==
  ASSUME GivenInv
  PROVE  /\ config.roots \in Seq(DOMAIN graph) /\ config.store \in BOOLEAN /\ config.every \in Nat
         /\ \A i \in DOMAIN config.roots : graph[config.roots[i]].kind = "source"
         /\ \A id \in DOMAIN graph :
              /\ graph[id].routes \in Seq([to : DOMAIN graph, when : BOOLEAN])
              /\ graph[id].targets \in Seq(Onward(id))
              /\ Onward(id) \in SUBSET DOMAIN graph
              /\ graph[id].max_iterations \in Nat /\ graph[id].n \in Nat /\ graph[id].size \in Nat
              /\ graph[id].when \in BOOLEAN /\ graph[id].within \in BOOLEAN
              /\ graph[id].incoming \in Nat
              /\ IsFiniteSet(RoutesInto(id)) /\ Cardinality(RoutesInto(id)) <= graph[id].incoming
              /\ graph[id].kind = "parallel" => graph[id].targets # <<>>
              /\ \E n \in Nat : \A i \in DOMAIN graph[id].targets :
                   n + i \in DOMAIN graph[id].routes /\ graph[id].routes[n + i].to = graph[id].targets[i]
<1>1. PICK f \in Flows : config = [roots |-> f.roots, store |-> f.store, every |-> f.every] /\ graph = Nodes(f)
  BY DEF GivenInv
<1>2. /\ FlowShape(f) /\ FlowGiven(f) /\ DOMAIN graph = StepIds(f) /\ StepIds(f) \in SUBSET Ids(f)
      /\ \A id \in DOMAIN graph :
           /\ graph[id].routes = wire_routes(f)[id] /\ graph[id].targets = Targets(f, id)
           /\ graph[id].kind = Step(f, id).kind
           /\ graph[id].incoming = Cardinality(RoutesTo(wire_routes(f), id))
           /\ graph[id].max_iterations \in Nat /\ graph[id].n \in Nat /\ graph[id].size \in Nat
           /\ graph[id].when \in BOOLEAN /\ graph[id].within \in BOOLEAN
           /\ graph[id].kind = "parallel" => graph[id].targets # <<>>
  BY <1>1, NodesSpec
<1>3. config.roots \in Seq(DOMAIN graph) /\ config.store \in BOOLEAN /\ config.every \in Nat
  BY <1>1, <1>2 DEF FlowGiven
<1>4. \A i \in DOMAIN config.roots : graph[config.roots[i]].kind = "source"
  <2>1. config.roots = f.roots
    BY <1>1
  <2>. QED BY <1>2, <1>3, <2>1 DEF FlowGiven
<1>5. \A i, j \in DOMAIN f.steps : f.steps[i].id = f.steps[j].id => i = j
  BY <1>2 DEF FlowGiven
<1>6. \A id \in DOMAIN graph : \A k \in DOMAIN graph[id].routes : graph[id].routes[k].to \in DOMAIN graph
  BY <1>2 DEF FlowGiven
<1>7. ASSUME NEW id \in DOMAIN graph
      PROVE  /\ graph[id].routes \in Seq([to : DOMAIN graph, when : BOOLEAN])
             /\ graph[id].targets \in Seq(Onward(id))
             /\ Onward(id) \in SUBSET DOMAIN graph
  <2> DEFINE routes == graph[id].routes
             targets == graph[id].targets
  <2>1. /\ routes \in Seq([to : STRING, when : BOOLEAN]) /\ targets \in Seq(STRING)
        /\ \A i \in DOMAIN targets : \E k \in DOMAIN routes : routes[k].to = targets[i]
    <3>1. /\ wire_routes(f)[id] \in Seq([to : STRING, when : BOOLEAN]) /\ Targets(f, id) \in Seq(STRING)
          /\ \A i \in DOMAIN Targets(f, id) : \E k \in DOMAIN wire_routes(f)[id] : wire_routes(f)[id][k].to = Targets(f, id)[i]
      BY <1>2, <1>5, RoutesShape
    <3>. QED BY <1>2, <3>1
  <2>2. \A k \in DOMAIN routes : routes[k].to \in DOMAIN graph
    BY <1>6
  <2>3. \A i \in DOMAIN targets : targets[i] \in Onward(id)
    BY <2>1 DEF Onward
  <2>4. Onward(id) \in SUBSET DOMAIN graph
    BY <1>6 DEF Onward
  <2> HIDE DEF routes, targets
  <2>5. routes \in Seq([to : DOMAIN graph, when : BOOLEAN])
    <3> DEFINE R == [to : STRING, when : BOOLEAN]
               S == [to : DOMAIN graph, when : BOOLEAN]
    <3>1. routes \in Seq(R)
      BY <2>1
    <3>2. \A r \in R : r.to \in DOMAIN graph => r \in S
      OBVIOUS
    <3> HIDE DEF R, S
    <3>3. /\ Len(routes) \in Nat /\ DOMAIN routes = 1..Len(routes)
          /\ routes = [k \in 1..Len(routes) |-> routes[k]]
          /\ \A k \in 1..Len(routes) : routes[k] \in R
      BY <3>1
    <3>4. \A k \in 1..Len(routes) : routes[k] \in S
      BY <2>2, <3>2, <3>3
    <3>5. routes \in [1..Len(routes) -> S]
      BY <3>3, <3>4
    <3>6. routes \in Seq(S)
      BY <3>3, <3>5
    <3>. QED BY <3>6 DEF S
  <2>6. targets \in Seq(Onward(id))
    <3>1. targets \in [1..Len(targets) -> STRING] /\ Len(targets) \in Nat
      BY <2>1
    <3>2. targets \in [1..Len(targets) -> Onward(id)]
      BY <2>3, <3>1
    <3>. QED BY <3>1, <3>2
  <2>. QED BY <2>4, <2>5, <2>6 DEF routes, targets
<1>8. ASSUME NEW id \in DOMAIN graph
       PROVE  \E n \in Nat : \A i \in DOMAIN graph[id].targets :
                n + i \in DOMAIN graph[id].routes /\ graph[id].routes[n + i].to = graph[id].targets[i]
  <2>1. \E n \in Nat : \A i \in DOMAIN Targets(f, id) :
          n + i \in DOMAIN wire_routes(f)[id] /\ wire_routes(f)[id][n + i].to = Targets(f, id)[i]
    BY <1>2, <1>5, RoutesShape
  <2>. QED BY <1>2, <2>1
<1>9. IsFiniteSet(Ids(f)) /\ DOMAIN wire_routes(f) = Ids(f)
  <2>1. DOMAIN wire_routes(f) = Ids(f)
    BY DEF wire_routes
  <2> DEFINE ids == [i \in 1..Len(f.steps) |-> f.steps[i].id]
  <2>2. StepIds(f) = {ids[i] : i \in 1..Len(f.steps)} /\ DOMAIN ids = 1..Len(f.steps) /\ Len(f.steps) \in Nat
    <3>1. DOMAIN f.steps = 1..Len(f.steps) /\ Len(f.steps) \in Nat
      BY <1>2, ShapeParts
    <3>. QED BY <3>1 DEF StepIds
  <2>3. ToSet(f.triggers) = {f.triggers[i] : i \in 1..Len(f.triggers)} /\ DOMAIN f.triggers = 1..Len(f.triggers) /\ Len(f.triggers) \in Nat
    BY <1>2, ShapeParts DEF ToSet
  <2> HIDE DEF ids
  <2>4. IsFiniteSet(StepIds(f)) /\ IsFiniteSet(ToSet(f.triggers))
    BY ONLY <2>2, <2>3, FiniteRange
  <2>. QED BY <2>1, <2>4, FS_Union DEF Ids
<1>10. \A a \in Ids(f) : IsFiniteSet(DOMAIN wire_routes(f)[a])
  <2> SUFFICES ASSUME NEW a \in Ids(f) PROVE IsFiniteSet(DOMAIN wire_routes(f)[a])
    OBVIOUS
  <2>1. wire_routes(f)[a] \in Seq([to : STRING, when : BOOLEAN])
    BY <1>2, <1>5, RoutesShape
  <2> DEFINE w == wire_routes(f)[a]
  <2> HIDE DEF w
  <2>2. DOMAIN w = 1..Len(w) /\ Len(w) \in Int /\ 1 \in Int
    BY <2>1 DEF w
  <2>. QED BY <2>2, FS_Interval DEF w
<1>11. ASSUME NEW id \in DOMAIN graph
       PROVE  /\ graph[id].incoming \in Nat
              /\ IsFiniteSet(RoutesInto(id)) /\ Cardinality(RoutesInto(id)) <= graph[id].incoming
  <2> DEFINE all == RoutesTo(wire_routes(f), id)
  <2>1. IsFiniteSet(all) /\ Cardinality(all) \in Nat
    BY <1>9, <1>10, RoutesFinite
  <2>2. RoutesInto(id) \in SUBSET all
    <3> SUFFICES ASSUME NEW e \in RoutesInto(id) PROVE e \in all
      OBVIOUS
    <3>1. /\ e = <<e[1], e[2]>> /\ e[1] \in DOMAIN graph
          /\ e[2] \in DOMAIN graph[e[1]].routes /\ graph[e[1]].routes[e[2]].to = id
      BY DEF RoutesInto
    <3>. QED BY <1>2, <1>9, <3>1, RouteSpec
  <2> HIDE DEF all
  <2>3. IsFiniteSet(RoutesInto(id)) /\ Cardinality(RoutesInto(id)) <= Cardinality(all)
    BY <2>1, <2>2, FS_Subset
  <2>. QED BY <1>2, <2>1, <2>3 DEF all
<1>. QED BY <1>2, <1>3, <1>4, <1>7, <1>11, <1>8

-----------------------------------------------------------------------------
(* What a step does to the thread that takes it. *)

\* A sequence of what is also of another kind.
LEMMA SeqAlso ==
  ASSUME NEW S, NEW T, NEW s \in Seq(S), \A k \in DOMAIN s : s[k] \in T
  PROVE  s \in Seq(T)
<1>1. Len(s) \in Nat /\ DOMAIN s = 1..Len(s) /\ s = [k \in 1..Len(s) |-> s[k]]
  OBVIOUS
<1>2. s \in [1..Len(s) -> T]
  BY <1>1
<1>. QED BY <1>1, <1>2

\* One sequence after another.
LEMMA ConcatSpec ==
  ASSUME NEW S, NEW a \in Seq(S), NEW b \in Seq(S)
  PROVE  /\ a \o b \in Seq(S) /\ Len(a \o b) = Len(a) + Len(b) /\ DOMAIN (a \o b) = 1..Len(a) + Len(b)
         /\ Len(a) \in Nat /\ Len(b) \in Nat /\ DOMAIN a = 1..Len(a) /\ DOMAIN b = 1..Len(b)
         /\ \A k \in 1..Len(a) : (a \o b)[k] = a[k]
         /\ \A k \in 1..Len(b) : (a \o b)[Len(a) + k] = b[k]
         /\ \A k \in DOMAIN (a \o b) : k \in 1..Len(a) \/ \E j \in 1..Len(b) : k = Len(a) + j
<1>1. /\ a \o b \in Seq(S) /\ Len(a \o b) = Len(a) + Len(b) /\ DOMAIN (a \o b) = 1..Len(a) + Len(b)
      /\ Len(a) \in Nat /\ Len(b) \in Nat /\ DOMAIN a = 1..Len(a) /\ DOMAIN b = 1..Len(b)
      /\ \A k \in 1..Len(a) : (a \o b)[k] = a[k]
      /\ \A k \in 1..Len(b) : (a \o b)[Len(a) + k] = b[k]
  OBVIOUS
<1>2. ASSUME NEW k \in DOMAIN (a \o b), k \notin 1..Len(a) PROVE \E j \in 1..Len(b) : k = Len(a) + j
  <2>1. k - Len(a) \in 1..Len(b) /\ k = Len(a) + (k - Len(a))
    BY <1>1, <1>2
  <2>. QED BY <2>1
<1>. QED BY <1>1, <1>2

\* The next frame of a thread, and those under it.
LEMMA TopSpec ==
  ASSUME ThreadsInv, NEW t \in DOMAIN threads, threads[t] # <<>>
  PROVE  /\ top(t) = threads[t][1] /\ top(t) \in Frames /\ Tail(threads[t]) \in Seq(Walks)
         /\ Len(threads[t]) \in Nat /\ DOMAIN threads[t] = 1..Len(threads[t]) /\ 1 \in DOMAIN threads[t]
         /\ \A k \in DOMAIN threads[t] : k # 1 => k - 1 \in DOMAIN Tail(threads[t]) /\ Tail(threads[t])[k - 1] = threads[t][k]
         /\ \A k \in DOMAIN Tail(threads[t]) : k + 1 \in DOMAIN threads[t] /\ Tail(threads[t])[k] = threads[t][k + 1]
         /\ top(t).op = "walk" => top(t) \in Walks
         /\ top(t).op \in {"write", "save"} => top(t) \in Updates
         /\ top(t).op = "checkpoint" => top(t) \in Checkpoints
<1> DEFINE s == threads[t]
<1>1. s \in Seq(Frames) /\ s # <<>> /\ \A k \in DOMAIN s : k # 1 => s[k] \in Walks
  BY DEF ThreadsInv
<1>2. top(t) = Head(s)
  BY DEF top
<1> HIDE DEF s
<1>3. /\ Head(s) = s[1] /\ s[1] \in Frames
      /\ Len(s) \in Nat /\ DOMAIN s = 1..Len(s) /\ 1 \in DOMAIN s
  BY <1>1
<1>4. /\ Tail(s) \in Seq(Frames) /\ Len(Tail(s)) = Len(s) - 1
      /\ DOMAIN Tail(s) = 1..Len(s) - 1
      /\ \A k \in 1..Len(s) - 1 : Tail(s)[k] = s[k + 1]
  BY <1>1
<1>5. \A k \in DOMAIN Tail(s) : k + 1 \in DOMAIN s /\ Tail(s)[k] = s[k + 1] /\ k + 1 # 1
  BY <1>3, <1>4
<1>6. Tail(s) \in Seq(Walks)
  <2>1. \A k \in 1..Len(s) - 1 : Tail(s)[k] \in Walks
    BY <1>1, <1>4, <1>5
  <2>. QED BY <1>4, <2>1, SeqAlso
<1>7. \A k \in DOMAIN s : k # 1 => k - 1 \in DOMAIN Tail(s) /\ Tail(s)[k - 1] = s[k]
  <2> SUFFICES ASSUME NEW k \in DOMAIN s, k # 1 PROVE k - 1 \in DOMAIN Tail(s) /\ Tail(s)[k - 1] = s[k]
    OBVIOUS
  <2>1. k \in Nat /\ k - 1 \in 1..Len(s) - 1 /\ (k - 1) + 1 = k
    BY <1>3
  <2>. QED BY <1>4, <2>1
<1>8. ASSUME NEW f \in Frames
      PROVE  /\ f.op = "walk" => f \in Walks
             /\ f.op \in {"write", "save"} => f \in Updates
             /\ f.op = "checkpoint" => f \in Checkpoints
  BY DEF Frames, Walks, Updates, Checkpoints, Marks
<1>9. top(t) = s[1]
  BY <1>2, <1>3
<1>. QED BY <1>3, <1>5, <1>6, <1>7, <1>8, <1>9 DEF s

\* A record goes on from a step: to steps that its routes lead to.
Goes(r, id, frames) ==
  /\ frames \in Seq(Walks)
  /\ \A k \in DOMAIN frames : frames[k].rec = r /\ frames[k].at \in Onward(id)

\* Routed as often as a foreach, a loop or an expansion asks for.
LEMMA RepeatedSpec ==
  ASSUME GivenInv, NEW r \in Records, NEW id \in DOMAIN graph, NEW k \in Nat, NEW frames \in Repeated(r, id, k)
  PROVE  Goes(r, id, frames)
<1> DEFINE routes == graph[id].routes
           all == 1..k * Len(routes)
           Route(m) == routes[((m - 1) % Len(routes)) + 1]
<1>1. PICK off \in SUBSET {m \in all : Route(m).when} :
        frames = [q \in DOMAIN Rising(all \ off) |-> WalkTo(r, Route(Rising(all \ off)[q]).to)]
  BY DEF Repeated
<1> DEFINE on == Rising(all \ off)
<1>2. routes \in Seq([to : DOMAIN graph, when : BOOLEAN]) /\ Onward(id) \in SUBSET DOMAIN graph
      /\ \A j \in DOMAIN routes : routes[j].to \in Onward(id)
  BY ControlGiven DEF Onward
<1> HIDE DEF routes
<1>3. Len(routes) \in Nat /\ DOMAIN routes = 1..Len(routes)
  BY <1>2
<1>4. k * Len(routes) \in Nat /\ (Len(routes) = 0 => k * Len(routes) = 0)
  BY <1>3
<1>5. IsFiniteSet(all \ off) /\ all \ off \in SUBSET Nat
  <2>1. IsFiniteSet(all)
    BY <1>4, FS_Interval
  <2>2. all \ off \in SUBSET all /\ all \in SUBSET Nat
    BY <1>4
  <2> HIDE DEF all
  <2>3. IsFiniteSet(all \ off)
    BY <2>1, <2>2, FS_Subset
  <2>. QED BY <2>2, <2>3
<1>6. \A m \in all : Route(m).to \in Onward(id)
  <2> SUFFICES ASSUME NEW m \in all PROVE Route(m).to \in Onward(id)
    OBVIOUS
  <2>1. Len(routes) > 0 /\ m - 1 \in Nat
    BY <1>3, <1>4
  <2>2. ((m - 1) % Len(routes)) + 1 \in 1..Len(routes)
    BY <1>3, <2>1
  <2>. QED BY <1>2, <1>3, <2>2
<1> DEFINE N == Cardinality(all \ off)
<1>7. N \in Nat /\ DOMAIN on = 1..N /\ \A q \in 1..N : on[q] \in all \ off
  BY <1>5, RisingSpec
<1> HIDE DEF on, N
<1>8. frames = [q \in 1..N |-> WalkTo(r, Route(on[q]).to)]
  BY <1>1, <1>7 DEF on
<1>9. \A q \in 1..N : Route(on[q]).to \in Onward(id)
  BY <1>6, <1>7
<1> DEFINE To(q) == Route(on[q]).to
<1>10. frames = [q \in 1..N |-> WalkTo(r, To(q))] /\ \A q \in 1..N : To(q) \in Onward(id) /\ To(q) \in DOMAIN graph
  BY <1>2, <1>8, <1>9
<1> HIDE DEF To
<1>11. \A q \in 1..N : WalkTo(r, To(q)) \in Walks /\ WalkTo(r, To(q)).rec = r /\ WalkTo(r, To(q)).at = To(q)
  BY <1>10 DEF WalkTo, Walks
<1>12. frames \in [1..N -> Walks]
  BY <1>10, <1>11
<1>13. frames \in Seq(Walks) /\ DOMAIN frames = 1..N
  BY <1>7, <1>12
<1>. QED BY <1>10, <1>11, <1>13 DEF Goes

\* The same for a route of one.
LEMMA RouteGoes ==
  ASSUME GivenInv, NEW r \in Records, NEW id \in DOMAIN graph, NEW frames \in route(r, id)
  PROVE  Goes(r, id, frames)
BY RepeatedSpec DEF route

\* Frames that go to one step, some number of times.
LEMMA SameGoes ==
  ASSUME GivenInv, NEW r \in Records, NEW id \in DOMAIN graph, NEW to \in Onward(id), NEW n \in Nat
  PROVE  Goes(r, id, [i \in 1..n |-> WalkTo(r, to)])
<1>1. to \in DOMAIN graph
  BY ControlGiven
<1>2. WalkTo(r, to) \in Walks /\ WalkTo(r, to).rec = r /\ WalkTo(r, to).at = to
  BY <1>1 DEF WalkTo, Walks
<1>3. [i \in 1..n |-> WalkTo(r, to)] \in Seq(Walks)
  BY <1>2
<1>. QED BY <1>2, <1>3 DEF Goes

\* A step of a record that goes on, or ends, at a step and changes nothing else.
Passes(t) ==
  /\ At(t, "walk")
  /\ \E frames : /\ Goes(top(t).rec, top(t).at, frames) /\ WalkOn(t, top(t).rec, frames)
                 /\ graph[top(t).at].kind \in {"parallel", "sink", "join", "batch"} => graph[top(t).at].when /\ frames = <<>>
  /\ UNCHANGED <<runVars, bufferVars, stateVars, uuids>>

\* A sink has it, and perhaps leaves a checkpoint to be made.
Delivers(t) ==
  /\ Walking(t, "sink")
  /\ \E frames \in {<<>>} \cup {<<c>> : c \in Checkpoints} : Push(frames, t)
  /\ ended' = ended \cup top(t).rec.from
  /\ UNCHANGED <<runVars, bufferVars, states, stored, updates, raced, unsaved, errors, strayed, uuids>>

\* It fails the task.
Fails(t) ==
  /\ At(t, "walk") /\ threads' = [threads EXCEPT ![t] = Error]
  /\ UNCHANGED <<runVars, bufferVars, stateVars, endVars, uuids>>

\* It reads the state it is to update.
Reads(t) ==
  /\ Walking(t, "state")
  /\ Push(<<[op |-> "write", rec |-> top(t).rec, at |-> top(t).at, seen |-> states[top(t).at]]>>, t)
  /\ raced' = (raced \/ Amid(top(t).at) # {})
  /\ UNCHANGED <<runVars, bufferVars, states, stored, since, updates, unsaved, errors, endVars, uuids>>

\* The kinds of steps there are.
LEMMA WalkKinds ==
  ASSUME GivenInv, BuffersInv, ThreadsInv, NEW t \in DOMAIN threads, walk(t)
  PROVE  \/ Passes(t) \/ Delivers(t) \/ Fails(t) \/ Parallel(t) \/ Joined(t) \/ apply_join(t) \/ apply_batch(t)
         \/ Reads(t) \/ update_state(t) \/ SaveState(t) \/ Checkpoint(t)
<1>1. ASSUME At(t, "walk")
      PROVE  top(t) \in Walks /\ top(t).rec \in Records /\ top(t).at \in DOMAIN graph
  <2>1. top(t) \in Walks
    BY <1>1, TopSpec DEF At
  <2>. QED BY <2>1 DEF Walks
<1>2. ASSUME At(t, "walk") PROVE Goes(top(t).rec, top(t).at, <<>>)
  BY DEF Goes
<1>3. CASE WhenFails(t)
  <2>1. At(t, "walk") /\ graph[top(t).at].when /\ WalkOn(t, top(t).rec, <<>>) /\ UNCHANGED <<runVars, bufferVars, stateVars, uuids>>
    BY <1>3 DEF WhenFails
  <2>2. Goes(top(t).rec, top(t).at, <<>>)
    BY <1>2, <2>1
  <2>3. Passes(t)
    BY <2>1, <2>2 DEF Passes
  <2>. QED BY <2>3
<1>4. CASE SinkSends(t)
  <2>1. Walking(t, "sink") /\ ended' = ended \cup top(t).rec.from
        /\ UNCHANGED <<runVars, bufferVars, states, stored, updates, raced, unsaved, errors, strayed, uuids>>
    BY <1>4 DEF SinkSends
  <2>2. [op |-> "checkpoint", seen |-> states] \in Checkpoints
    BY DEF Checkpoints, BuffersInv
  <2>3. Push(<<>>, t) \/ Push(<<[op |-> "checkpoint", seen |-> states]>>, t)
    BY <1>4 DEF SinkSends
  <2>. QED BY <2>1, <2>2, <2>3 DEF Delivers
<1>5. CASE SinkEnds(t)
  BY <1>5 DEF SinkEnds, Delivers, stateVars
<1>6. CASE Transforms(t)
  <2>1. PICK k \in 0..2 : \E frames \in Repeated(top(t).rec, top(t).at, k) : WalkOn(t, top(t).rec, frames)
    BY <1>6 DEF Transforms
  <2>2. PICK frames \in Repeated(top(t).rec, top(t).at, k) : WalkOn(t, top(t).rec, frames)
    BY <2>1
  <2>3. At(t, "walk") /\ graph[top(t).at].kind = "transform"
    BY <1>6 DEF Transforms, Walking
  <2>4. Goes(top(t).rec, top(t).at, frames)
    BY <1>1, <2>3, RepeatedSpec
  <2>. QED BY <1>6, <2>2, <2>3, <2>4 DEF Transforms, Passes
<1>7. CASE TransformFails(t)
  <2>1. CASE graph[top(t).at].on_error = "continue"
    BY <1>2, <1>7, <2>1 DEF TransformFails, Walking, Passes
  <2>2. CASE graph[top(t).at].on_error # "continue"
    BY <1>7, <2>2 DEF TransformFails, Walking, Fails
  <2>. QED BY <2>1, <2>2
<1>8. CASE PassesOn(t)
  <2>1. PICK frames \in route(top(t).rec, top(t).at) : WalkOn(t, top(t).rec, frames)
    BY <1>8 DEF PassesOn
  <2>2. At(t, "walk") /\ graph[top(t).at].kind \in {"source", "delay"}
    BY <1>8 DEF PassesOn, Walking
  <2>3. Goes(top(t).rec, top(t).at, frames)
    BY <1>1, <2>2, RouteGoes
  <2>. QED BY <1>8, <2>1, <2>2, <2>3 DEF PassesOn, Passes
<1>9. CASE Switch(t)
  <2>1. PICK i \in DOMAIN graph[top(t).at].targets : WalkOn(t, top(t).rec, <<WalkTo(top(t).rec, graph[top(t).at].targets[i])>>)
    BY <1>9 DEF Switch
  <2>2. At(t, "walk") /\ graph[top(t).at].kind = "switch"
    BY <1>9 DEF Switch, Walking
  <2> DEFINE to == graph[top(t).at].targets[i]
             r == top(t).rec
  <2>3. to \in Onward(top(t).at) /\ to \in DOMAIN graph
    BY <1>1, <2>2, ControlGiven
  <2>4. WalkTo(r, to) \in Walks /\ WalkTo(r, to).rec = r /\ WalkTo(r, to).at = to
    BY <1>1, <2>2, <2>3 DEF WalkTo, Walks
  <2>5. Goes(r, top(t).at, <<WalkTo(r, to)>>)
    <3> DEFINE f == WalkTo(r, to)
    <3> HIDE DEF f, to, r
    <3>1. <<f>> \in Seq(Walks) /\ DOMAIN <<f>> = {1} /\ <<f>>[1] = f
      BY <2>4 DEF f
    <3>. QED BY <2>3, <2>4, <3>1 DEF Goes, f
  <2>. QED BY <1>9, <2>1, <2>2, <2>5 DEF Switch, Passes
<1>10. CASE Foreach(t)
  <2>1. PICK k \in 0..graph[top(t).at].max_iterations : \E frames \in Repeated(top(t).rec, top(t).at, k) : WalkOn(t, top(t).rec, frames)
    BY <1>10 DEF Foreach
  <2>2. PICK frames \in Repeated(top(t).rec, top(t).at, k) : WalkOn(t, top(t).rec, frames)
    BY <2>1
  <2>3. At(t, "walk") /\ graph[top(t).at].kind = "foreach"
    BY <1>10 DEF Foreach, Walking
  <2>4. k \in Nat
    BY <1>1, <2>3, ControlGiven
  <2>5. Goes(top(t).rec, top(t).at, frames)
    BY <1>1, <2>3, <2>4, RepeatedSpec
  <2>. QED BY <1>10, <2>2, <2>3, <2>5 DEF Foreach, Passes
<1>11. CASE Loop(t)
  <2> DEFINE n == graph[top(t).at]
  <2>1. At(t, "walk") /\ n.kind = "loop" /\ UNCHANGED <<runVars, bufferVars, stateVars, uuids>>
    BY <1>11 DEF Loop, Walking
  <2>2. PICK k \in {0, n.max_iterations} :
          IF n.targets # <<>> THEN WalkOn(t, top(t).rec, [i \in 1..k |-> WalkTo(top(t).rec, n.targets[1])])
          ELSE \E frames \in Repeated(top(t).rec, top(t).at, k) : WalkOn(t, top(t).rec, frames)
    BY <1>11 DEF Loop
  <2>3. k \in Nat
    BY <1>1, <2>1, ControlGiven
  <2>4. CASE n.targets # <<>>
    <3>1. n.targets \in Seq(Onward(top(t).at))
      BY <1>1, <2>1, ControlGiven
    <3>2. n.targets[1] \in Onward(top(t).at)
      BY <2>4, <3>1
    <3>3. Goes(top(t).rec, top(t).at, [i \in 1..k |-> WalkTo(top(t).rec, n.targets[1])])
      BY <1>1, <2>1, <2>3, <3>2, SameGoes
    <3>. QED BY <2>1, <2>2, <2>4, <3>3 DEF Passes
  <2>5. CASE n.targets = <<>>
    <3>1. PICK frames \in Repeated(top(t).rec, top(t).at, k) : WalkOn(t, top(t).rec, frames)
      BY <2>2, <2>5
    <3>2. Goes(top(t).rec, top(t).at, frames)
      BY <1>1, <2>1, <2>3, RepeatedSpec
    <3>. QED BY <2>1, <3>1, <3>2 DEF Passes
  <2>. QED BY <2>4, <2>5
<1>12. CASE Approve(t)
  <2>1. At(t, "walk") /\ graph[top(t).at].kind = "approve" /\ UNCHANGED <<runVars, bufferVars, stateVars, uuids>>
    BY <1>12 DEF Approve, Walking
  <2>2. CASE config.store
    BY <1>2, <1>12, <2>1, <2>2 DEF Approve, Passes
  <2>3. CASE ~config.store
    <3>1. PICK frames \in route(top(t).rec, top(t).at) : WalkOn(t, top(t).rec, frames)
      BY <1>12, <2>3 DEF Approve
    <3>2. Goes(top(t).rec, top(t).at, frames)
      BY <1>1, <2>1, RouteGoes
    <3>. QED BY <2>1, <3>1, <3>2 DEF Passes
  <2>. QED BY <2>2, <2>3
<1>13. CASE apply_state(t)
  <2>1. Walking(t, "state") /\ At(t, "walk")
    BY <1>13 DEF apply_state, Walking
  <2>2. CASE WalkOn(t, top(t).rec, <<>>) /\ UNCHANGED raced
    <3>1. UNCHANGED <<runVars, bufferVars, stateVars, uuids>> /\ graph[top(t).at].kind = "state"
      BY <1>13, <2>1, <2>2 DEF apply_state, stateVars, Walking
    <3>2. Goes(top(t).rec, top(t).at, <<>>)
      BY <1>2, <2>1
    <3>3. Passes(t)
      BY <2>1, <2>2, <3>1, <3>2 DEF Passes
    <3>. QED BY <3>3
  <2>3. CASE ~(WalkOn(t, top(t).rec, <<>>) /\ UNCHANGED raced)
    BY <1>13, <2>3 DEF apply_state, Reads
  <2>. QED BY <2>2, <2>3
<1>. QED BY <1>3, <1>4, <1>5, <1>6, <1>7, <1>8, <1>9, <1>10, <1>11, <1>12, <1>13 DEF walk

\* What a graph that stays gives stays.
LEMMA GraphKeeps ==
  ASSUME graph' = graph
  PROVE  /\ Records' = Records /\ Walks' = Walks /\ Updates' = Updates /\ Checkpoints' = Checkpoints
         /\ Frames' = Frames /\ Tags' = Tags /\ BehindBatches' = BehindBatches
         /\ \A id : Onward(id)' = Onward(id)
         /\ OfKind("join")' = OfKind("join") /\ OfKind("batch")' = OfKind("batch")
         /\ OfKind("state")' = OfKind("state") /\ OfKind("parallel")' = OfKind("parallel")
<1>1. /\ OfKind("join")' = OfKind("join") /\ OfKind("batch")' = OfKind("batch")
      /\ OfKind("state")' = OfKind("state") /\ OfKind("parallel")' = OfKind("parallel")
  BY DEF OfKind
<1>2. \A id : Onward(id)' = Onward(id)
  BY DEF Onward
<1>3. Records' = Records /\ Tags' = Tags
  BY DEF Records, Tags
<1>4. Walks' = Walks /\ Updates' = Updates /\ Checkpoints' = Checkpoints
  BY <1>1, <1>3 DEF Walks, Updates, Checkpoints
<1>5. Frames' = Frames
  BY <1>4 DEF Frames, Marks
<1>6. BehindBatches' = BehindBatches
  BY DEF BehindBatches, Onward, OfKind
<1>. QED BY <1>1, <1>2, <1>3, <1>4, <1>5, <1>6

\* Records merged into one, by a join or a batch.
LEMMA MergedSpec ==
  ASSUME NEW records \in Seq(Records), records # <<>>
  PROVE  Merged(records) \in Records /\ Emitted(records) \in Records
<1>1. \A i \in DOMAIN records : records[i] \in Records
  OBVIOUS
<1>2. \A i \in DOMAIN records : records[i].from \in SUBSET ((DOMAIN graph) \X Nat)
  BY <1>1 DEF Records
<1>3. UNION {records[i].from : i \in DOMAIN records} \in SUBSET ((DOMAIN graph) \X Nat)
  BY <1>2
<1>4. 1 \in DOMAIN records
  OBVIOUS
<1>5. records[1].corr \in 0..MaxUuids /\ 0 \in 0..MaxUuids
  BY <1>1, <1>4, ControlAssumption DEF Records
<1>. QED BY <1>3, <1>5 DEF Merged, Emitted, Record, Records

\* A join with one more record: the group goes on as one, or it waits.
JoinComes(t, id, corr, group) ==
  /\ Walking(t, "join") /\ id = top(t).at /\ id \in OfKind("join") /\ top(t).rec \in Records
  /\ corr \in 1..MaxUuids /\ group = Append(groups[id][corr], top(t).rec) /\ group \in Seq(Records)
  /\ groups[id][corr] \in Seq(Records)
  /\ top(t).rec.corr # 0 => corr = top(t).rec.corr
  /\ arrived' = [arrived EXCEPT ![id] = @ + 1] /\ uuids' \in 0..MaxUuids
  /\ UNCHANGED <<runVars, batches, stateVars>>

JoinGoes(t, id, corr, group) ==
  /\ JoinComes(t, id, corr, group) /\ Merged(group) \in Records /\ Ready(graph[id], group)
  /\ groups' = [groups EXCEPT ![id][corr] = <<>>] /\ emitted' = [emitted EXCEPT ![id] = @ + Len(group)]
  /\ \E frames : Goes(Merged(group), id, frames) /\ WalkOn(t, Merged(group), frames)

JoinKeeps(t, id, corr, group) ==
  /\ JoinComes(t, id, corr, group) /\ ~Ready(graph[id], group)
  /\ groups' = [groups EXCEPT ![id][corr] = group]
  /\ Push(<<>>, t) /\ UNCHANGED <<emitted, endVars>>

\* What a join does with a record is one of the two.
LEMMA JoinKinds ==
  ASSUME GivenInv, BuffersInv, ThreadsInv, NEW t \in DOMAIN threads, apply_join(t)
  PROVE  \E id, corr, group : JoinGoes(t, id, corr, group) \/ JoinKeeps(t, id, corr, group)
<1> DEFINE id == top(t).at
           r == top(t).rec
           corr == IF r.corr # 0 THEN r.corr ELSE uuids + 1
           group == Append(groups[id][corr], r)
<1>1. Walking(t, "join") /\ top(t) \in Walks
  BY TopSpec DEF apply_join, Walking, At
<1>2. r \in Records /\ id \in OfKind("join") /\ r.corr \in 0..MaxUuids
  BY <1>1 DEF Walks, Walking, OfKind, Records
<1>3. /\ IF r.corr # 0 THEN UNCHANGED uuids ELSE Fresh
      /\ groups' = [groups EXCEPT ![id][corr] = Left(graph[id], group)]
      /\ arrived' = [arrived EXCEPT ![id] = @ + 1]
      /\ IF Ready(graph[id], group)
         THEN /\ emitted' = [emitted EXCEPT ![id] = @ + Len(group)]
              /\ \E frames \in route(Merged(group), id) : WalkOn(t, Merged(group), frames)
         ELSE Push(<<>>, t) /\ UNCHANGED <<emitted, endVars>>
      /\ UNCHANGED <<runVars, batches, stateVars>>
  BY DEF apply_join
<1>4. corr \in 1..MaxUuids /\ uuids' \in 0..MaxUuids /\ (r.corr # 0 => corr = r.corr)
  <2>1. MaxUuids \in Nat /\ uuids \in 0..MaxUuids
    BY ControlAssumption DEF BuffersInv
  <2>2. CASE r.corr # 0
    BY <1>2, <1>3, <2>1, <2>2
  <2>3. CASE r.corr = 0
    BY <1>3, <2>1, <2>3 DEF Fresh
  <2>. QED BY <2>2, <2>3
<1> HIDE DEF corr
<1>5. groups[id][corr] \in Seq(Records)
  <2>1. groups \in [OfKind("join") -> [1..MaxUuids -> Seq(Records)]]
    BY DEF BuffersInv
  <2> HIDE DEF id
  <2>2. groups[id] \in [1..MaxUuids -> Seq(Records)]
    BY <1>2, <2>1
  <2>. QED BY <1>4, <2>2
<1>6. group \in Seq(Records) /\ group # <<>>
  BY <1>2, <1>5
<1>7. Merged(group) \in Records
  BY <1>6, MergedSpec
<1>8. JoinComes(t, id, corr, group)
  BY <1>1, <1>2, <1>3, <1>4, <1>5, <1>6 DEF JoinComes
<1>9. CASE Ready(graph[id], group)
  <2>1. groups' = [groups EXCEPT ![id][corr] = <<>>] /\ emitted' = [emitted EXCEPT ![id] = @ + Len(group)]
    BY <1>3, <1>9 DEF Left
  <2>2. PICK frames \in route(Merged(group), id) : WalkOn(t, Merged(group), frames)
    BY <1>3, <1>9
  <2>3. id \in DOMAIN graph
    BY <1>2 DEF OfKind
  <2>4. Goes(Merged(group), id, frames)
    BY <1>7, <2>2, <2>3, RouteGoes
  <2> HIDE DEF id, group
  <2>. QED BY <1>7, <1>8, <1>9, <2>1, <2>2, <2>4 DEF JoinGoes
<1>10. CASE ~Ready(graph[id], group)
  <2>1. groups' = [groups EXCEPT ![id][corr] = group]
    BY <1>3, <1>10 DEF Left
  <2> HIDE DEF id, group
  <2>. QED BY <1>3, <1>8, <1>10, <2>1 DEF JoinKeeps
<1>. QED BY <1>9, <1>10

\* A batch with one more record: all it holds goes on as one, or it waits.
BatchComes(t, id, records) ==
  /\ Walking(t, "batch") /\ id = top(t).at /\ id \in OfKind("batch") /\ top(t).rec \in Records
  /\ records = Append(batches[id].records, top(t).rec) /\ records \in Seq(Records)
  /\ batches[id].records \in Seq(Records)
  /\ arrived' = [arrived EXCEPT ![id] = @ + 1]
  /\ UNCHANGED <<runVars, groups, stateVars, uuids>>

BatchGoes(t, id, records) ==
  /\ BatchComes(t, id, records) /\ Emitted(records) \in Records
  /\ batches' = [batches EXCEPT ![id] = EmptyBatch] /\ emitted' = [emitted EXCEPT ![id] = @ + Len(records)]
  /\ \E frames : Goes(Emitted(records), id, frames) /\ WalkOn(t, Emitted(records), frames)

BatchKeeps(t, id, records) ==
  /\ BatchComes(t, id, records)
  /\ batches' = [batches EXCEPT ![id] = [records |-> records, since |-> TRUE]]
  /\ Push(<<>>, t) /\ UNCHANGED <<emitted, endVars>>

\* The same for a batch.
LEMMA BatchKinds ==
  ASSUME GivenInv, BuffersInv, ThreadsInv, NEW t \in DOMAIN threads, apply_batch(t)
  PROVE  \E id, records : BatchGoes(t, id, records) \/ BatchKeeps(t, id, records)
<1> DEFINE id == top(t).at
           r == top(t).rec
           records == Append(batches[id].records, r)
           full == \/ graph[id].size # 0 /\ Len(records) >= graph[id].size
                   \/ graph[id].within /\ batches[id].since
<1>1. Walking(t, "batch") /\ top(t) \in Walks
  BY TopSpec DEF apply_batch, Walking, At
<1>2. r \in Records /\ id \in OfKind("batch") /\ id \in DOMAIN graph
  BY <1>1 DEF Walks, Walking, OfKind
<1>3. /\ arrived' = [arrived EXCEPT ![id] = @ + 1]
      /\ UNCHANGED <<runVars, groups, stateVars, uuids>>
      /\ \/ /\ batches' = [batches EXCEPT ![id] = EmptyBatch]
            /\ emitted' = [emitted EXCEPT ![id] = @ + Len(records)]
            /\ \E frames \in route(Emitted(records), id) : WalkOn(t, Emitted(records), frames)
         \/ /\ batches' = [batches EXCEPT ![id] = [records |-> records, since |-> TRUE]]
            /\ Push(<<>>, t) /\ UNCHANGED <<emitted, endVars>>
  BY DEF apply_batch
<1>4. batches[id].records \in Seq(Records)
  BY <1>2 DEF BuffersInv
<1>5. records \in Seq(Records) /\ records # <<>>
  <2> HIDE DEF id, r
  <2>1. records \in Seq(Records) /\ Len(records) = Len(batches[id].records) + 1 /\ Len(batches[id].records) \in Nat
    BY <1>2, <1>4
  <2>. QED BY <2>1
<1>6. Emitted(records) \in Records
  BY <1>5, MergedSpec
<1>7. BatchComes(t, id, records)
  BY <1>1, <1>2, <1>3, <1>4, <1>5 DEF BatchComes
<1>8. CASE /\ batches' = [batches EXCEPT ![id] = EmptyBatch]
           /\ emitted' = [emitted EXCEPT ![id] = @ + Len(records)]
           /\ \E frames \in route(Emitted(records), id) : WalkOn(t, Emitted(records), frames)
  <2>1. PICK frames \in route(Emitted(records), id) : WalkOn(t, Emitted(records), frames)
    BY <1>8
  <2>2. Goes(Emitted(records), id, frames)
    BY <1>2, <1>6, <2>1, RouteGoes
  <2> HIDE DEF id, records
  <2>. QED BY <1>6, <1>7, <1>8, <2>1, <2>2 DEF BatchGoes
<1>9. CASE /\ batches' = [batches EXCEPT ![id] = [records |-> records, since |-> TRUE]]
           /\ Push(<<>>, t) /\ UNCHANGED <<emitted, endVars>>
  <2> HIDE DEF id, records
  <2>. QED BY <1>7, <1>9 DEF BatchKeeps
<1>. QED BY <1>3, <1>8, <1>9

-----------------------------------------------------------------------------
(* The threads. *)

\* The stack of a thread becomes another one, and only its.
Moves(t, pile) ==
  /\ t \in DOMAIN threads /\ ~At(t, "await") /\ threads' = [threads EXCEPT ![t] = pile]
  /\ pile \in Seq(Frames) /\ \A k \in DOMAIN pile : k # 1 => pile[k] \in Walks

\* What a stack is about to write.
Writes(pile) == IF pile # <<>> /\ pile[1].op = "write" THEN {pile[1]} ELSE {}

\* Frames in place of the next one.
LEMMA PushMoves ==
  ASSUME ThreadsInv, NEW t \in DOMAIN threads, threads[t] # <<>>, top(t).op # "await",
         NEW frames \in Seq(Frames), \A k \in DOMAIN frames : k # 1 => frames[k] \in Walks, Push(frames, t)
  PROVE  /\ Moves(t, frames \o Tail(threads[t]))
         /\ (frames # <<>> => frames[1].op # "write") => Writes(frames \o Tail(threads[t])) = {}
<1> DEFINE rest == Tail(threads[t])
<1>1. threads' = [threads EXCEPT ![t] = frames \o rest] /\ ~At(t, "await")
  BY DEF Push, At
<1>2. rest \in Seq(Walks) /\ Walks \in SUBSET Frames
  BY TopSpec DEF Frames
<1> HIDE DEF rest
<1>3. rest \in Seq(Frames)
  BY <1>2, SeqAlso
<1>4. frames \o rest \in Seq(Frames)
  BY <1>3
<1>5. \A k \in DOMAIN (frames \o rest) : k # 1 => (frames \o rest)[k] \in Walks
  <2> SUFFICES ASSUME NEW k \in DOMAIN (frames \o rest), k # 1 PROVE (frames \o rest)[k] \in Walks
    OBVIOUS
  <2>1. Len(frames) \in Nat /\ Len(rest) \in Nat /\ k \in 1..Len(frames) + Len(rest) /\ DOMAIN frames = 1..Len(frames)
    BY <1>3
  <2>2. CASE k <= Len(frames)
    <3>1. (frames \o rest)[k] = frames[k]
      BY <1>3, <2>1, <2>2
    <3>. QED BY <2>1, <2>2, <3>1
  <2>3. CASE k > Len(frames)
    <3>1. (frames \o rest)[k] = rest[k - Len(frames)] /\ k - Len(frames) \in DOMAIN rest
      BY <1>3, <2>1, <2>3
    <3>. QED BY <1>2, <3>1
  <2>. QED BY <2>1, <2>2, <2>3
<1>6. ASSUME frames # <<>> => frames[1].op # "write" PROVE Writes(frames \o rest) = {}
  <2>1. CASE frames = <<>>
    <3>1. frames \o rest = rest
      BY <1>3, <2>1
    <3>2. rest # <<>> => rest[1] \in Walks
      BY <1>2
    <3>3. \A f \in Walks : f.op # "write"
      BY DEF Walks
    <3>. QED BY <3>1, <3>2, <3>3 DEF Writes
  <2>2. CASE frames # <<>>
    <3>1. (frames \o rest)[1] = frames[1]
      BY <1>3, <2>2
    <3>. QED BY <1>6, <2>2, <3>1 DEF Writes
  <2>. QED BY <2>1, <2>2
<1>. QED BY <1>1, <1>4, <1>5, <1>6 DEF Moves, rest

\* Frames with a place among the steps.
Placed == {"walk", "write", "save"}

\* A thread works off its next frame: others take its place, of the same step or of steps
\* that its routes lead to.
Works(t, frames) ==
  /\ threads[t] # <<>> /\ top(t).op \in Placed \cup {"checkpoint"} /\ Push(frames, t)
  /\ frames \in Seq(Frames) /\ \A k \in DOMAIN frames : k # 1 => frames[k] \in Walks
  /\ \A k \in DOMAIN frames :
       /\ frames[k].op = "write" => Reads(t)
       /\ frames[k].op \in Placed => top(t).op \in Placed /\ frames[k].at \in Onward(top(t).at) \cup {top(t).at}

\* Frames of a record that goes on.
LEMMA GoesWorks ==
  ASSUME ThreadsInv, NEW t \in DOMAIN threads, threads[t] # <<>>, top(t).op \in Placed,
         NEW r, NEW frames, Goes(r, top(t).at, frames), Push(frames, t)
  PROVE  Works(t, frames)
<1>1. frames \in Seq(Walks) /\ Walks \in SUBSET Frames
  BY DEF Goes, Frames
<1>2. frames \in Seq(Frames) /\ \A k \in DOMAIN frames : frames[k] \in Walks /\ frames[k].at \in Onward(top(t).at)
  BY <1>1, SeqAlso DEF Goes
<1>3. \A f \in Walks : f.op # "write"
  BY DEF Walks
<1>. QED BY <1>2, <1>3 DEF Works

\* One frame, or none.
LEMMA OneWorks ==
  ASSUME ThreadsInv, NEW t \in DOMAIN threads, threads[t] # <<>>, top(t).op \in Placed \cup {"checkpoint"},
         NEW frames, Push(frames, t),
         \/ frames = <<>>
         \/ \E f \in Frames :
              /\ frames = <<f>> /\ (f.op = "write" => Reads(t))
              /\ f.op \in Placed => top(t).op \in Placed /\ f.at \in Onward(top(t).at) \cup {top(t).at}
  PROVE  Works(t, frames)
<1>1. CASE frames = <<>>
  <2>1. frames \in Seq(Frames) /\ DOMAIN frames = {}
    BY <1>1
  <2>. QED BY <2>1 DEF Works
<1>2. CASE frames # <<>>
  <2>1. PICK f \in Frames :
              /\ frames = <<f>> /\ (f.op = "write" => Reads(t))
              /\ f.op \in Placed => top(t).op \in Placed /\ f.at \in Onward(top(t).at) \cup {top(t).at}
    BY <1>2
  <2>2. frames \in Seq(Frames) /\ DOMAIN frames = {1} /\ frames[1] = f
    BY <2>1
  <2>. QED BY <2>1, <2>2 DEF Works
<1>. QED BY <1>1, <1>2

\* That moves the thread.
LEMMA WorksMoves ==
  ASSUME ThreadsInv, NEW t \in DOMAIN threads, NEW frames, Works(t, frames)
  PROVE  Moves(t, frames \o Tail(threads[t])) /\ (Reads(t) \/ Writes(frames \o Tail(threads[t])) = {})
<1>1. /\ threads[t] # <<>> /\ top(t).op # "await" /\ Push(frames, t)
      /\ frames \in Seq(Frames) /\ \A k \in DOMAIN frames : k # 1 => frames[k] \in Walks
  BY DEF Works, Placed
<1>2. Reads(t) \/ (frames # <<>> => frames[1].op # "write")
  <2>1. frames # <<>> => 1 \in DOMAIN frames
    BY <1>1
  <2>. QED BY <2>1 DEF Works
<1>. QED BY <1>1, <1>2, PushMoves

\* The threads are well formed after it.
LEMMA MovesThreads ==
  ASSUME ThreadsInv, graph' = graph, NEW t, NEW pile, Moves(t, pile)
  PROVE  /\ ThreadsInv' /\ DOMAIN threads' = DOMAIN threads
         /\ threads'[t] = pile /\ \A u \in DOMAIN threads : u # t => threads'[u] = threads[u] /\ (threads[u] # <<>> => top(u)' = top(u))
<1>1. /\ DOMAIN threads' = DOMAIN threads /\ threads'[t] = pile
      /\ \A u \in DOMAIN threads : u # t => threads'[u] = threads[u]
  BY DEF Moves
<1>2. \A u \in DOMAIN threads : u # t => threads'[u] = threads[u] /\ (threads[u] # <<>> => top(u)' = top(u))
  BY <1>1 DEF top
<1>3. Frames' = Frames /\ Walks' = Walks /\ Tags' = Tags
  BY GraphKeeps
<1>4. \A u \in DOMAIN threads' : threads'[u] \in Seq(Frames) /\ \A k \in DOMAIN threads'[u] : k # 1 => threads'[u][k] \in Walks
  <2> SUFFICES ASSUME NEW u \in DOMAIN threads' PROVE threads'[u] \in Seq(Frames) /\ \A k \in DOMAIN threads'[u] : k # 1 => threads'[u][k] \in Walks
    OBVIOUS
  <2>1. CASE u = t
    BY <1>1, <2>1 DEF Moves
  <2>2. CASE u # t
    BY <1>1, <2>2 DEF ThreadsInv
  <2>. QED BY <2>1, <2>2
<1>5. ASSUME NEW u \in DOMAIN threads', NEW n \in 1..Len(u) - 1
      PROVE  Above(u, n) \in DOMAIN threads' /\ At(Above(u, n), "await")'
  <2>1. Above(u, n) \in DOMAIN threads /\ At(Above(u, n), "await")
    BY <1>1 DEF ThreadsInv
  <2>2. Above(u, n) # t
    BY <2>1 DEF Moves
  <2>3. Above(u, n)' = Above(u, n)
    OBVIOUS
  <2>. QED BY <1>1, <2>1, <2>2 DEF At, top
<1>6. IsFiniteSet(DOMAIN threads') /\ \A u \in DOMAIN threads' : u \in Seq(Tags) /\ u # <<>>
  BY <1>1 DEF ThreadsInv
<1>7. ThreadsInv'
  BY <1>3, <1>4, <1>5, <1>6 DEF ThreadsInv
<1>. QED BY <1>1, <1>2, <1>7

\* The first places of a name are the name so far.
LEMMA AboveSpec ==
  ASSUME NEW S, NEW t \in Seq(S)
  PROVE  /\ Len(t) \in Nat /\ Above(t, Len(t)) = t
         /\ \A n \in 0..Len(t) : SubSeq(t, 1, n) = Above(t, n)
         /\ \A n \in 0..Len(t) : Len(Above(t, n)) = n
         /\ \A n, m \in 0..Len(t) : m <= n => Above(Above(t, n), m) = Above(t, m)
<1>1. Len(t) \in Nat /\ DOMAIN t = 1..Len(t) /\ Above(t, Len(t)) = t
  BY DEF Above
<1>2. ASSUME NEW n \in 0..Len(t) PROVE SubSeq(t, 1, n) = Above(t, n) /\ Len(Above(t, n)) = n
  <2>1. SubSeq(t, 1, n) \in Seq(S) /\ Len(SubSeq(t, 1, n)) = n /\ \A i \in 1..n : SubSeq(t, 1, n)[i] = t[i]
    BY <1>1
  <2>2. SubSeq(t, 1, n) = [i \in 1..n |-> SubSeq(t, 1, n)[i]]
    BY <2>1
  <2>3. SubSeq(t, 1, n) = Above(t, n)
    BY <2>1, <2>2 DEF Above
  <2>. QED BY <2>1, <2>3
<1>3. \A n, m \in 0..Len(t) : m <= n => Above(Above(t, n), m) = Above(t, m)
  BY <1>1 DEF Above
<1>. QED BY <1>1, <1>2, <1>3

\* A branch's name hangs from its task's.
LEMMA AppendSpec ==
  ASSUME NEW S, NEW t \in Seq(S), NEW i \in S
  PROVE  /\ Append(t, i) \in Seq(S) /\ Len(Append(t, i)) = Len(t) + 1 /\ Append(t, i) # <<>> /\ Append(t, i) # t
         /\ Append(t, i)[Len(Append(t, i))] = i
         /\ \A n \in 0..Len(t) : Above(Append(t, i), n) = Above(t, n)
         /\ \A j \in S : Append(t, i) = Append(t, j) => i = j
<1>1. /\ Append(t, i) \in Seq(S) /\ Len(Append(t, i)) = Len(t) + 1 /\ Len(t) \in Nat
      /\ Append(t, i)[Len(t) + 1] = i /\ \A n \in 1..Len(t) : Append(t, i)[n] = t[n]
  OBVIOUS
<1>2. \A n \in 0..Len(t) : Above(Append(t, i), n) = Above(t, n)
  <2> SUFFICES ASSUME NEW n \in 0..Len(t) PROVE Above(Append(t, i), n) = Above(t, n)
    OBVIOUS
  <2>1. \A k \in 1..n : Append(t, i)[k] = t[k]
    BY <1>1
  <2>. QED BY <2>1 DEF Above
<1>3. ASSUME NEW j \in S, Append(t, i) = Append(t, j) PROVE i = j
  <2>1. Append(t, j)[Len(t) + 1] = j
    BY <1>1
  <2>. QED BY <1>1, <1>3, <2>1
<1>4. Append(t, i) # <<>> /\ Append(t, i) # t
  BY <1>1
<1>. QED BY <1>1, <1>2, <1>3, <1>4

\* A parallel has a thread for every branch, none of which there was before.
LEMMA ParallelSpec ==
  ASSUME GivenInv, BuffersInv, ThreadsInv, NEW t \in DOMAIN threads, Parallel(t)
  PROVE  /\ threads[t] # <<>> /\ top(t) \in Walks /\ top(t).at \in OfKind("parallel") /\ ~At(t, "await")
         /\ Correlated(top(t).rec) \in Records /\ Correlated(top(t).rec).corr \in 1..MaxUuids
         /\ Correlated(top(t).rec).from = top(t).rec.from
         /\ graph[top(t).at].targets \in Seq(Onward(top(t).at)) /\ Onward(top(t).at) \in SUBSET DOMAIN graph
         /\ uuids' \in 0..MaxUuids
         /\ DOMAIN threads' = DOMAIN threads \cup {Append(t, i) : i \in DOMAIN graph[top(t).at].targets}
         /\ threads'[t] = <<[op |-> "await"]>> \o Tail(threads[t])
         /\ \A u \in DOMAIN threads : u # t => threads'[u] = threads[u]
         /\ \A i \in DOMAIN graph[top(t).at].targets :
              /\ Append(t, i) \notin DOMAIN threads /\ Append(t, i) \in Seq(Tags) /\ i \in Tags
              /\ threads'[Append(t, i)] = <<WalkTo(Correlated(top(t).rec), graph[top(t).at].targets[i])>>
         /\ UNCHANGED <<runVars, bufferVars, stateVars, endVars>>
<1> DEFINE p == top(t).at
           r == Correlated(top(t).rec)
           targets == graph[p].targets
<1>1. Walking(t, "parallel") /\ At(t, "walk")
  BY DEF Parallel, Walking
<1>2. threads[t] # <<>> /\ top(t) \in Walks /\ p \in OfKind("parallel") /\ p \in DOMAIN graph /\ top(t).rec \in Records /\ ~At(t, "await")
  <2>1. threads[t] # <<>> /\ top(t) \in Walks
    BY <1>1, TopSpec DEF At
  <2>. QED BY <1>1, <2>1 DEF Walks, Walking, At, OfKind
<1>3. r \in Records /\ r.corr \in 1..MaxUuids /\ r.from = top(t).rec.from /\ uuids' \in 0..MaxUuids
  <2>1. top(t).rec.corr \in 0..MaxUuids /\ top(t).rec.from \in SUBSET ((DOMAIN graph) \X Nat) /\ uuids \in 0..MaxUuids /\ MaxUuids \in Nat
    BY <1>2, ControlAssumption DEF Records, BuffersInv
  <2>2. CASE top(t).rec.corr # 0
    BY <1>2, <2>1, <2>2 DEF Parallel, Correlated
  <2>3. CASE top(t).rec.corr = 0
    <3>1. uuids < MaxUuids /\ uuids' = uuids + 1
      BY <2>3 DEF Parallel, Fresh
    <3>2. r = Record(top(t).rec.from, uuids + 1)
      BY <2>3 DEF Correlated
    <3>. QED BY <2>1, <3>1, <3>2 DEF Record, Records
  <2>. QED BY <2>2, <2>3
<1>4. targets \in Seq(Onward(p)) /\ Onward(p) \in SUBSET DOMAIN graph
  BY <1>2, ControlGiven
<1>5. threads' = Spawned(t, r, targets) /\ UNCHANGED <<runVars, bufferVars, stateVars, endVars>>
  BY DEF Parallel
<1>6. t \in Seq(Tags) /\ t # <<>> /\ Len(t) \in Nat
  BY DEF ThreadsInv
<1> HIDE DEF r, targets, p
<1>7. ASSUME NEW i \in DOMAIN targets
      PROVE  Append(t, i) \notin DOMAIN threads /\ Append(t, i) \in Seq(Tags) /\ i \in Tags
  <2>1. i \in Nat
    BY <1>4
  <2>2. i \in Tags
    BY <2>1 DEF Tags
  <2>3. Append(t, i) \in Seq(Tags) /\ Len(Append(t, i)) = Len(t) + 1 /\ \A n \in 0..Len(t) : Above(Append(t, i), n) = Above(t, n)
    BY <1>6, <2>2, AppendSpec
  <2>4. ASSUME Append(t, i) \in DOMAIN threads PROVE FALSE
    <3>1. Len(t) \in 1..Len(Append(t, i)) - 1
      BY <1>6, <2>3
    <3>2. At(Above(Append(t, i), Len(t)), "await")
      BY <2>4, <3>1 DEF ThreadsInv
    <3>3. Above(Append(t, i), Len(t)) = t
      BY <1>6, <2>3, AboveSpec
    <3>. QED BY <1>2, <3>2, <3>3
  <2>. QED BY <2>2, <2>3, <2>4
<1>8. ASSUME NEW i \in DOMAIN targets PROVE threads'[Append(t, i)] = <<WalkTo(r, targets[i])>>
  <2>1. Append(t, i)[Len(Append(t, i))] = i /\ Append(t, i) # t
    BY <1>6, <1>7, AppendSpec
  <2>. QED BY <1>5, <1>7, <2>1 DEF Spawned
<1>9. DOMAIN threads' = DOMAIN threads \cup {Append(t, i) : i \in DOMAIN targets}
  BY <1>5 DEF Spawned
<1>10. threads'[t] = <<[op |-> "await"]>> \o Tail(threads[t]) /\ \A u \in DOMAIN threads : u # t => threads'[u] = threads[u]
  BY <1>5 DEF Spawned
<1>. QED BY <1>2, <1>3, <1>4, <1>5, <1>7, <1>8, <1>9, <1>10 DEF r, targets, p

\* The frames of a thread that waits for branches.
LEMMA AwaitsSpec ==
  ASSUME NEW rest \in Seq(Walks)
  PROVE  LET s == <<[op |-> "await"]>> \o rest IN
         /\ s \in Seq(Frames) /\ s # <<>> /\ Head(s) = [op |-> "await"] /\ s[1] = [op |-> "await"] /\ DOMAIN s = 1..Len(rest) + 1
         /\ \A k \in DOMAIN s : k # 1 => k - 1 \in DOMAIN rest /\ s[k] = rest[k - 1] /\ s[k] \in Walks
         /\ \A k \in DOMAIN rest : k + 1 \in DOMAIN s /\ s[k + 1] = rest[k]
<1> DEFINE a == <<[op |-> "await"]>>
           s == a \o rest
<1>1. a \in Seq(Frames) /\ Len(a) = 1 /\ a[1] = [op |-> "await"]
  BY DEF Frames, Marks
<1>2. rest \in Seq(Frames) /\ Len(rest) \in Nat /\ DOMAIN rest = 1..Len(rest)
  <2>1. Walks \in SUBSET Frames
    BY DEF Frames
  <2>. QED BY <2>1, SeqAlso
<1> HIDE DEF a
<1> DEFINE n == Len(rest)
<1>3. s \in Seq(Frames) /\ Len(s) = n + 1 /\ s[1] = a[1] /\ DOMAIN s = 1..n + 1 /\ \A k \in 1..n : s[k + 1] = rest[k]
  <2>1. /\ s \in Seq(Frames) /\ Len(s) = Len(a) + n /\ DOMAIN s = 1..Len(a) + n /\ n \in Nat
        /\ \A k \in 1..Len(a) : s[k] = a[k]
        /\ \A k \in 1..n : s[Len(a) + k] = rest[k]
    <3>1. a \in Seq(Frames) /\ rest \in Seq(Frames)
      BY <1>1, <1>2
    <3>. QED BY ONLY <3>1, ConcatSpec
  <2>. QED BY <1>1, <2>1
<1>4. \A k \in 1..Len(rest) : s[k + 1] = rest[k]
  BY <1>3
<1>5. s # <<>> /\ Head(s) = s[1]
  BY <1>2, <1>3
<1>6. ASSUME NEW k \in DOMAIN s, k # 1 PROVE k - 1 \in DOMAIN rest /\ s[k] = rest[k - 1] /\ s[k] \in Walks
  <2>1. k \in Int /\ k - 1 \in 1..Len(rest) /\ (k - 1) + 1 = k
    BY <1>2, <1>3, <1>6
  <2>. QED BY <1>2, <1>4, <2>1
<1>7. \A k \in DOMAIN rest : k + 1 \in DOMAIN s
  BY <1>2, <1>3
<1>. QED BY <1>1, <1>2, <1>3, <1>4, <1>5, <1>6, <1>7 DEF a

\* Threads stay well formed when branches are added.
LEMMA ParallelThreads ==
  ASSUME GivenInv, BuffersInv, ThreadsInv, NEW t \in DOMAIN threads, Parallel(t)
  PROVE  ThreadsInv'
<1> DEFINE p == top(t).at
           r == Correlated(top(t).rec)
           targets == graph[p].targets
           new == {Append(t, i) : i \in DOMAIN targets}
<1>1. /\ threads[t] # <<>> /\ top(t) \in Walks /\ p \in OfKind("parallel") /\ ~At(t, "await")
      /\ r \in Records /\ targets \in Seq(Onward(p)) /\ Onward(p) \in SUBSET DOMAIN graph
      /\ DOMAIN threads' = DOMAIN threads \cup new
      /\ threads'[t] = <<[op |-> "await"]>> \o Tail(threads[t])
      /\ \A u \in DOMAIN threads : u # t => threads'[u] = threads[u]
      /\ \A i \in DOMAIN targets :
           /\ Append(t, i) \notin DOMAIN threads /\ Append(t, i) \in Seq(Tags) /\ i \in Tags
           /\ threads'[Append(t, i)] = <<WalkTo(r, targets[i])>>
  BY ParallelSpec
<1>2. graph' = graph
  BY DEF Parallel, runVars
<1>3. Frames' = Frames /\ Walks' = Walks /\ Tags' = Tags
  BY <1>2, GraphKeeps
<1>4. t \in Seq(Tags) /\ t # <<>> /\ Len(t) \in Nat
  BY DEF ThreadsInv
<1>5. \A b \in new : \E i \in DOMAIN targets : b = Append(t, i)
  OBVIOUS
<1>6. IsFiniteSet(new)
  <2> DEFINE at == [i \in DOMAIN targets |-> Append(t, i)]
  <2>1. at \in Surjection(DOMAIN targets, new)
    BY DEF Surjection
  <2>2. IsFiniteSet(DOMAIN targets)
    <3>1. DOMAIN targets = 1..Len(targets) /\ 1 \in Int /\ Len(targets) \in Int
      BY <1>1
    <3>. QED BY <3>1, FS_Interval
  <2> HIDE DEF at, new, targets
  <2>. QED BY <2>1, <2>2, FS_Surjection
<1>7. /\ threads'[t] \in Seq(Frames) /\ threads'[t] # <<>> /\ Head(threads'[t]) = [op |-> "await"]
      /\ \A k \in DOMAIN threads'[t] : k # 1 => threads'[t][k] \in Walks
  BY <1>1, TopSpec, AwaitsSpec
<1> HIDE DEF new, r, targets
<1>8. IsFiniteSet(DOMAIN threads')
  BY <1>1, <1>6, FS_Union DEF ThreadsInv
<1>9. \A u \in DOMAIN threads' : u \in Seq(Tags) /\ u # <<>>
  <2>1. \A u \in DOMAIN threads : u \in Seq(Tags) /\ u # <<>>
    BY DEF ThreadsInv
  <2>2. \A i \in DOMAIN targets : Append(t, i) \in Seq(Tags) /\ Append(t, i) # <<>>
    BY <1>1, <1>4, AppendSpec
  <2>. QED BY <1>1, <1>5, <2>1, <2>2
<1>10. ASSUME NEW i \in DOMAIN targets
       PROVE  threads'[Append(t, i)] \in Seq(Frames) /\ \A k \in DOMAIN threads'[Append(t, i)] : k = 1
  <2>1. WalkTo(r, targets[i]) \in Frames
    BY <1>1 DEF WalkTo, Walks, Frames
  <2>2. threads'[Append(t, i)] = <<WalkTo(r, targets[i])>>
    BY <1>1
  <2> DEFINE w == WalkTo(r, targets[i])
  <2> HIDE DEF w
  <2>3. <<w>> \in Seq(Frames) /\ \A k \in DOMAIN <<w>> : k = 1
    BY <2>1 DEF w
  <2>. QED BY <2>2, <2>3 DEF w
<1>11. \A u \in DOMAIN threads' : threads'[u] \in Seq(Frames) /\ \A k \in DOMAIN threads'[u] : k # 1 => threads'[u][k] \in Walks
  <2> SUFFICES ASSUME NEW u \in DOMAIN threads'
               PROVE  threads'[u] \in Seq(Frames) /\ \A k \in DOMAIN threads'[u] : k # 1 => threads'[u][k] \in Walks
    OBVIOUS
  <2>1. CASE u = t
    BY <1>7, <2>1
  <2>2. CASE u # t /\ u \in DOMAIN threads
    BY <1>1, <2>2 DEF ThreadsInv
  <2>3. CASE u \in new
    BY <1>5, <1>10, <2>3
  <2>. QED BY <1>1, <2>1, <2>2, <2>3
<1>12. ASSUME NEW u \in DOMAIN threads, At(u, "await") PROVE u \in DOMAIN threads' /\ At(u, "await")'
  BY <1>1, <1>12 DEF At, top
<1>13. t \in DOMAIN threads' /\ At(t, "await")'
  BY <1>1, <1>7 DEF At, top
<1>14. ASSUME NEW u \in DOMAIN threads', NEW n \in 1..Len(u) - 1
       PROVE  Above(u, n) \in DOMAIN threads' /\ At(Above(u, n), "await")'
  <2>1. CASE u \in DOMAIN threads
    <3>1. Above(u, n) \in DOMAIN threads /\ At(Above(u, n), "await")
      BY <2>1 DEF ThreadsInv
    <3>2. PICK w : w = Above(u, n)
      OBVIOUS
    <3>3. w \in DOMAIN threads' /\ At(w, "await")'
      BY <1>12, <3>1, <3>2
    <3>. QED BY <3>2, <3>3
  <2>2. CASE u \in new
    <3>1. PICK i \in DOMAIN targets : u = Append(t, i)
      BY <1>5, <2>2
    <3>2. Len(u) = Len(t) + 1 /\ \A m \in 0..Len(t) : Above(u, m) = Above(t, m)
      BY <1>1, <1>4, <3>1, AppendSpec
    <3>3. n \in 1..Len(t) /\ Above(u, n) = Above(t, n)
      BY <1>4, <3>2
    <3>4. PICK w : w = Above(u, n)
      OBVIOUS
    <3>5. CASE n = Len(t)
      <4>1. w = t
        BY <1>4, <3>3, <3>4, <3>5, AboveSpec
      <4>. QED BY <1>13, <3>4, <4>1
    <3>6. CASE n # Len(t)
      <4>1. n \in 1..Len(t) - 1
        BY <1>4, <3>3, <3>6
      <4>2. w \in DOMAIN threads /\ At(w, "await")
        BY <3>3, <3>4, <4>1 DEF ThreadsInv
      <4>. QED BY <1>12, <3>4, <4>2
    <3>. QED BY <3>5, <3>6
  <2>. QED BY <1>1, <2>1, <2>2
<1>. QED BY <1>3, <1>8, <1>9, <1>11, <1>14 DEF ThreadsInv

\* When a parallel has been joined its branches are gone.
LEMMA JoinedSpec ==
  ASSUME ThreadsInv, NEW t \in DOMAIN threads, Joined(t)
  PROVE  /\ threads[t] # <<>> /\ top(t).op = "await" /\ UNCHANGED <<runVars, bufferVars, stateVars, endVars, uuids>>
         /\ t \notin Branches(t) /\ DOMAIN threads' = DOMAIN threads \ Branches(t)
         /\ \A u \in DOMAIN threads' : u # t => threads'[u] = threads[u]
         /\ \A b \in Branches(t) : b \in DOMAIN threads /\ Len(b) > Len(t) /\ Above(b, Len(t)) = t
         /\ \A b \in DOMAIN threads : Len(b) > Len(t) /\ Above(b, Len(t)) = t => b \in Branches(t)
         /\ \/ threads'[t] = Error
            \/ threads'[t] = Tail(threads[t]) /\ \A b \in Branches(t) : threads[b] = <<>>
<1>1. threads[t] # <<>> /\ top(t).op = "await" /\ UNCHANGED <<runVars, bufferVars, stateVars, endVars, uuids>>
  BY DEF Joined, At
<1>2. t \in Seq(Tags) /\ Len(t) \in Nat
  BY DEF ThreadsInv
<1>3. t \notin Branches(t)
  BY <1>2 DEF Branches
<1>4. DOMAIN Without(Branches(t)) = DOMAIN threads \ Branches(t) /\ \A u \in DOMAIN threads \ Branches(t) : Without(Branches(t))[u] = threads[u]
  BY DEF Without
<1>5. ASSUME NEW b \in DOMAIN threads, Len(b) > Len(t) PROVE SubSeq(b, 1, Len(t)) = Above(b, Len(t))
  <2>1. b \in Seq(Tags) /\ Len(t) \in 0..Len(b)
    BY <1>2, <1>5 DEF ThreadsInv
  <2>. QED BY <2>1, AboveSpec
<1>6. \A b \in Branches(t) : b \in DOMAIN threads /\ Len(b) > Len(t) /\ Above(b, Len(t)) = t
  BY <1>5 DEF Branches
<1>7. \A b \in DOMAIN threads : Len(b) > Len(t) /\ Above(b, Len(t)) = t => b \in Branches(t)
  BY <1>5 DEF Branches
<1>8. \E pile : threads' = [Without(Branches(t)) EXCEPT ![t] = pile]
        /\ \/ pile = Error
           \/ pile = Tail(threads[t]) /\ \A b \in Branches(t) : threads[b] = <<>>
  <2>1. Without(Branches(t))[t] = threads[t]
    BY <1>3, <1>4
  <2>. QED BY <2>1 DEF Joined
<1>. QED BY <1>1, <1>3, <1>4, <1>6, <1>7, <1>8

\* Threads stay well formed without them.
LEMMA JoinedThreads ==
  ASSUME ThreadsInv, NEW t \in DOMAIN threads, Joined(t)
  PROVE  ThreadsInv'
<1>1. /\ threads[t] # <<>> /\ top(t).op = "await" /\ t \notin Branches(t)
      /\ DOMAIN threads' = DOMAIN threads \ Branches(t)
      /\ \A u \in DOMAIN threads' : u # t => threads'[u] = threads[u]
      /\ \A b \in Branches(t) : b \in DOMAIN threads /\ Len(b) > Len(t) /\ Above(b, Len(t)) = t
      /\ \A b \in DOMAIN threads : Len(b) > Len(t) /\ Above(b, Len(t)) = t => b \in Branches(t)
      /\ threads'[t] = Error \/ threads'[t] = Tail(threads[t])
  BY JoinedSpec
<1>2. graph' = graph
  BY DEF Joined, runVars
<1>3. Frames' = Frames /\ Walks' = Walks /\ Tags' = Tags
  BY <1>2, GraphKeeps
<1>4. \A u \in DOMAIN threads : u \in Seq(Tags) /\ u # <<>> /\ Len(u) \in Nat
  BY DEF ThreadsInv
<1>5. IsFiniteSet(DOMAIN threads')
  BY <1>1, FS_Subset DEF ThreadsInv
<1>6. threads'[t] \in Seq(Frames) /\ \A k \in DOMAIN threads'[t] : k # 1 => threads'[t][k] \in Walks
  <2>1. CASE threads'[t] = Error
    <3>1. Error \in Seq(Frames) /\ \A k \in DOMAIN Error : k = 1
      BY DEF Error, Frames, Marks
    <3>. QED BY <2>1, <3>1
  <2>2. CASE threads'[t] = Tail(threads[t])
    <3>1. Tail(threads[t]) \in Seq(Walks) /\ Walks \in SUBSET Frames
      BY <1>1, TopSpec DEF Frames
    <3> DEFINE s == Tail(threads[t])
    <3> HIDE DEF s
    <3>2. s \in Seq(Frames) /\ \A k \in DOMAIN s : s[k] \in Walks
      BY <3>1, SeqAlso DEF s
    <3>. QED BY <2>2, <3>2 DEF s
  <2>. QED BY <1>1, <2>1, <2>2
<1>7. \A u \in DOMAIN threads' : threads'[u] \in Seq(Frames) /\ \A k \in DOMAIN threads'[u] : k # 1 => threads'[u][k] \in Walks
  <2> SUFFICES ASSUME NEW u \in DOMAIN threads'
               PROVE  threads'[u] \in Seq(Frames) /\ \A k \in DOMAIN threads'[u] : k # 1 => threads'[u][k] \in Walks
    OBVIOUS
  <2>1. CASE u = t
    BY <1>6, <2>1
  <2>2. CASE u # t
    BY <1>1, <2>2 DEF ThreadsInv
  <2>. QED BY <2>1, <2>2
<1>8. ASSUME NEW u \in DOMAIN threads', NEW n \in 1..Len(u) - 1
      PROVE  Above(u, n) \in DOMAIN threads' /\ At(Above(u, n), "await")'
  <2>1. PICK w : w = Above(u, n)
    OBVIOUS
  <2>2. u \in DOMAIN threads /\ u \notin Branches(t) /\ u \in Seq(Tags) /\ n \in 0..Len(u)
    BY <1>1, <1>4
  <2>3. w \in DOMAIN threads /\ At(w, "await")
    BY <2>1, <2>2 DEF ThreadsInv
  <2>4. Len(w) = n /\ \A m \in 0..Len(u) : m <= n => Above(w, m) = Above(u, m)
    BY <2>1, <2>2, AboveSpec
  <2>5. w # t
    <3>1. ASSUME w = t PROVE FALSE
      <4>1. n = Len(t) /\ Len(u) > Len(t)
        BY <1>4, <2>2, <2>4, <3>1
      <4>. QED BY <1>1, <2>1, <2>2, <3>1, <4>1
    <3>. QED BY <3>1
  <2>6. w \notin Branches(t)
    <3>1. ASSUME w \in Branches(t) PROVE FALSE
      <4>1. n > Len(t) /\ Above(w, Len(t)) = t /\ Len(t) \in Nat
        BY <1>1, <1>4, <2>4, <3>1
      <4>2. Len(t) \in 0..Len(u) /\ Len(t) <= n /\ Len(u) > Len(t)
        BY <1>4, <2>2, <4>1
      <4>3. Above(u, Len(t)) = t
        BY <2>4, <4>1, <4>2
      <4>. QED BY <1>1, <2>2, <4>2, <4>3
    <3>. QED BY <3>1
  <2>7. w \in DOMAIN threads' /\ threads'[w] = threads[w]
    BY <1>1, <2>3, <2>5, <2>6
  <2>8. At(w, "await")'
    BY <2>3, <2>7 DEF At, top
  <2>. QED BY <2>1, <2>7, <2>8
<1>9. \A u \in DOMAIN threads' : u \in Seq(Tags) /\ u # <<>>
  BY <1>1, <1>4
<1>. QED BY <1>3, <1>5, <1>7, <1>8, <1>9 DEF ThreadsInv

\* An update that is to be saved is the one that was made.
LEMMA SaveSpec ==
  ASSUME NEW f \in Updates
  PROVE  LET w == [f EXCEPT !.op = "save", !.seen = @ + 1] IN
         w \in Updates /\ w.op = "save" /\ w.at = f.at /\ w.rec = f.rec
<1> DEFINE w == [f EXCEPT !.op = "save", !.seen = @ + 1]
<1>1. f.rec \in Records /\ f.at \in OfKind("state") /\ f.seen + 1 \in Nat
  BY DEF Updates
<1>2. w = [f EXCEPT !.op = "save", !.seen = @ + 1]
  OBVIOUS
<1> HIDE DEF w
<1>3. w = [op |-> "save", rec |-> f.rec, at |-> f.at, seen |-> f.seen + 1]
  BY <1>2 DEF Updates
<1>4. w \in Updates
  BY <1>1, <1>3 DEF Updates
<1>. QED BY <1>3, <1>4 DEF w

\* Every kind of step of one thread works off a frame of it, or fails the task.
LEMMA KindWorks ==
  ASSUME GivenInv, BuffersInv, ThreadsInv, NEW t \in DOMAIN threads,
         \/ Passes(t) \/ Delivers(t) \/ apply_join(t) \/ apply_batch(t)
         \/ Reads(t) \/ update_state(t) \/ SaveState(t) \/ Checkpoint(t)
  PROVE  (\E frames : Works(t, frames)) /\ UNCHANGED runVars
<1>1. CASE Passes(t)
  <2>1. threads[t] # <<>> /\ top(t).op \in Placed /\ UNCHANGED runVars
    BY <1>1 DEF Passes, At, Placed
  <2>2. PICK frames : Goes(top(t).rec, top(t).at, frames) /\ Push(frames, t)
    BY <1>1 DEF Passes, WalkOn
  <2>. QED BY <2>1, <2>2, GoesWorks
<1>2. CASE Delivers(t)
  <2>1. threads[t] # <<>> /\ top(t).op \in Placed \cup {"checkpoint"} /\ UNCHANGED runVars
    BY <1>2 DEF Delivers, Walking, At, Placed
  <2>2. PICK frames \in {<<>>} \cup {<<c>> : c \in Checkpoints} : Push(frames, t)
    BY <1>2 DEF Delivers
  <2>3. \/ frames = <<>>
        \/ \E c \in Frames : frames = <<c>> /\ c.op = "checkpoint"
    BY <2>2 DEF Frames, Checkpoints
  <2>. QED BY <2>1, <2>2, <2>3, OneWorks DEF Placed
<1>4. CASE apply_join(t)
  <2>1. PICK id, corr, group : JoinGoes(t, id, corr, group) \/ JoinKeeps(t, id, corr, group)
    BY <1>4, JoinKinds
  <2>2. JoinComes(t, id, corr, group)
    BY <2>1 DEF JoinGoes, JoinKeeps
  <2>3. threads[t] # <<>> /\ top(t).op \in Placed /\ UNCHANGED runVars /\ id = top(t).at
    BY <2>2 DEF JoinComes, Walking, At, Placed
  <2>4. CASE JoinGoes(t, id, corr, group)
    <3>1. PICK frames : Goes(Merged(group), id, frames) /\ Push(frames, t)
      BY <2>4 DEF JoinGoes, WalkOn
    <3>. QED BY <2>3, <3>1, GoesWorks
  <2>5. CASE JoinKeeps(t, id, corr, group)
    <3>1. Push(<<>>, t)
      BY <2>5 DEF JoinKeeps
    <3>. QED BY <2>3, <3>1, OneWorks
  <2>. QED BY <2>1, <2>4, <2>5
<1>5. CASE apply_batch(t)
  <2>1. PICK id, records : BatchGoes(t, id, records) \/ BatchKeeps(t, id, records)
    BY <1>5, BatchKinds
  <2>2. BatchComes(t, id, records)
    BY <2>1 DEF BatchGoes, BatchKeeps
  <2>3. threads[t] # <<>> /\ top(t).op \in Placed /\ UNCHANGED runVars /\ id = top(t).at
    BY <2>2 DEF BatchComes, Walking, At, Placed
  <2>4. CASE BatchGoes(t, id, records)
    <3>1. PICK frames : Goes(Emitted(records), id, frames) /\ Push(frames, t)
      BY <2>4 DEF BatchGoes, WalkOn
    <3>. QED BY <2>3, <3>1, GoesWorks
  <2>5. CASE BatchKeeps(t, id, records)
    <3>1. Push(<<>>, t)
      BY <2>5 DEF BatchKeeps
    <3>. QED BY <2>3, <3>1, OneWorks
  <2>. QED BY <2>1, <2>4, <2>5
<1>6. CASE Reads(t)
  <2>1. threads[t] # <<>> /\ top(t).op \in Placed /\ UNCHANGED runVars /\ top(t) \in Walks /\ top(t).at \in OfKind("state")
    <3>1. threads[t] # <<>> /\ top(t).op = "walk" /\ graph[top(t).at].kind = "state" /\ UNCHANGED runVars
      BY <1>6 DEF Reads, Walking, At
    <3>2. top(t) \in Walks
      BY <3>1, TopSpec
    <3>. QED BY <3>1, <3>2 DEF Walks, OfKind, Placed
  <2> DEFINE w == [op |-> "write", rec |-> top(t).rec, at |-> top(t).at, seen |-> states[top(t).at]]
  <2>2. w \in Frames /\ w.at = top(t).at
    <3>1. top(t).rec \in Records /\ states[top(t).at] \in Nat
      BY <2>1 DEF Walks, BuffersInv
    <3>. QED BY <2>1, <3>1 DEF Updates, Frames
  <2>3. Push(<<w>>, t)
    BY <1>6 DEF Reads
  <2> HIDE DEF w
  <2>. QED BY <1>6, <2>1, <2>2, <2>3, OneWorks
<1>7. CASE update_state(t)
  <2>1. threads[t] # <<>> /\ top(t).op = "write" /\ top(t).op \in Placed /\ UNCHANGED runVars
    BY <1>7 DEF update_state, At, Placed
  <2> DEFINE w == [top(t) EXCEPT !.op = "save", !.seen = @ + 1]
  <2>2. w \in Frames /\ w.at = top(t).at /\ w.op = "save"
    <3>1. top(t) \in Updates
      BY <2>1, TopSpec
    <3>. QED BY <3>1, SaveSpec DEF Frames
  <2>3. Push(<<w>>, t)
    BY <1>7 DEF update_state
  <2> HIDE DEF w
  <2>. QED BY <2>1, <2>2, <2>3, OneWorks
<1>8. CASE SaveState(t)
  <2>1. threads[t] # <<>> /\ top(t).op = "save" /\ top(t).op \in Placed /\ UNCHANGED runVars
    BY <1>8 DEF SaveState, At, Placed
  <2>2. PICK frames \in route(top(t).rec, top(t).at) : WalkOn(t, top(t).rec, frames)
    BY <1>8 DEF SaveState
  <2>3. top(t).rec \in Records /\ top(t).at \in DOMAIN graph
    <3>1. top(t) \in Updates
      BY <2>1, TopSpec
    <3>. QED BY <3>1 DEF Updates, OfKind
  <2>4. Goes(top(t).rec, top(t).at, frames) /\ Push(frames, t)
    BY <2>2, <2>3, RouteGoes DEF WalkOn
  <2>. QED BY <2>1, <2>4, GoesWorks
<1>9. CASE Checkpoint(t)
  <2>1. threads[t] # <<>> /\ top(t).op \in Placed \cup {"checkpoint"} /\ UNCHANGED runVars /\ Push(<<>>, t)
    BY <1>9 DEF Checkpoint, At, Placed
  <2>. QED BY <2>1, OneWorks
<1>. QED BY <1>1, <1>2, <1>4, <1>5, <1>6, <1>7, <1>8, <1>9

\* So it moves the thread.
LEMMA KindMoves ==
  ASSUME GivenInv, BuffersInv, ThreadsInv, NEW t \in DOMAIN threads,
         \/ Passes(t) \/ Delivers(t) \/ Fails(t) \/ apply_join(t) \/ apply_batch(t)
         \/ Reads(t) \/ update_state(t) \/ SaveState(t) \/ Checkpoint(t)
  PROVE  /\ \E pile : Moves(t, pile) /\ (Reads(t) \/ Writes(pile) = {})
         /\ UNCHANGED runVars
<1>1. CASE Fails(t)
  <2>1. ~At(t, "await") /\ threads' = [threads EXCEPT ![t] = Error] /\ UNCHANGED runVars
    BY <1>1 DEF Fails, At
  <2>2. Error \in Seq(Frames) /\ \A k \in DOMAIN Error : k = 1
    BY DEF Error, Frames, Marks
  <2>3. Writes(Error) = {}
    BY DEF Error, Writes
  <2>. QED BY <2>1, <2>2, <2>3 DEF Moves
<1>2. CASE ~Fails(t)
  BY <1>2, KindWorks, WorksMoves
<1>. QED BY <1>1, <1>2

\* A thread that is idle takes up what a source yields.
LEMMA SourceMoves ==
  ASSUME GivenInv, BuffersInv, ThreadsInv, TasksInv, NEW s \in DOMAIN pulled, run_source(s)
  PROVE  /\ <<s>> \in DOMAIN threads /\ threads[<<s>>] = <<>> /\ s \in DOMAIN graph /\ graph[s].kind = "source"
         /\ Record({<<s, pulled[s] + 1>>}, 0) \in Records
         /\ \/ /\ Moves(<<s>>, <<WalkTo(Record({<<s, pulled[s] + 1>>}, 0), s)>>) /\ UNCHANGED endVars
            \/ UNCHANGED <<threads, strayed>> /\ ended' = ended \cup {<<s, pulled[s] + 1>>}
         /\ pulled' = [pulled EXCEPT ![s] = @ + 1] /\ phase = "running"
         /\ UNCHANGED <<config, graph, phase, unflushed, bufferVars, stateVars, uuids>>
<1>1. phase = "running" /\ threads[<<s>>] = <<>> /\ pulled' = [pulled EXCEPT ![s] = @ + 1]
      /\ UNCHANGED <<config, graph, phase, unflushed, bufferVars, stateVars, uuids>>
  BY DEF run_source
<1>2. PICK i \in DOMAIN config.roots : s = config.roots[i]
  BY DEF BuffersInv, ToSet
<1>3. <<s>> \in DOMAIN threads /\ s \in DOMAIN graph /\ graph[s].kind = "source"
  <2>1. \A j \in DOMAIN config.roots : config.roots[j] \in DOMAIN graph /\ graph[config.roots[j]].kind = "source"
    BY ControlGiven
  <2>2. <<config.roots[i]>> \in DOMAIN threads
    BY <1>1, <1>2 DEF TasksInv
  <2>. QED BY <1>2, <2>1, <2>2
<1>4. Record({<<s, pulled[s] + 1>>}, 0) \in Records
  <2>1. pulled[s] + 1 \in Nat /\ 0 \in 0..MaxUuids
    BY ControlAssumption DEF BuffersInv
  <2>. QED BY <1>3, <2>1 DEF Record, Records
<1> DEFINE r == Record({<<s, pulled[s] + 1>>}, 0)
<1>5. WalkTo(r, s) \in Frames
  BY <1>3, <1>4 DEF WalkTo, Walks, Frames
<1>6. \/ threads' = [threads EXCEPT ![<<s>>] = <<WalkTo(r, s)>>] /\ UNCHANGED endVars
      \/ ended' = ended \cup {<<s, pulled[s] + 1>>} /\ UNCHANGED <<threads, strayed>>
  BY DEF run_source
<1> HIDE DEF r
<1>7. <<WalkTo(r, s)>> \in Seq(Frames) /\ \A k \in DOMAIN <<WalkTo(r, s)>> : k = 1
  BY <1>5
<1>8. threads' = [threads EXCEPT ![<<s>>] = <<WalkTo(r, s)>>] => Moves(<<s>>, <<WalkTo(r, s)>>)
  BY <1>1, <1>3, <1>7 DEF Moves, At
<1>. QED BY <1>1, <1>3, <1>4, <1>6, <1>8 DEF r

\* The flush thread, when it is idle, takes up what a batch held.
LEMMA FlushMoves ==
  ASSUME GivenInv, BuffersInv, ThreadsInv, TasksInv, flush_batches
  PROVE  \E id \in unflushed :
           /\ phase = "flushing" /\ threads[<<"flush">>] = <<>> /\ id \in OfKind("batch") /\ batches[id].records \in Seq(Records)
           /\ unflushed' = unflushed \ {id} /\ batches' = [batches EXCEPT ![id].records = <<>>]
           /\ emitted' = [emitted EXCEPT ![id] = @ + Len(batches[id].records)]
           /\ UNCHANGED <<config, graph, pulled, phase, groups, arrived, stateVars, uuids, strayed>>
           /\ \/ batches[id].records = <<>> /\ UNCHANGED <<threads, ended>>
              \/ /\ batches[id].records # <<>> /\ Emitted(batches[id].records) \in Records
                 /\ \E frames :
                      /\ Goes(Emitted(batches[id].records), id, frames) /\ Moves(<<"flush">>, frames)
                      /\ ended' = IF frames = <<>> THEN ended \cup Emitted(batches[id].records).from ELSE ended
<1>1. PICK id \in unflushed :
       LET records == batches[id].records IN
       /\ unflushed' = unflushed \ {id}
       /\ batches' = [batches EXCEPT ![id].records = <<>>]
       /\ emitted' = [emitted EXCEPT ![id] = @ + Len(records)]
       /\ IF records = <<>> THEN UNCHANGED <<threads, endVars>>
          ELSE \E frames \in route(Emitted(records), id) :
                 /\ threads' = [threads EXCEPT ![<<"flush">>] = frames]
                 /\ ended' = IF frames = <<>> THEN ended \cup Emitted(records).from ELSE ended
                 /\ UNCHANGED strayed
  BY DEF flush_batches
<1>2. phase = "flushing" /\ threads[<<"flush">>] = <<>>
      /\ UNCHANGED <<config, graph, pulled, phase, groups, arrived, stateVars, uuids>>
  BY DEF flush_batches
<1>3. id \in OfKind("batch") /\ id \in DOMAIN graph
  BY DEF BuffersInv, OfKind
<1>4. batches[id].records \in Seq(Records)
  BY <1>3 DEF BuffersInv
<1>5. <<"flush">> \in DOMAIN threads
  BY <1>2 DEF TasksInv
<1> DEFINE records == batches[id].records
<1>6. CASE records = <<>>
  BY <1>1, <1>2, <1>3, <1>4, <1>6 DEF endVars
<1>7. CASE records # <<>>
  <2>1. PICK frames \in route(Emitted(records), id) :
          /\ threads' = [threads EXCEPT ![<<"flush">>] = frames]
          /\ ended' = IF frames = <<>> THEN ended \cup Emitted(records).from ELSE ended
          /\ UNCHANGED strayed
    BY <1>1, <1>7
  <2>2. Emitted(records) \in Records
    BY <1>4, <1>7, MergedSpec
  <2>3. Goes(Emitted(records), id, frames)
    BY <1>3, <2>2, RouteGoes
  <2>4. Moves(<<"flush">>, frames)
    <3>1. frames \in Seq(Walks) /\ Walks \in SUBSET Frames
      BY <2>3 DEF Goes, Frames
    <3>2. frames \in Seq(Frames) /\ \A k \in DOMAIN frames : frames[k] \in Walks
      BY <3>1, SeqAlso
    <3>. QED BY <1>2, <1>5, <2>1, <3>2 DEF Moves, At
  <2> HIDE DEF records
  <2>5. \E f : /\ Goes(Emitted(records), id, f) /\ Moves(<<"flush">>, f)
               /\ ended' = IF f = <<>> THEN ended \cup Emitted(records).from ELSE ended
    BY <2>1, <2>3, <2>4
  <2>. QED BY <1>1, <1>2, <1>3, <1>4, <1>7, <2>1, <2>2, <2>5 DEF records
<1>. QED BY <1>6, <1>7

\* When the tasks are idle, every thread is.
LEMMA AllIdle ==
  ASSUME ThreadsInv, TasksInv,
         \/ phase = "running" /\ \A i \in DOMAIN config.roots : threads[<<config.roots[i]>>] = <<>>
         \/ phase = "flushing" /\ threads[<<"flush">>] = <<>>
  PROVE  \A t \in DOMAIN threads : threads[t] = <<>> /\ Len(t) = 1
<1> SUFFICES ASSUME NEW t \in DOMAIN threads PROVE threads[t] = <<>> /\ Len(t) = 1
  OBVIOUS
<1>1. t \in Seq(Tags) /\ t # <<>> /\ Len(t) \in Nat /\ Len(t) # 0
  BY DEF ThreadsInv
<1>2. ASSUME NEW u \in DOMAIN threads, Len(u) = 1 PROVE threads[u] = <<>>
  BY <1>2 DEF TasksInv
<1>3. ASSUME Len(t) # 1 PROVE FALSE
  <2>1. 1 \in 1..Len(t) - 1 /\ 1 \in 0..Len(t)
    BY <1>1, <1>3
  <2>2. Above(t, 1) \in DOMAIN threads /\ At(Above(t, 1), "await")
    BY <2>1 DEF ThreadsInv
  <2>3. Len(Above(t, 1)) = 1
    BY <1>1, <2>1, AboveSpec
  <2>. QED BY <1>2, <2>2, <2>3 DEF At
<1>. QED BY <1>2, <1>3

-----------------------------------------------------------------------------
(* Every step keeps the graph, the shape of the threads and the kinds of what buffers hold. *)

\* The steps that a thread takes.
WalkStep(t) ==
  \/ Passes(t) \/ Delivers(t) \/ Fails(t) \/ Parallel(t) \/ Joined(t) \/ apply_join(t) \/ apply_batch(t)
  \/ Reads(t) \/ update_state(t) \/ SaveState(t) \/ Checkpoint(t)

\* The kinds of steps of a run.
LEMMA NextKinds ==
  ASSUME GivenInv, BuffersInv, ThreadsInv, [Next]_vars
  PROVE  \/ \E t \in DOMAIN threads : phase \in {"running", "flushing"} /\ WalkStep(t)
         \/ \E s \in DOMAIN pulled : run_source(s)
         \/ RunFails \/ flush_all \/ flush_batches \/ FlushEnds \/ FlushFails
         \/ UNCHANGED vars
<1>1. CASE phase \in {"running", "flushing"} /\ \E t \in DOMAIN threads : walk(t)
  BY <1>1, WalkKinds DEF WalkStep
<1>. QED BY <1>1 DEF Next

\* Threads and tasks after a step of one thread.
LEMMA WalkThreads ==
  ASSUME GivenInv, BuffersInv, ThreadsInv, TasksInv, NEW t \in DOMAIN threads, WalkStep(t), phase \in {"running", "flushing"}
  PROVE  UNCHANGED runVars /\ ThreadsInv' /\ TasksInv'
<1>1. CASE Parallel(t)
  <2>1. UNCHANGED runVars /\ ThreadsInv'
    BY <1>1, ParallelSpec, ParallelThreads
  <2>2. /\ DOMAIN threads' = DOMAIN threads \cup {Append(t, i) : i \in DOMAIN graph[top(t).at].targets}
        /\ \A i \in DOMAIN graph[top(t).at].targets : i \in Tags
    BY <1>1, ParallelSpec
  <2>3. t \in Seq(Tags) /\ t # <<>> /\ Len(t) \in Nat /\ Len(t) # 0
    BY DEF ThreadsInv
  <2>4. \A u \in DOMAIN threads' : u \in DOMAIN threads \/ Len(u) # 1
    <3> SUFFICES ASSUME NEW u \in DOMAIN threads', u \notin DOMAIN threads PROVE Len(u) # 1
      OBVIOUS
    <3>1. PICK i \in DOMAIN graph[top(t).at].targets : u = Append(t, i)
      BY <2>2
    <3>2. Len(u) = Len(t) + 1
      BY <2>2, <2>3, <3>1, AppendSpec
    <3>. QED BY <2>3, <3>2
  <2>. QED BY <2>1, <2>2, <2>4 DEF TasksInv, runVars
<1>2. CASE Joined(t)
  <2>1. UNCHANGED runVars /\ ThreadsInv'
    BY <1>2, JoinedSpec, JoinedThreads
  <2>2. /\ DOMAIN threads' = DOMAIN threads \ Branches(t)
        /\ \A b \in Branches(t) : b \in DOMAIN threads /\ Len(b) > Len(t)
    BY <1>2, JoinedSpec
  <2>3. \A u \in DOMAIN threads : Len(u) \in Nat /\ Len(u) # 0
    BY DEF ThreadsInv
  <2>4. \A b \in Branches(t) : Len(b) # 1
    <3> SUFFICES ASSUME NEW b \in Branches(t) PROVE Len(b) # 1
      OBVIOUS
    <3>1. b \in DOMAIN threads /\ Len(b) > Len(t)
      BY <2>2
    <3>2. Len(b) \in Nat
      BY <2>3, <3>1
    <3>3. Len(t) \in Nat /\ Len(t) # 0
      BY <2>3
    <3> DEFINE n == Len(b)
               m == Len(t)
    <3> HIDE DEF n, m
    <3>4. n \in Nat /\ m \in Nat /\ m # 0 /\ n > m
      BY <3>1, <3>2, <3>3 DEF n, m
    <3>5. n # 1
      BY <3>4
    <3>. QED BY <3>5 DEF n
  <2>5. \A i \in DOMAIN config.roots : <<config.roots[i]>> \notin Branches(t)
    BY <2>4
  <2>6. <<"flush">> \notin Branches(t)
    BY <2>4
  <2>. QED BY <2>1, <2>2, <2>5, <2>6 DEF TasksInv, runVars
<1>3. CASE ~Parallel(t) /\ ~Joined(t)
  <2>1. (\E pile : Moves(t, pile)) /\ UNCHANGED runVars
    BY <1>3, KindMoves DEF WalkStep
  <2>2. ThreadsInv' /\ DOMAIN threads' = DOMAIN threads
    BY <2>1, MovesThreads DEF runVars
  <2>. QED BY <2>1, <2>2 DEF TasksInv, runVars
<1>. QED BY <1>1, <1>2, <1>3

\* The same for a step of the run.
LEMMA RunThreads ==
  ASSUME GivenInv, BuffersInv, ThreadsInv, TasksInv, [Next]_vars
  PROVE  config' = config /\ graph' = graph /\ ThreadsInv' /\ TasksInv'
<1>1. ASSUME UNCHANGED <<config, graph, threads>> PROVE ThreadsInv' /\ (UNCHANGED phase => TasksInv')
  <2>1. Frames' = Frames /\ Walks' = Walks /\ Tags' = Tags
    BY <1>1, GraphKeeps
  <2>2. \A t \in DOMAIN threads : top(t)' = top(t)
    BY <1>1 DEF top
  <2>3. ASSUME NEW t \in DOMAIN threads, NEW n \in 1..Len(t) - 1 PROVE Above(t, n) \in DOMAIN threads' /\ At(Above(t, n), "await")'
    <3>1. PICK w : w = Above(t, n)
      OBVIOUS
    <3>2. w \in DOMAIN threads /\ At(w, "await")
      BY <3>1 DEF ThreadsInv
    <3>3. At(w, "await")'
      BY <1>1, <2>2, <3>2 DEF At
    <3>. QED BY <1>1, <3>1, <3>2, <3>3
  <2>. QED BY <1>1, <2>1, <2>3 DEF ThreadsInv, TasksInv
<1>2. CASE \E t \in DOMAIN threads : phase \in {"running", "flushing"} /\ WalkStep(t)
  BY <1>2, WalkThreads DEF runVars
<1>3. CASE \E s \in DOMAIN pulled : run_source(s)
  <2>1. PICK s \in DOMAIN pulled : run_source(s)
    BY <1>3
  <2>2. UNCHANGED <<config, graph, phase>> /\ (UNCHANGED threads \/ \E pile : Moves(<<s>>, pile))
    BY <2>1, SourceMoves
  <2>3. CASE UNCHANGED threads
    BY <1>1, <2>2, <2>3
  <2>4. CASE \E pile : Moves(<<s>>, pile)
    <3>1. ThreadsInv' /\ DOMAIN threads' = DOMAIN threads
      BY <2>2, <2>4, MovesThreads
    <3>. QED BY <2>1, <2>2, <3>1 DEF TasksInv, run_source
  <2>. QED BY <2>2, <2>3, <2>4
<1>4. CASE RunFails
  BY <1>1, <1>4 DEF RunFails, TasksInv
<1>5. CASE flush_all
  <2>1. threads' = [t \in {<<"flush">>} |-> <<>>] /\ phase' = "flushing" /\ UNCHANGED <<config, graph>>
    BY <1>5 DEF flush_all
  <2>2. DOMAIN threads' = {<<"flush">>} /\ threads'[<<"flush">>] = <<>>
    BY <2>1
  <2>3. IsFiniteSet(DOMAIN threads')
    BY <2>2, FS_Singleton
  <2>4. <<"flush">> \in Seq(Tags') /\ <<"flush">> # <<>> /\ Len(<<"flush">>) = 1
    <3>1. "flush" \in Tags'
      BY DEF Tags
    <3>. QED BY <3>1
  <2>5. \A u \in DOMAIN threads' : threads'[u] \in Seq(Frames') /\ \A k \in DOMAIN threads'[u] : k # 1 => threads'[u][k] \in Walks'
    <3>1. \A S : <<>> \in Seq(S) /\ DOMAIN <<>> = {}
      OBVIOUS
    <3>. QED BY <2>2, <3>1
  <2>6. \A u \in DOMAIN threads' : \A n \in 1..Len(u) - 1 : Above(u, n) \in DOMAIN threads' /\ At(Above(u, n), "await")'
    <3>1. \A u \in DOMAIN threads' : Len(u) = 1
      BY <2>2, <2>4
    <3>2. 1..1 - 1 = {}
      OBVIOUS
    <3>. QED BY <3>1, <3>2
  <2>7. ThreadsInv'
    BY <2>2, <2>3, <2>4, <2>5, <2>6 DEF ThreadsInv
  <2>. QED BY <2>1, <2>2, <2>7 DEF TasksInv
<1>6. CASE flush_batches
  <2>1. UNCHANGED <<config, graph, phase>> /\ phase = "flushing" /\ (UNCHANGED threads \/ \E pile : Moves(<<"flush">>, pile))
    BY <1>6, FlushMoves
  <2>2. CASE UNCHANGED threads
    BY <1>1, <2>1, <2>2
  <2>3. CASE \E pile : Moves(<<"flush">>, pile)
    <3>1. ThreadsInv' /\ DOMAIN threads' = DOMAIN threads
      BY <2>1, <2>3, MovesThreads
    <3>. QED BY <2>1, <3>1 DEF TasksInv
  <2>. QED BY <2>1, <2>2, <2>3
<1>7. CASE FlushEnds
  <2>1. phase = "flushing" /\ threads[<<"flush">>] = <<>> /\ phase' = "finished" /\ UNCHANGED <<config, graph, threads>>
    BY <1>7 DEF FlushEnds
  <2>2. \A t \in DOMAIN threads : threads[t] = <<>>
    BY <2>1, AllIdle
  <2>. QED BY <1>1, <2>1, <2>2 DEF TasksInv
<1>8. CASE FlushFails
  BY <1>1, <1>8 DEF FlushFails, TasksInv
<1>9. CASE UNCHANGED vars
  BY <1>1, <1>9 DEF vars, runVars
<1>. QED BY <1>2, <1>3, <1>4, <1>5, <1>6, <1>7, <1>8, <1>9, NextKinds

\* Saves change nothing of a state but what the store has of it.
LEMMA SavesSpec ==
  ASSUME NEW values, SavesAll(values)
  PROVE  DOMAIN stored' = DOMAIN stored \/ stored' = stored
BY DEF SavesAll

\* What buffers, states and counters hold after a step of one thread.
LEMMA WalkBuffers ==
  ASSUME GivenInv, BuffersInv, ThreadsInv, NEW t \in DOMAIN threads, WalkStep(t)
  PROVE  BuffersInv'
<1>1. graph' = graph /\ UNCHANGED runVars
  <2>1. CASE Parallel(t)
    BY <2>1, ParallelSpec DEF runVars
  <2>2. CASE Joined(t)
    BY <2>2, JoinedSpec DEF runVars
  <2>3. CASE ~Parallel(t) /\ ~Joined(t)
    BY <2>3, KindMoves DEF WalkStep, runVars
  <2>. QED BY <2>1, <2>2, <2>3
<1>2. /\ Records' = Records /\ OfKind("join")' = OfKind("join") /\ OfKind("batch")' = OfKind("batch")
      /\ OfKind("state")' = OfKind("state")
  BY <1>1, GraphKeeps
<1>3. ASSUME UNCHANGED bufferVars, uuids' \in 0..MaxUuids, states' \in [OfKind("state") -> Nat], updates' \in [OfKind("state") -> Nat],
             DOMAIN stored' = OfKind("state"), raced' \in BOOLEAN
      PROVE  BuffersInv'
  BY <1>1, <1>2, <1>3 DEF BuffersInv, runVars, bufferVars
<1>4. CASE Passes(t) \/ Fails(t) \/ Joined(t)
  BY <1>3, <1>4, JoinedSpec DEF Passes, Fails, BuffersInv, stateVars
<1>5. CASE Delivers(t)
  BY <1>3, <1>5 DEF Delivers, BuffersInv
<1>6. CASE Parallel(t)
  BY <1>3, <1>6, ParallelSpec DEF BuffersInv, stateVars
<1>7. CASE apply_join(t)
  <2>1. PICK id, corr, group : JoinGoes(t, id, corr, group) \/ JoinKeeps(t, id, corr, group)
    BY <1>7, JoinKinds
  <2>2. /\ id \in OfKind("join") /\ corr \in 1..MaxUuids /\ group \in Seq(Records) /\ uuids' \in 0..MaxUuids
        /\ arrived' = [arrived EXCEPT ![id] = @ + 1] /\ UNCHANGED <<batches, stateVars>>
    BY <2>1 DEF JoinGoes, JoinKeeps, JoinComes
  <2>3. groups' = [groups EXCEPT ![id][corr] = <<>>] \/ groups' = [groups EXCEPT ![id][corr] = group]
    BY <2>1 DEF JoinGoes, JoinKeeps
  <2>4. emitted' = emitted \/ emitted' = [emitted EXCEPT ![id] = @ + Len(group)]
    BY <2>1 DEF JoinGoes, JoinKeeps
  <2>5. groups' \in [OfKind("join") -> [1..MaxUuids -> Seq(Records)]]
    <3>0. <<>> \in Seq(Records)
      OBVIOUS
    <3>1. PICK g \in Seq(Records) : groups' = [groups EXCEPT ![id][corr] = g]
      BY <2>2, <2>3, <3>0
    <3>2. groups \in [OfKind("join") -> [1..MaxUuids -> Seq(Records)]]
      BY DEF BuffersInv
    <3>. QED BY <2>2, <3>1, <3>2
  <2>6. emitted' \in [OfKind("join") \cup OfKind("batch") -> Nat]
    <3>1. emitted \in [OfKind("join") \cup OfKind("batch") -> Nat] /\ Len(group) \in Nat
      BY <2>2 DEF BuffersInv
    <3>. QED BY <2>2, <2>4, <3>1
  <2>7. arrived' \in [OfKind("join") \cup OfKind("batch") -> Nat]
    BY <2>2 DEF BuffersInv
  <2>. QED BY <1>1, <1>2, <2>2, <2>5, <2>6, <2>7 DEF BuffersInv, runVars, stateVars
<1>8. CASE apply_batch(t)
  <2>1. PICK id, records : BatchGoes(t, id, records) \/ BatchKeeps(t, id, records)
    BY <1>8, BatchKinds
  <2>2. /\ id \in OfKind("batch") /\ records \in Seq(Records)
        /\ arrived' = [arrived EXCEPT ![id] = @ + 1] /\ UNCHANGED <<groups, stateVars, uuids>>
    BY <2>1 DEF BatchGoes, BatchKeeps, BatchComes
  <2>3. \/ batches' = [batches EXCEPT ![id] = EmptyBatch]
        \/ batches' = [batches EXCEPT ![id] = [records |-> records, since |-> TRUE]]
    BY <2>1 DEF BatchGoes, BatchKeeps
  <2>4. emitted' = emitted \/ emitted' = [emitted EXCEPT ![id] = @ + Len(records)]
    BY <2>1 DEF BatchGoes, BatchKeeps
  <2>5. batches' \in [OfKind("batch") -> [records : Seq(Records), since : BOOLEAN]]
    <3>1. EmptyBatch \in [records : Seq(Records), since : BOOLEAN] /\ [records |-> records, since |-> TRUE] \in [records : Seq(Records), since : BOOLEAN]
      BY <2>2 DEF EmptyBatch
    <3>2. batches \in [OfKind("batch") -> [records : Seq(Records), since : BOOLEAN]]
      BY DEF BuffersInv
    <3>. QED BY <2>2, <2>3, <3>1, <3>2
  <2>6. emitted' \in [OfKind("join") \cup OfKind("batch") -> Nat]
    <3>1. emitted \in [OfKind("join") \cup OfKind("batch") -> Nat] /\ Len(records) \in Nat
      BY <2>2 DEF BuffersInv
    <3>. QED BY <2>2, <2>4, <3>1
  <2>7. arrived' \in [OfKind("join") \cup OfKind("batch") -> Nat]
    BY <2>2 DEF BuffersInv
  <2>. QED BY <1>1, <1>2, <2>2, <2>5, <2>6, <2>7 DEF BuffersInv, runVars, stateVars
<1>9. CASE Reads(t)
  <2>1. raced' \in BOOLEAN
    BY <1>9 DEF Reads
  <2>. QED BY <1>3, <1>9, <2>1 DEF Reads, BuffersInv
<1>10. CASE update_state(t)
  <2>1. top(t) \in Updates
    BY <1>10, TopSpec DEF update_state, At
  <2>2. top(t).at \in OfKind("state") /\ top(t).seen + 1 \in Nat
    BY <2>1 DEF Updates
  <2>3. states' \in [OfKind("state") -> Nat] /\ updates' \in [OfKind("state") -> Nat]
    BY <1>10, <2>2 DEF update_state, BuffersInv
  <2>. QED BY <1>3, <1>10, <2>3 DEF update_state, BuffersInv
<1>11. CASE SaveState(t)
  <2>1. DOMAIN stored' = DOMAIN stored
    BY <1>11, SavesSpec DEF SaveState
  <2>. QED BY <1>3, <1>11, <2>1 DEF SaveState, BuffersInv
<1>12. CASE Checkpoint(t)
  <2>1. DOMAIN stored' = DOMAIN stored
    BY <1>12, SavesSpec DEF Checkpoint
  <2>. QED BY <1>3, <1>12, <2>1 DEF Checkpoint, BuffersInv
<1>. QED BY <1>4, <1>5, <1>6, <1>7, <1>8, <1>9, <1>10, <1>11, <1>12 DEF WalkStep

\* The same for a step of the run.
LEMMA RunBuffers ==
  ASSUME GivenInv, BuffersInv, ThreadsInv, TasksInv, [Next]_vars
  PROVE  BuffersInv'
<1>1. config' = config /\ graph' = graph
  BY RunThreads
<1>2. /\ Records' = Records /\ OfKind("join")' = OfKind("join") /\ OfKind("batch")' = OfKind("batch")
      /\ OfKind("state")' = OfKind("state")
  BY <1>1, GraphKeeps
<1>3. CASE \E t \in DOMAIN threads : phase \in {"running", "flushing"} /\ WalkStep(t)
  BY <1>3, WalkBuffers
<1>4. CASE \E s \in DOMAIN pulled : run_source(s)
  <2>1. PICK s \in DOMAIN pulled : run_source(s)
    BY <1>4
  <2>2. DOMAIN pulled' = ToSet(config.roots) /\ \A u \in DOMAIN pulled' : pulled'[u] \in Nat
    <3>1. pulled' = [pulled EXCEPT ![s] = @ + 1]
      BY <2>1 DEF run_source
    <3>2. DOMAIN pulled = ToSet(config.roots) /\ \A u \in DOMAIN pulled : pulled[u] \in Nat
      BY DEF BuffersInv
    <3>. QED BY <3>1, <3>2
  <2>. QED BY <1>1, <1>2, <2>1, <2>2 DEF run_source, BuffersInv, bufferVars, stateVars
<1>5. CASE RunFails
  BY <1>1, <1>2, <1>5 DEF RunFails, BuffersInv, bufferVars, stateVars
<1>6. CASE flush_all
  BY <1>1, <1>2, <1>6 DEF flush_all, BuffersInv, bufferVars, stateVars
<1>7. CASE flush_batches
  <2>1. PICK id \in unflushed :
          /\ id \in OfKind("batch") /\ batches[id].records \in Seq(Records)
          /\ unflushed' = unflushed \ {id} /\ batches' = [batches EXCEPT ![id].records = <<>>]
          /\ emitted' = [emitted EXCEPT ![id] = @ + Len(batches[id].records)]
          /\ UNCHANGED <<config, graph, pulled, phase, groups, arrived, stateVars, uuids, strayed>>
    BY <1>7, FlushMoves
  <2>2. Len(batches[id].records) \in Nat
    BY <2>1
  <2>3. emitted' \in [OfKind("join") \cup OfKind("batch") -> Nat]
    BY <2>1, <2>2 DEF BuffersInv
  <2>4. batches' \in [OfKind("batch") -> [records : Seq(Records), since : BOOLEAN]]
    <3>1. batches \in [OfKind("batch") -> [records : Seq(Records), since : BOOLEAN]]
      BY DEF BuffersInv
    <3>2. <<>> \in Seq(Records)
      OBVIOUS
    <3>. QED BY <2>1, <3>1, <3>2
  <2>. QED BY <1>1, <1>2, <2>1, <2>3, <2>4 DEF BuffersInv, stateVars
<1>8. CASE FlushEnds
  <2>1. DOMAIN stored' = DOMAIN stored
    BY <1>8, SavesSpec DEF FlushEnds
  <2>. QED BY <1>1, <1>2, <1>8, <2>1 DEF FlushEnds, BuffersInv, bufferVars
<1>9. CASE FlushFails
  BY <1>1, <1>2, <1>9 DEF FlushFails, BuffersInv, bufferVars
<1>10. CASE UNCHANGED vars
  BY <1>1, <1>2, <1>10 DEF BuffersInv, vars, runVars, bufferVars, stateVars
<1>. QED BY <1>3, <1>4, <1>5, <1>6, <1>7, <1>8, <1>9, <1>10, NextKinds

-----------------------------------------------------------------------------
(* The states: no update is lost unless two are made at once, and all are saved. *)

\* Threads that are about to write a state are as they were, and so are the states.
LEMMA CalmRace ==
  ASSUME ThreadsInv, ThreadsInv', RaceInv, UNCHANGED <<states, updates, raced>>,
         \A u \in DOMAIN threads' : Writes(threads'[u]) # {} => u \in DOMAIN threads /\ threads'[u] = threads[u]
  PROVE  RaceInv'
<1>1. ASSUME NEW u \in DOMAIN threads', At(u, "write")' PROVE u \in DOMAIN threads /\ At(u, "write") /\ top(u)' = top(u)
  <2>1. threads'[u] \in Seq(Frames') /\ threads'[u] # <<>> /\ Head(threads'[u]).op = "write"
    BY <1>1 DEF ThreadsInv, At, top
  <2>2. threads'[u][1] = Head(threads'[u])
    BY <2>1
  <2>3. u \in DOMAIN threads /\ threads'[u] = threads[u]
    BY <2>1, <2>2 DEF Writes
  <2>. QED BY <2>1, <2>3 DEF At, top
<1>. QED BY <1>1 DEF RaceInv

\* The states as they are counted after a step of one thread.
LEMMA WalkRace ==
  ASSUME GivenInv, BuffersInv, ThreadsInv, TasksInv, RaceInv, NEW t \in DOMAIN threads, WalkStep(t), phase \in {"running", "flushing"}
  PROVE  RaceInv'
<1>1. ThreadsInv' /\ graph' = graph
  BY WalkThreads DEF runVars
<1>2. CASE Parallel(t)
  <2>1. /\ threads'[t] = <<[op |-> "await"]>> \o Tail(threads[t])
        /\ \A u \in DOMAIN threads : u # t => threads'[u] = threads[u]
        /\ DOMAIN threads' = DOMAIN threads \cup {Append(t, i) : i \in DOMAIN graph[top(t).at].targets}
        /\ \A i \in DOMAIN graph[top(t).at].targets :
              threads'[Append(t, i)] = <<WalkTo(Correlated(top(t).rec), graph[top(t).at].targets[i])>>
        /\ UNCHANGED stateVars /\ threads[t] # <<>>
    BY <1>2, ParallelSpec
  <2>2. Writes(threads'[t]) = {}
    <3>1. threads'[t][1] = [op |-> "await"]
      BY <2>1, TopSpec, AwaitsSpec
    <3>. QED BY <3>1 DEF Writes
  <2>3. \A i \in DOMAIN graph[top(t).at].targets : Writes(threads'[Append(t, i)]) = {}
    <3>1. \A r, a : WalkTo(r, a).op = "walk"
      BY DEF WalkTo
    <3>2. \A f : <<f>>[1] = f
      OBVIOUS
    <3>. QED BY <2>1, <3>1, <3>2 DEF Writes
  <2>4. \A u \in DOMAIN threads' : Writes(threads'[u]) # {} => u \in DOMAIN threads /\ threads'[u] = threads[u]
    BY <2>1, <2>2, <2>3
  <2>. QED BY <1>1, <2>1, <2>4, CalmRace DEF stateVars
<1>3. CASE Joined(t)
  <2>1. /\ DOMAIN threads' = DOMAIN threads \ Branches(t)
        /\ \A u \in DOMAIN threads' : u # t => threads'[u] = threads[u]
        /\ threads'[t] = Error \/ threads'[t] = Tail(threads[t])
        /\ UNCHANGED stateVars /\ threads[t] # <<>>
    BY <1>3, JoinedSpec
  <2>2. Writes(Error) = {}
    BY DEF Error, Writes
  <2>3. Writes(Tail(threads[t])) = {}
    <3> DEFINE rest == Tail(threads[t])
    <3>1. rest \in Seq(Walks)
      BY <2>1, TopSpec
    <3> HIDE DEF rest
    <3>2. rest # <<>> => rest[1] \in Walks
      BY <3>1
    <3>3. \A f \in Walks : f.op # "write"
      BY DEF Walks
    <3>4. Writes(rest) = {}
      BY <3>2, <3>3 DEF Writes
    <3>. QED BY <3>4 DEF rest
  <2>4. \A u \in DOMAIN threads' : Writes(threads'[u]) # {} => u \in DOMAIN threads /\ threads'[u] = threads[u]
    BY <2>1, <2>2, <2>3
  <2>. QED BY <1>1, <2>1, <2>4, CalmRace DEF stateVars
<1>4. CASE Reads(t)
  <2>1. PICK pile : Moves(t, pile)
    BY <1>4, KindMoves
  <2>2. /\ DOMAIN threads' = DOMAIN threads /\ \A u \in DOMAIN threads : u # t => threads'[u] = threads[u]
    BY <1>1, <2>1, MovesThreads
  <2>3. /\ threads[t] # <<>> /\ top(t).op = "walk"
        /\ threads' = [threads EXCEPT ![t] = <<[op |-> "write", rec |-> top(t).rec, at |-> top(t).at, seen |-> states[top(t).at]]>> \o Tail(@)]
        /\ raced' = (raced \/ Amid(top(t).at) # {}) /\ UNCHANGED <<states, updates>>
    BY <1>4 DEF Reads, Walking, At, Push
  <2> DEFINE w == [op |-> "write", rec |-> top(t).rec, at |-> top(t).at, seen |-> states[top(t).at]]
             a == top(t).at
  <2>4. threads'[t] = <<w>> \o Tail(threads[t])
    BY <2>3
  <2>5. top(t)' = w
    <3>1. Tail(threads[t]) \in Seq(Walks)
      BY <2>3, TopSpec
    <3>2. PICK rest \in Seq(Walks) : rest = Tail(threads[t])
      BY <3>1
    <3> HIDE DEF w
    <3>3. Head(<<w>> \o rest) = w
      OBVIOUS
    <3>. QED BY <2>4, <3>2, <3>3 DEF top
  <2>6. w.at = a /\ w.seen = states[a]
    OBVIOUS
  <2>7. SUFFICES ASSUME ~raced' PROVE RaceInv'
    BY DEF RaceInv
  <2>8. ~raced /\ Amid(a) = {} /\ states = updates
    BY <2>3, <2>7 DEF RaceInv
  <2>9. ASSUME NEW u \in DOMAIN threads, u # t
        PROVE  /\ At(u, "write")' <=> At(u, "write")
               /\ top(u)' = top(u)
               /\ At(u, "write") => top(u).at # a /\ top(u).seen = states[top(u).at]
    <3>1. threads'[u] = threads[u] /\ top(u)' = top(u)
      BY <2>2, <2>9 DEF top
    <3>2. At(u, "write") => top(u).at # a
      BY <2>8 DEF Amid
    <3>3. At(u, "write") => top(u).seen = states[top(u).at]
      BY <2>8 DEF RaceInv
    <3>. QED BY <3>1, <3>2, <3>3 DEF At
  <2> HIDE DEF w, a
  <2>10. \A u \in DOMAIN threads : At(u, "write")' => top(u)'.seen = states'[top(u)'.at]
    BY <2>3, <2>5, <2>6, <2>9
  <2>11. \A u, v \in DOMAIN threads : At(u, "write")' /\ At(v, "write")' /\ top(u)'.at = top(v)'.at => u = v
    BY <2>5, <2>6, <2>8, <2>9 DEF RaceInv
  <2>. QED BY <2>2, <2>3, <2>8, <2>10, <2>11 DEF RaceInv
<1>5. CASE update_state(t)
  <2>1. PICK pile : Moves(t, pile) /\ Writes(pile) = {}
    BY <1>5, KindMoves DEF Reads, Walking, At, update_state
  <2>2. /\ DOMAIN threads' = DOMAIN threads /\ threads'[t] = pile /\ \A u \in DOMAIN threads : u # t => threads'[u] = threads[u]
    BY <1>1, <2>1, MovesThreads
  <2>3. /\ At(t, "write") /\ states' = [states EXCEPT ![top(t).at] = top(t).seen + 1]
        /\ updates' = [updates EXCEPT ![top(t).at] = @ + 1] /\ raced' = raced
    BY <1>5 DEF update_state
  <2>4. SUFFICES ASSUME ~raced PROVE RaceInv'
    BY <2>3 DEF RaceInv
  <2>5. states = updates /\ top(t).seen = states[top(t).at]
    BY <2>3, <2>4 DEF RaceInv
  <2>6. states' = updates'
    BY <2>3, <2>5
  <2>7. ~At(t, "write")'
    <3>1. threads'[t] \in Seq(Frames')
      BY <1>1, <2>2 DEF ThreadsInv
    <3>2. threads'[t] # <<>> => Head(threads'[t]) = threads'[t][1]
      BY <3>1
    <3>. QED BY <2>1, <2>2, <3>2 DEF At, top, Writes
  <2>8. ASSUME NEW u \in DOMAIN threads, u # t
        PROVE  /\ At(u, "write")' <=> At(u, "write")
               /\ top(u)' = top(u)
               /\ At(u, "write") => top(u).at # top(t).at /\ top(u).seen = states[top(u).at]
    <3>1. threads'[u] = threads[u] /\ top(u)' = top(u)
      BY <2>2, <2>8 DEF top
    <3>2. At(u, "write") => top(u).at # top(t).at /\ top(u).seen = states[top(u).at]
      BY <2>3, <2>4, <2>8 DEF RaceInv
    <3>. QED BY <3>1, <3>2 DEF At
  <2>9. \A a : a # top(t).at => states'[a] = states[a]
    <3>1. DOMAIN states' = DOMAIN states
      BY <2>3
    <3>. QED BY <2>3
  <2>10. \A u \in DOMAIN threads : At(u, "write")' => top(u)'.seen = states'[top(u)'.at]
    BY <2>7, <2>8, <2>9
  <2>11. \A u, v \in DOMAIN threads : At(u, "write")' /\ At(v, "write")' /\ top(u)'.at = top(v)'.at => u = v
    BY <2>4, <2>7, <2>8 DEF RaceInv
  <2>. QED BY <2>2, <2>6, <2>10, <2>11 DEF RaceInv
<1>6. CASE ~Parallel(t) /\ ~Joined(t) /\ ~Reads(t) /\ ~update_state(t)
  <2>1. PICK pile : Moves(t, pile) /\ Writes(pile) = {}
    BY <1>6, KindMoves DEF WalkStep
  <2>2. /\ DOMAIN threads' = DOMAIN threads /\ threads'[t] = pile /\ \A u \in DOMAIN threads : u # t => threads'[u] = threads[u]
    BY <1>1, <2>1, MovesThreads
  <2>3. UNCHANGED <<states, updates, raced>>
    <3>1. CASE Passes(t) \/ Fails(t)
      BY <3>1 DEF Passes, Fails, stateVars
    <3>2. CASE Delivers(t)
      BY <3>2 DEF Delivers
    <3>6. CASE SaveState(t)
      BY <3>6 DEF SaveState
    <3>7. CASE Checkpoint(t)
      BY <3>7 DEF Checkpoint
    <3>3. CASE apply_join(t) \/ apply_batch(t)
      BY <3>3 DEF apply_join, apply_batch, stateVars
    <3>. QED BY <1>6, <3>1, <3>2, <3>3, <3>6, <3>7 DEF WalkStep
  <2>4. \A u \in DOMAIN threads' : Writes(threads'[u]) # {} => u \in DOMAIN threads /\ threads'[u] = threads[u]
    BY <2>1, <2>2
  <2>. QED BY <1>1, <2>3, <2>4, CalmRace
<1>. QED BY <1>2, <1>3, <1>4, <1>5, <1>6

\* The same for a step of the run.
LEMMA RunRace ==
  ASSUME GivenInv, BuffersInv, ThreadsInv, TasksInv, RaceInv, [Next]_vars
  PROVE  RaceInv'
<1>1. ThreadsInv' /\ graph' = graph
  BY RunThreads
<1>2. ASSUME UNCHANGED <<states, updates, raced>>,
             UNCHANGED threads \/ \E u, pile : Moves(u, pile) /\ Writes(pile) = {}
      PROVE  RaceInv'
  <2>1. CASE UNCHANGED threads
    BY <1>1, <1>2, <2>1, CalmRace
  <2>2. CASE \E u, pile : Moves(u, pile) /\ Writes(pile) = {}
    <3>1. PICK u, pile : Moves(u, pile) /\ Writes(pile) = {}
      BY <2>2
    <3>2. DOMAIN threads' = DOMAIN threads /\ threads'[u] = pile /\ \A v \in DOMAIN threads : v # u => threads'[v] = threads[v]
      BY <1>1, <3>1, MovesThreads
    <3>3. \A v \in DOMAIN threads' : Writes(threads'[v]) # {} => v \in DOMAIN threads /\ threads'[v] = threads[v]
      BY <3>1, <3>2
    <3>. QED BY <1>1, <1>2, <3>3, CalmRace
  <2>. QED BY <1>2, <2>1, <2>2
<1>3. CASE \E t \in DOMAIN threads : phase \in {"running", "flushing"} /\ WalkStep(t)
  BY <1>3, WalkRace
<1>4. CASE \E s \in DOMAIN pulled : run_source(s)
  <2>1. PICK s \in DOMAIN pulled : run_source(s)
    BY <1>4
  <2>2. UNCHANGED <<states, updates, raced>>
    BY <2>1 DEF run_source, stateVars
  <2>3. Writes(<<WalkTo(Record({<<s, pulled[s] + 1>>}, 0), s)>>) = {}
    BY DEF Writes, WalkTo
  <2>4. UNCHANGED threads \/ Moves(<<s>>, <<WalkTo(Record({<<s, pulled[s] + 1>>}, 0), s)>>)
    BY <2>1, SourceMoves
  <2>. QED BY <1>2, <2>2, <2>3, <2>4
<1>5. CASE RunFails \/ FlushEnds \/ FlushFails \/ UNCHANGED vars
  BY <1>2, <1>5 DEF RunFails, FlushEnds, FlushFails, stateVars, vars
<1>6. CASE flush_all
  <2>1. threads' = [t \in {<<"flush">>} |-> <<>>] /\ UNCHANGED <<states, updates, raced>>
    BY <1>6 DEF flush_all, stateVars
  <2>2. \A u \in DOMAIN threads' : Writes(threads'[u]) = {}
    BY <2>1 DEF Writes
  <2>. QED BY <1>1, <2>1, <2>2, CalmRace
<1>7. CASE flush_batches
  <2>1. PICK id \in unflushed :
          /\ UNCHANGED stateVars
          /\ \/ UNCHANGED threads
             \/ \E frames : Goes(Emitted(batches[id].records), id, frames) /\ Moves(<<"flush">>, frames)
    BY <1>7, FlushMoves
  <2>2. ASSUME NEW frames, Goes(Emitted(batches[id].records), id, frames) PROVE Writes(frames) = {}
    <3>1. frames \in Seq(Walks)
      BY <2>2 DEF Goes
    <3>2. frames # <<>> => frames[1] \in Walks
      BY <3>1
    <3>3. \A f \in Walks : f.op # "write"
      BY DEF Walks
    <3>. QED BY <3>2, <3>3 DEF Writes
  <2>. QED BY <1>2, <2>1, <2>2 DEF stateVars
<1>. QED BY <1>3, <1>4, <1>5, <1>6, <1>7, NextKinds

\* Once the run has finished nothing happens any more; it finishes with every state saved.
LEMMA RunSaved ==
  ASSUME GivenInv, BuffersInv, ThreadsInv, SavedInv, [Next]_vars
  PROVE  SavedInv'
<1>1. CASE \E t \in DOMAIN threads : phase \in {"running", "flushing"} /\ WalkStep(t)
  <2>1. PICK t \in DOMAIN threads : phase \in {"running", "flushing"} /\ WalkStep(t)
    BY <1>1
  <2>2. UNCHANGED runVars
    <3>1. CASE Parallel(t)
      BY <3>1, ParallelSpec
    <3>2. CASE Joined(t)
      BY <3>2, JoinedSpec
    <3>3. CASE ~Parallel(t) /\ ~Joined(t)
      BY <2>1, <3>3, KindMoves DEF WalkStep
    <3>. QED BY <3>1, <3>2, <3>3
  <2>. QED BY <2>1, <2>2 DEF SavedInv, runVars
<1>2. CASE \E s \in DOMAIN pulled : run_source(s)
  BY <1>2 DEF run_source, SavedInv
<1>3. CASE RunFails \/ flush_all \/ flush_batches \/ FlushFails
  BY <1>3 DEF RunFails, flush_all, flush_batches, FlushFails, SavedInv
<1>4. CASE FlushEnds
  <2>1. SavesAll(states) /\ states' = states /\ config' = config
    BY <1>4 DEF FlushEnds
  <2>2. SUFFICES ASSUME config.store, NEW id \in DOMAIN states \ unsaved' PROVE stored'[id] = states[id]
    BY <2>1 DEF SavedInv
  <2>3. PICK bad \in SUBSET DOMAIN states :
          /\ stored' = [i \in DOMAIN stored |-> IF i \in DOMAIN states \ bad THEN states[i] ELSE stored[i]]
          /\ unsaved' = (unsaved \ DOMAIN states) \cup bad
    BY <2>1, <2>2 DEF SavesAll
  <2>4. id \in DOMAIN stored /\ id \notin bad
    BY <2>2, <2>3 DEF BuffersInv
  <2>. QED BY <2>2, <2>3, <2>4
<1>5. CASE UNCHANGED vars
  BY <1>5 DEF SavedInv, vars, runVars, stateVars
<1>. QED BY <1>1, <1>2, <1>3, <1>4, <1>5, NextKinds

-----------------------------------------------------------------------------
(* The items under way: what a step takes from a thread or a buffer is somewhere after it. *)

\* The items a frame carries, and those of a stack.
Carries(frame) == IF "rec" \in DOMAIN frame THEN frame.rec.from ELSE {}
CarriedBy(pile) == UNION {Carries(pile[k]) : k \in DOMAIN pile}

\* Those of records that a buffer holds.
ItemsIn(records) == UNION {records[i].from : i \in DOMAIN records}

\* What is in flight is what some stack carries, before a step and after it.
LEMMA FlightSpec ==
  ASSUME NEW piles, NEW all, all = UNION {IF "rec" \in DOMAIN f THEN f.rec.from ELSE {} : f \in UNION {ToSet(piles[t]) : t \in DOMAIN piles}}
  PROVE  /\ \A t \in DOMAIN piles : CarriedBy(piles[t]) \in SUBSET all
         /\ \A x \in all : \E t \in DOMAIN piles : x \in CarriedBy(piles[t])
<1>1. all = UNION {Carries(f) : f \in UNION {ToSet(piles[t]) : t \in DOMAIN piles}}
  BY DEF Carries
<1>2. ASSUME NEW t \in DOMAIN piles, NEW x \in CarriedBy(piles[t]) PROVE x \in all
  <2>1. PICK k \in DOMAIN piles[t] : x \in Carries(piles[t][k])
    BY <1>2 DEF CarriedBy
  <2>2. piles[t][k] \in ToSet(piles[t])
    BY <2>1 DEF ToSet
  <2>3. piles[t][k] \in UNION {ToSet(piles[u]) : u \in DOMAIN piles}
    BY <2>2
  <2>. QED BY <1>1, <2>1, <2>3
<1>3. ASSUME NEW x \in all PROVE \E t \in DOMAIN piles : x \in CarriedBy(piles[t])
  <2>1. PICK f \in UNION {ToSet(piles[u]) : u \in DOMAIN piles} : x \in Carries(f)
    BY <1>1, <1>3
  <2>2. PICK t \in DOMAIN piles : f \in ToSet(piles[t])
    BY <2>1
  <2>3. PICK k \in DOMAIN piles[t] : piles[t][k] = f
    BY <2>2 DEF ToSet
  <2>. QED BY <2>1, <2>3 DEF CarriedBy
<1>. QED BY <1>2, <1>3

\* The same of the threads.
LEMMA InFlightSpec ==
  /\ \A t \in DOMAIN threads : CarriedBy(threads[t]) \in SUBSET InFlight
  /\ \A x \in InFlight : \E t \in DOMAIN threads : x \in CarriedBy(threads[t])
  /\ \A t \in DOMAIN threads' : CarriedBy(threads'[t]) \in SUBSET InFlight'
  /\ \A x \in InFlight' : \E t \in DOMAIN threads' : x \in CarriedBy(threads'[t])
BY FlightSpec DEF InFlight

\* The items of a stack are those of its next frame and of the others, and those of one
\* stack on another are those of both.
LEMMA CarriedSpec ==
  ASSUME NEW S, NEW a \in Seq(S), NEW b \in Seq(S)
  PROVE  /\ CarriedBy(a \o b) = CarriedBy(a) \cup CarriedBy(b)
         /\ a # <<>> => CarriedBy(a) = Carries(Head(a)) \cup CarriedBy(Tail(a))
         /\ CarriedBy(<<>>) = {}
<1>1. \A x : x \in CarriedBy(a \o b) => x \in CarriedBy(a) \cup CarriedBy(b)
  <2> SUFFICES ASSUME NEW x \in CarriedBy(a \o b) PROVE x \in CarriedBy(a) \cup CarriedBy(b)
    OBVIOUS
  <2>1. PICK k \in DOMAIN (a \o b) : x \in Carries((a \o b)[k])
    BY DEF CarriedBy
  <2>2. CASE k \in 1..Len(a)
    <3>1. (a \o b)[k] = a[k] /\ k \in DOMAIN a
      BY <2>2, ConcatSpec
    <3>. QED BY <2>1, <3>1 DEF CarriedBy
  <2>3. CASE \E j \in 1..Len(b) : k = Len(a) + j
    <3>1. PICK j \in 1..Len(b) : k = Len(a) + j
      BY <2>3
    <3>2. (a \o b)[k] = b[j] /\ j \in DOMAIN b
      BY <3>1, ConcatSpec
    <3>. QED BY <2>1, <3>2 DEF CarriedBy
  <2>. QED BY <2>1, <2>2, <2>3, ConcatSpec
<1>2. \A x : x \in CarriedBy(a) => x \in CarriedBy(a \o b)
  <2> SUFFICES ASSUME NEW x \in CarriedBy(a) PROVE x \in CarriedBy(a \o b)
    OBVIOUS
  <2>1. PICK k \in DOMAIN a : x \in Carries(a[k])
    BY DEF CarriedBy
  <2>2. k \in DOMAIN (a \o b) /\ (a \o b)[k] = a[k]
    BY ConcatSpec
  <2>. QED BY <2>1, <2>2 DEF CarriedBy
<1>3. \A x : x \in CarriedBy(b) => x \in CarriedBy(a \o b)
  <2> SUFFICES ASSUME NEW x \in CarriedBy(b) PROVE x \in CarriedBy(a \o b)
    OBVIOUS
  <2>1. PICK k \in DOMAIN b : x \in Carries(b[k])
    BY DEF CarriedBy
  <2>2. Len(a) + k \in DOMAIN (a \o b) /\ (a \o b)[Len(a) + k] = b[k]
    BY ConcatSpec
  <2>. QED BY <2>1, <2>2 DEF CarriedBy
<1>4. ASSUME a # <<>> PROVE CarriedBy(a) = Carries(Head(a)) \cup CarriedBy(Tail(a))
  <2>1. /\ Head(a) = a[1] /\ 1 \in DOMAIN a /\ DOMAIN a = 1..Len(a) /\ Len(a) \in Nat
        /\ DOMAIN Tail(a) = 1..Len(a) - 1
        /\ \A k \in 1..Len(a) - 1 : Tail(a)[k] = a[k + 1]
    BY <1>4
  <2>2. \A k \in DOMAIN a : k = 1 \/ \E j \in DOMAIN Tail(a) : Tail(a)[j] = a[k]
    <3> SUFFICES ASSUME NEW k \in DOMAIN a, k # 1 PROVE \E j \in DOMAIN Tail(a) : Tail(a)[j] = a[k]
      OBVIOUS
    <3>1. k - 1 \in DOMAIN Tail(a) /\ (k - 1) + 1 = k
      BY <2>1
    <3>. QED BY <2>1, <3>1
  <2>3. \A j \in DOMAIN Tail(a) : \E k \in DOMAIN a : Tail(a)[j] = a[k]
    <3> SUFFICES ASSUME NEW j \in DOMAIN Tail(a) PROVE \E k \in DOMAIN a : Tail(a)[j] = a[k]
      OBVIOUS
    <3>1. j + 1 \in DOMAIN a
      BY <2>1
    <3>. QED BY <2>1, <3>1
  <2>4. Carries(Head(a)) \cup CarriedBy(Tail(a)) \in SUBSET CarriedBy(a)
    BY <2>1, <2>3 DEF CarriedBy
  <2>5. CarriedBy(a) \in SUBSET (Carries(Head(a)) \cup CarriedBy(Tail(a)))
    BY <2>1, <2>2 DEF CarriedBy
  <2>. QED BY <2>4, <2>5
<1>5. CarriedBy(<<>>) = {}
  BY DEF CarriedBy
<1>. QED BY <1>1, <1>2, <1>3, <1>4, <1>5

\* A stack in place of another: what it carries is in flight, and what the others carry.
LEMMA MovesFlight ==
  ASSUME NEW t \in DOMAIN threads, NEW pile, threads' = [threads EXCEPT ![t] = pile]
  PROVE  /\ InFlight \in SUBSET (InFlight' \cup CarriedBy(threads[t])) /\ CarriedBy(threads[t]) \in SUBSET InFlight
         /\ InFlight' \in SUBSET (InFlight \cup CarriedBy(pile)) /\ CarriedBy(pile) \in SUBSET InFlight'
<1>1. DOMAIN threads' = DOMAIN threads /\ threads'[t] = pile /\ \A u \in DOMAIN threads : u # t => threads'[u] = threads[u]
  OBVIOUS
<1>. QED BY <1>1, InFlightSpec

\* A frame worked off: what it carried goes on with what takes its place.
LEMMA PushFlight ==
  ASSUME ThreadsInv, NEW t \in DOMAIN threads, NEW frames, Works(t, frames)
  PROVE  /\ InFlight' \cup Carries(top(t)) = InFlight \cup CarriedBy(frames)
         /\ Carries(top(t)) \in SUBSET InFlight /\ CarriedBy(frames) \in SUBSET InFlight'
<1> DEFINE rest == Tail(threads[t])
<1>1. threads' = [threads EXCEPT ![t] = frames \o rest] /\ frames \in Seq(Frames) /\ threads[t] # <<>>
  BY DEF Works, Push
<1>2. threads[t] \in Seq(Frames) /\ rest \in Seq(Frames) /\ top(t) = Head(threads[t])
  <2>1. threads[t] \in Seq(Frames)
    BY DEF ThreadsInv
  <2>. QED BY <1>1, <2>1 DEF top
<1>3. CarriedBy(threads[t]) = Carries(top(t)) \cup CarriedBy(rest)
  BY <1>1, <1>2, CarriedSpec
<1> HIDE DEF rest
<1>4. CarriedBy(frames \o rest) = CarriedBy(frames) \cup CarriedBy(rest)
  BY <1>1, <1>2, CarriedSpec
<1> DEFINE pile == frames \o rest
<1>5. /\ InFlight \in SUBSET (InFlight' \cup CarriedBy(threads[t])) /\ CarriedBy(threads[t]) \in SUBSET InFlight
      /\ InFlight' \in SUBSET (InFlight \cup CarriedBy(pile)) /\ CarriedBy(pile) \in SUBSET InFlight'
  BY <1>1, MovesFlight
<1>. QED BY <1>3, <1>4, <1>5

\* A record that goes on is carried by the frames it goes on in.
LEMMA GoesCarried ==
  ASSUME NEW r, NEW id, NEW frames, Goes(r, id, frames)
  PROVE  CarriedBy(frames) = IF frames = <<>> THEN {} ELSE r.from
<1>1. \A k \in DOMAIN frames : Carries(frames[k]) = r.from
  <2> SUFFICES ASSUME NEW k \in DOMAIN frames PROVE Carries(frames[k]) = r.from
    OBVIOUS
  <2>1. frames[k] \in Walks /\ frames[k].rec = r
    BY DEF Goes
  <2>2. "rec" \in DOMAIN frames[k]
    BY <2>1 DEF Walks
  <2>. QED BY <2>1, <2>2 DEF Carries
<1>2. frames # <<>> => 1 \in DOMAIN frames
  <2>1. frames \in Seq(Walks)
    BY DEF Goes
  <2>. QED BY <2>1
<1>3. CASE frames = <<>>
  BY <1>3 DEF CarriedBy
<1>4. CASE frames # <<>>
  BY <1>1, <1>2, <1>4 DEF CarriedBy
<1>. QED BY <1>3, <1>4

\* What joins hold, when one group becomes another.
LEMMA GroupsItems ==
  ASSUME BuffersInv, graph' = graph, NEW id \in OfKind("join"), NEW c \in 1..MaxUuids, NEW g, groups' = [groups EXCEPT ![id][c] = g]
  PROVE  /\ InGroups \in SUBSET (InGroups' \cup ItemsIn(groups[id][c])) /\ ItemsIn(groups[id][c]) \in SUBSET InGroups
         /\ InGroups' \in SUBSET (InGroups \cup ItemsIn(g)) /\ ItemsIn(g) \in SUBSET InGroups'
<1> DEFINE Of2(G) == UNION {UNION {UNION {r.from : r \in ToSet(G[j][d])} : d \in 1..MaxUuids} : j \in DOMAIN G}
<1>1. InGroups = Of2(groups) /\ InGroups' = Of2(groups')
  BY DEF InGroups
<1>2. \A s : UNION {r.from : r \in ToSet(s)} = ItemsIn(s)
  BY DEF ToSet, ItemsIn
<1>3. \A G : Of2(G) = UNION {UNION {ItemsIn(G[j][d]) : d \in 1..MaxUuids} : j \in DOMAIN G}
  BY <1>2
<1> HIDE DEF Of2
<1>4. ASSUME NEW G PROVE /\ \A j \in DOMAIN G, d \in 1..MaxUuids : ItemsIn(G[j][d]) \in SUBSET Of2(G)
                         /\ \A x \in Of2(G) : \E j \in DOMAIN G, d \in 1..MaxUuids : x \in ItemsIn(G[j][d])
  BY <1>3
<1>5. /\ DOMAIN groups = OfKind("join") /\ DOMAIN groups' = DOMAIN groups
      /\ groups[id] \in [1..MaxUuids -> Seq(Records)]
  BY DEF BuffersInv
<1>6. /\ groups'[id][c] = g
      /\ \A j \in DOMAIN groups, d \in 1..MaxUuids : j # id \/ d # c => groups'[j][d] = groups[j][d]
  BY <1>5
<1>7. InGroups \in SUBSET (InGroups' \cup ItemsIn(groups[id][c])) /\ ItemsIn(groups[id][c]) \in SUBSET InGroups
  <2>1. \A x \in InGroups : \E j \in DOMAIN groups, d \in 1..MaxUuids : x \in ItemsIn(groups[j][d])
    BY <1>1, <1>4
  <2>2. \A j \in DOMAIN groups', d \in 1..MaxUuids : ItemsIn(groups'[j][d]) \in SUBSET InGroups'
    BY <1>1, <1>4
  <2>3. ItemsIn(groups[id][c]) \in SUBSET InGroups
    BY <1>1, <1>4, <1>5
  <2>. QED BY <1>5, <1>6, <2>1, <2>2, <2>3
<1>8. InGroups' \in SUBSET (InGroups \cup ItemsIn(g)) /\ ItemsIn(g) \in SUBSET InGroups'
  <2>1. \A x \in InGroups' : \E j \in DOMAIN groups', d \in 1..MaxUuids : x \in ItemsIn(groups'[j][d])
    BY <1>1, <1>4
  <2>2. \A j \in DOMAIN groups, d \in 1..MaxUuids : ItemsIn(groups[j][d]) \in SUBSET InGroups
    BY <1>1, <1>4
  <2>3. ItemsIn(g) \in SUBSET InGroups'
    BY <1>1, <1>4, <1>5, <1>6
  <2>. QED BY <1>5, <1>6, <2>1, <2>2, <2>3
<1>. QED BY <1>7, <1>8

\* The same for batches.
LEMMA BatchesItems ==
  ASSUME BuffersInv, NEW id \in DOMAIN batches, NEW g, DOMAIN batches' = DOMAIN batches, batches'[id].records = g,
         \A j \in DOMAIN batches : j # id => batches'[j] = batches[j]
  PROVE  /\ InBatches \in SUBSET (InBatches' \cup ItemsIn(batches[id].records)) /\ ItemsIn(batches[id].records) \in SUBSET InBatches
         /\ InBatches' \in SUBSET (InBatches \cup ItemsIn(g)) /\ ItemsIn(g) \in SUBSET InBatches'
<1>1. \A s : UNION {r.from : r \in ToSet(s)} = ItemsIn(s)
  BY DEF ToSet, ItemsIn
<1>2. /\ InBatches = UNION {ItemsIn(batches[j].records) : j \in DOMAIN batches}
      /\ InBatches' = UNION {ItemsIn(batches'[j].records) : j \in DOMAIN batches'}
  BY <1>1 DEF InBatches
<1>. QED BY <1>2

-----------------------------------------------------------------------------
(* Nothing that was pulled is lost before a step has failed. *)

\* A task that has failed stays failed, or fails the one it is a branch of.
LEMMA FailedStays ==
  ASSUME GivenInv, BuffersInv, ThreadsInv, NEW t \in DOMAIN threads, WalkStep(t), Failed
  PROVE  Failed'
<1>1. PICK u \in DOMAIN threads : threads[u] = Error
  BY DEF Failed
<1>2. threads[u] # <<>> /\ top(u).op = "error"
  BY <1>1 DEF Error, top
<1>3. CASE Fails(t)
  <2>1. t \in DOMAIN threads' /\ threads'[t] = Error
    BY <1>3 DEF Fails
  <2>. QED BY <2>1 DEF Failed
<1>4. CASE Parallel(t)
  <2>1. top(t) \in Walks /\ u \in DOMAIN threads' /\ (u # t => threads'[u] = threads[u])
    BY <1>4, ParallelSpec
  <2>2. u # t
    BY <1>2, <2>1 DEF Walks
  <2>. QED BY <1>1, <2>1, <2>2 DEF Failed
<1>5. CASE Joined(t)
  <2>1. /\ top(t).op = "await" /\ t \notin Branches(t) /\ DOMAIN threads' = DOMAIN threads \ Branches(t)
        /\ \A v \in DOMAIN threads' : v # t => threads'[v] = threads[v]
        /\ threads'[t] = Error \/ \A b \in Branches(t) : threads[b] = <<>>
    BY <1>5, JoinedSpec
  <2>2. CASE threads'[t] = Error
    BY <2>1, <2>2 DEF Failed
  <2>3. CASE \A b \in Branches(t) : threads[b] = <<>>
    <3>1. u # t /\ u \notin Branches(t)
      BY <1>2, <2>1, <2>3
    <3>. QED BY <1>1, <2>1, <3>1 DEF Failed
  <2>. QED BY <2>1, <2>2, <2>3
<1>6. CASE ~Fails(t) /\ ~Parallel(t) /\ ~Joined(t)
  <2>1. PICK frames : Works(t, frames)
    BY <1>6, KindWorks DEF WalkStep
  <2>2. u # t /\ threads' = [threads EXCEPT ![t] = frames \o Tail(@)]
    BY <1>2, <2>1 DEF Works, Push, Placed
  <2>. QED BY <1>1, <2>2 DEF Failed
<1>. QED BY <1>3, <1>4, <1>5, <1>6

\* What the frames of the kinds carry.
LEMMA CarriesSpec ==
  /\ \A f \in Walks \cup Updates : Carries(f) = f.rec.from
  /\ \A f \in Checkpoints : Carries(f) = {}
  /\ Carries([op |-> "await"]) = {} /\ Carries([op |-> "error"]) = {}
<1>1. \A f \in Walks \cup Updates : Carries(f) = f.rec.from
  <2>1. \A f \in Walks \cup Updates : "rec" \in DOMAIN f
    BY DEF Walks, Updates
  <2>. QED BY <2>1 DEF Carries
<1>2. \A f \in Checkpoints : Carries(f) = {}
  <2>1. \A f \in Checkpoints : "rec" \notin DOMAIN f
    BY DEF Checkpoints
  <2>. QED BY <2>1 DEF Carries
<1>3. Carries([op |-> "await"]) = {} /\ Carries([op |-> "error"]) = {}
  BY DEF Carries
<1>. QED BY <1>1, <1>2, <1>3

\* A stack of one frame carries what that does.
LEMMA OneCarried ==
  ASSUME NEW f
  PROVE  CarriedBy(<<f>>) = Carries(f) /\ CarriedBy(<<>>) = {}
<1>1. DOMAIN <<f>> = {1} /\ <<f>>[1] = f /\ DOMAIN <<>> = {}
  OBVIOUS
<1> DEFINE one == <<f>>
<1>2. DOMAIN one = {1} /\ one[1] = f
  BY <1>1
<1> HIDE DEF one
<1>3. CarriedBy(one) = Carries(f)
  BY <1>2 DEF CarriedBy
<1>4. CarriedBy(<<>>) = {}
  BY <1>1 DEF CarriedBy
<1>. QED BY <1>3, <1>4 DEF one

\* The items of a buffer with one more record, and of one record for all of them.
LEMMA ItemsSpec ==
  ASSUME NEW s \in Seq(Records), NEW r \in Records
  PROVE  /\ ItemsIn(Append(s, r)) = ItemsIn(s) \cup r.from /\ ItemsIn(<<>>) = {}
         /\ Merged(Append(s, r)).from = ItemsIn(Append(s, r)) /\ Emitted(Append(s, r)).from = ItemsIn(Append(s, r))
         /\ Emitted(s).from = ItemsIn(s)
<1>1. /\ Len(s) \in Nat /\ DOMAIN s = 1..Len(s) /\ DOMAIN Append(s, r) = 1..Len(s) + 1
      /\ Append(s, r)[Len(s) + 1] = r /\ \A k \in 1..Len(s) : Append(s, r)[k] = s[k]
  OBVIOUS
<1> DEFINE a == Append(s, r)
<1>2. DOMAIN a = DOMAIN s \cup {Len(s) + 1} /\ a[Len(s) + 1] = r /\ \A k \in DOMAIN s : a[k] = s[k]
  BY <1>1
<1> HIDE DEF a
<1>3. ItemsIn(a) = ItemsIn(s) \cup r.from
  BY <1>2 DEF ItemsIn
<1>4. ItemsIn(<<>>) = {}
  BY DEF ItemsIn
<1>5. \A x : Merged(x).from = ItemsIn(x) /\ Emitted(x).from = ItemsIn(x)
  BY DEF Merged, Emitted, Record, ItemsIn
<1>. QED BY <1>3, <1>4, <1>5 DEF a

\* Branches carry what the record that was split did, and what is joined carries nothing.
LEMMA ParallelFlight ==
  ASSUME GivenInv, BuffersInv, ThreadsInv, NEW t \in DOMAIN threads, Parallel(t)
  PROVE  InFlight' = InFlight
<1> DEFINE r == Correlated(top(t).rec)
           targets == graph[top(t).at].targets
           rest == Tail(threads[t])
<1>1. /\ threads[t] # <<>> /\ top(t) \in Walks /\ r.from = top(t).rec.from
      /\ targets \in Seq(Onward(top(t).at)) /\ Onward(top(t).at) \in SUBSET DOMAIN graph /\ r \in Records
      /\ DOMAIN threads' = DOMAIN threads \cup {Append(t, i) : i \in DOMAIN targets}
      /\ threads'[t] = <<[op |-> "await"]>> \o rest
      /\ \A u \in DOMAIN threads : u # t => threads'[u] = threads[u]
      /\ \A i \in DOMAIN targets : threads'[Append(t, i)] = <<WalkTo(r, targets[i])>>
  BY ParallelSpec
<1>2. rest \in Seq(Walks) /\ threads[t] \in Seq(Frames) /\ top(t) = Head(threads[t])
  BY <1>1, TopSpec DEF ThreadsInv, top
<1>3. CarriedBy(threads[t]) = r.from \cup CarriedBy(rest)
  BY <1>1, <1>2, CarriedSpec, CarriesSpec
<1>4. CarriedBy(threads'[t]) = CarriedBy(rest)
  <2>1. [op |-> "await"] \in Frames /\ rest \in Seq(Frames)
    <3>1. Walks \in SUBSET Frames /\ [op |-> "await"] \in Frames
      BY DEF Frames, Marks
    <3> HIDE DEF rest
    <3>. QED BY <1>2, <3>1, SeqAlso
  <2> DEFINE one == <<[op |-> "await"]>>
  <2>2. one \in Seq(Frames)
    BY <2>1
  <2>3. CarriedBy(one) = {}
    BY OneCarried, CarriesSpec
  <2>4. threads'[t] = one \o rest
    BY <1>1
  <2> HIDE DEF one, rest
  <2>5. CarriedBy(one \o rest) = CarriedBy(one) \cup CarriedBy(rest)
    BY <2>1, <2>2, CarriedSpec
  <2>. QED BY <2>3, <2>4, <2>5
<1>5. \A i \in DOMAIN targets : CarriedBy(threads'[Append(t, i)]) = r.from
  <2> SUFFICES ASSUME NEW i \in DOMAIN targets PROVE CarriedBy(threads'[Append(t, i)]) = r.from
    OBVIOUS
  <2>1. targets[i] \in DOMAIN graph
    BY <1>1
  <2> HIDE DEF r, targets
  <2>2. WalkTo(r, targets[i]) \in Walks /\ WalkTo(r, targets[i]).rec = r
    BY <1>1, <2>1 DEF WalkTo, Walks
  <2>. QED BY <1>1, <2>2, OneCarried, CarriesSpec
<1>6. 1 \in DOMAIN targets
  <2>1. targets # <<>>
    BY ControlGiven, ParallelSpec DEF OfKind
  <2> HIDE DEF targets
  <2>. QED BY <1>1, <2>1
<1> HIDE DEF r, targets, rest
<1>7. \A x \in InFlight' : x \in InFlight
  <2> SUFFICES ASSUME NEW x \in InFlight' PROVE x \in InFlight
    OBVIOUS
  <2>1. PICK u \in DOMAIN threads' : x \in CarriedBy(threads'[u])
    BY InFlightSpec
  <2>2. CASE u \in DOMAIN threads /\ u # t
    BY <1>1, <2>1, <2>2, InFlightSpec
  <2>3. CASE u = t \/ \E i \in DOMAIN targets : u = Append(t, i)
    <3>1. x \in CarriedBy(threads[t])
      BY <1>3, <1>4, <1>5, <2>1, <2>3
    <3>. QED BY <3>1, InFlightSpec
  <2>. QED BY <1>1, <2>1, <2>2, <2>3
<1>8. ASSUME NEW x \in InFlight PROVE x \in InFlight'
  <2>1. PICK u \in DOMAIN threads : x \in CarriedBy(threads[u])
    BY <1>8, InFlightSpec
  <2>2. CASE u # t
    BY <1>1, <2>1, <2>2, InFlightSpec
  <2>3. CASE u = t /\ x \in CarriedBy(rest)
    <3>1. x \in CarriedBy(threads'[t]) /\ t \in DOMAIN threads'
      BY <1>1, <1>4, <2>3
    <3>. QED BY <3>1, InFlightSpec
  <2>4. CASE x \in r.from
    <3>1. Append(t, 1) \in DOMAIN threads' /\ x \in CarriedBy(threads'[Append(t, 1)])
      BY <1>1, <1>5, <1>6, <1>8, <2>4
    <3>. QED BY <3>1, InFlightSpec
  <2>. QED BY <1>3, <2>1, <2>2, <2>3, <2>4
<1>. QED BY <1>7, <1>8

\* Branches that have ended carried nothing.
LEMMA JoinedFlight ==
  ASSUME ThreadsInv, NEW t \in DOMAIN threads, Joined(t), ~Failed'
  PROVE  InFlight' = InFlight
<1> DEFINE rest == Tail(threads[t])
<1>1. /\ threads[t] # <<>> /\ top(t).op = "await" /\ t \notin Branches(t) /\ DOMAIN threads' = DOMAIN threads \ Branches(t)
      /\ \A u \in DOMAIN threads' : u # t => threads'[u] = threads[u]
      /\ t \in DOMAIN threads' /\ threads'[t] = rest /\ \A b \in Branches(t) : threads[b] = <<>>
  BY JoinedSpec DEF Failed
<1>2. CarriedBy(threads[t]) = CarriedBy(rest)
  <2>1. top(t) \in Frames /\ top(t) = Head(threads[t]) /\ threads[t] \in Seq(Frames)
    BY <1>1, TopSpec DEF ThreadsInv, top
  <2>2. top(t) \in Marks
    BY <1>1, <2>1 DEF Frames, Walks, Updates, Checkpoints
  <2>3. Carries(top(t)) = {}
    <3>1. "rec" \notin DOMAIN top(t)
      BY <2>2 DEF Marks
    <3>. QED BY <3>1 DEF Carries
  <2>4. CarriedBy(threads[t]) = Carries(Head(threads[t])) \cup CarriedBy(Tail(threads[t]))
    BY <1>1, <2>1, CarriedSpec
  <2>. QED BY <2>1, <2>3, <2>4
<1> HIDE DEF rest
<1>3. CarriedBy(<<>>) = {}
  BY OneCarried
<1>4. \A x \in InFlight' : x \in InFlight
  BY <1>1, <1>2, InFlightSpec
<1>5. \A x \in InFlight : x \in InFlight'
  BY <1>1, <1>2, <1>3, InFlightSpec
<1>. QED BY <1>4, <1>5

\* A record whose walk goes on or ends there: its items are in flight still, or ended.
LEMMA WalkFlight ==
  ASSUME ThreadsInv, NEW t \in DOMAIN threads, threads[t] # <<>>, top(t) \in Walks \cup Updates,
         NEW r, NEW frames, Goes(r, top(t).at, frames), WalkOn(t, r, frames)
  PROVE  /\ InFlight' \cup ended' \cup top(t).rec.from = InFlight \cup ended \cup r.from
         /\ top(t).rec.from \in SUBSET InFlight /\ r.from \in SUBSET (InFlight' \cup ended')
<1>1. top(t).op \in Placed
  BY DEF Walks, Updates, Placed
<1>2. Push(frames, t) /\ ended' = IF frames = <<>> THEN ended \cup r.from ELSE ended
  BY DEF WalkOn
<1>3. Works(t, frames)
  BY <1>1, <1>2, GoesWorks
<1>4. Carries(top(t)) = top(t).rec.from
  BY CarriesSpec
<1>5. /\ InFlight' \cup Carries(top(t)) = InFlight \cup CarriedBy(frames)
      /\ Carries(top(t)) \in SUBSET InFlight /\ CarriedBy(frames) \in SUBSET InFlight'
  BY <1>3, PushFlight
<1>6. CarriedBy(frames) = IF frames = <<>> THEN {} ELSE r.from
  BY GoesCarried
<1>. QED BY <1>2, <1>4, <1>5, <1>6

\* A frame worked off with at most one in its place.
LEMMA OneFlight ==
  ASSUME ThreadsInv, NEW t \in DOMAIN threads, threads[t] # <<>>, top(t).op \in Placed \cup {"checkpoint"},
         NEW frames, Push(frames, t),
         \/ frames = <<>>
         \/ \E f \in Frames :
              /\ frames = <<f>> /\ (f.op = "write" => Reads(t))
              /\ f.op \in Placed => top(t).op \in Placed /\ f.at \in Onward(top(t).at) \cup {top(t).at}
  PROVE  /\ InFlight' \cup Carries(top(t)) = InFlight \cup CarriedBy(frames)
         /\ Carries(top(t)) \in SUBSET InFlight /\ CarriedBy(frames) \in SUBSET InFlight'
BY OneWorks, PushFlight

\* All there is of what was pulled.
Found == ended \cup InFlight \cup InGroups \cup InBatches

\* No step of a thread that does not fail loses an item, or makes one up.
LEMMA WalkFound ==
  ASSUME GivenInv, BuffersInv, ThreadsInv, NEW t \in DOMAIN threads, WalkStep(t), ~Failed'
  PROVE  Found' = Found
<1>1. ASSUME UNCHANGED bufferVars PROVE InGroups' = InGroups /\ InBatches' = InBatches
  BY <1>1 DEF bufferVars, InGroups, InBatches
<1>2. CASE Passes(t)
  <2>1. PICK frames : Goes(top(t).rec, top(t).at, frames) /\ WalkOn(t, top(t).rec, frames)
    BY <1>2 DEF Passes
  <2>2. threads[t] # <<>> /\ top(t) \in Walks
    BY <1>2, TopSpec DEF Passes, At
  <2>3. /\ InFlight' \cup ended' \cup top(t).rec.from = InFlight \cup ended \cup top(t).rec.from
        /\ top(t).rec.from \in SUBSET InFlight /\ top(t).rec.from \in SUBSET (InFlight' \cup ended')
    BY <2>1, <2>2, WalkFlight
  <2>. QED BY <1>1, <1>2, <2>3 DEF Passes, Found
<1>3. CASE Delivers(t)
  <2>1. PICK frames \in {<<>>} \cup {<<c>> : c \in Checkpoints} : Push(frames, t)
    BY <1>3 DEF Delivers
  <2>2. threads[t] # <<>> /\ top(t) \in Walks /\ top(t).op \in Placed
    BY <1>3, TopSpec DEF Delivers, Walking, At, Placed
  <2>3. \/ frames = <<>>
        \/ \E f \in Frames :
              /\ frames = <<f>> /\ (f.op = "write" => Reads(t))
              /\ f.op \in Placed => top(t).op \in Placed /\ f.at \in Onward(top(t).at) \cup {top(t).at}
    BY <2>1 DEF Frames, Checkpoints, Placed
  <2>4. CarriedBy(frames) = {} /\ Carries(top(t)) = top(t).rec.from
    BY <2>1, <2>2, OneCarried, CarriesSpec
  <2>5. /\ InFlight' \cup Carries(top(t)) = InFlight \cup CarriedBy(frames)
        /\ Carries(top(t)) \in SUBSET InFlight /\ CarriedBy(frames) \in SUBSET InFlight'
    BY <2>1, <2>2, <2>3, OneFlight
  <2>. QED BY <1>1, <1>3, <2>4, <2>5 DEF Delivers, Found
<1>4. CASE Fails(t)
  BY <1>4 DEF Fails, Failed
<1>5. CASE Parallel(t)
  <2>1. UNCHANGED <<bufferVars, endVars>> /\ InFlight' = InFlight
    BY <1>5, ParallelSpec, ParallelFlight
  <2>. QED BY <1>1, <2>1 DEF Found, endVars
<1>6. CASE Joined(t)
  <2>1. UNCHANGED <<bufferVars, endVars>> /\ InFlight' = InFlight
    BY <1>6, JoinedSpec, JoinedFlight
  <2>. QED BY <1>1, <2>1 DEF Found, endVars
<1>7. CASE Reads(t)
  <2> DEFINE w == [op |-> "write", rec |-> top(t).rec, at |-> top(t).at, seen |-> states[top(t).at]]
  <2>1. threads[t] # <<>> /\ top(t) \in Walks /\ top(t).op \in Placed /\ Push(<<w>>, t) /\ top(t).at \in OfKind("state")
    BY <1>7, TopSpec DEF Reads, Walking, At, Placed, Walks, OfKind
  <2>2. w \in Updates /\ w.op = "write" /\ w.at = top(t).at /\ w.rec = top(t).rec
    <3>1. states[top(t).at] \in Nat /\ top(t).rec \in Records
      BY <2>1 DEF BuffersInv, Walks
    <3>. QED BY <2>1, <3>1 DEF Updates
  <2> HIDE DEF w
  <2>3. CarriedBy(<<w>>) = top(t).rec.from /\ Carries(top(t)) = top(t).rec.from
    BY <2>1, <2>2, OneCarried, CarriesSpec
  <2>4. \E f \in Frames :
              /\ <<w>> = <<f>> /\ (f.op = "write" => Reads(t))
              /\ f.op \in Placed => top(t).op \in Placed /\ f.at \in Onward(top(t).at) \cup {top(t).at}
    BY <1>7, <2>1, <2>2 DEF Frames
  <2>5. /\ InFlight' \cup Carries(top(t)) = InFlight \cup CarriedBy(<<w>>)
        /\ Carries(top(t)) \in SUBSET InFlight /\ CarriedBy(<<w>>) \in SUBSET InFlight'
    BY <2>1, <2>4, OneFlight
  <2>. QED BY <1>1, <1>7, <2>3, <2>5 DEF Reads, Found, endVars
<1>8. CASE update_state(t)
  <2> DEFINE w == [top(t) EXCEPT !.op = "save", !.seen = @ + 1]
  <2>1. threads[t] # <<>> /\ top(t) \in Updates /\ top(t).op \in Placed /\ Push(<<w>>, t)
    BY <1>8, TopSpec DEF update_state, At, Placed
  <2>2. w \in Updates /\ w.op = "save" /\ w.at = top(t).at /\ w.rec = top(t).rec
    BY <2>1, SaveSpec
  <2> HIDE DEF w
  <2>3. CarriedBy(<<w>>) = top(t).rec.from /\ Carries(top(t)) = top(t).rec.from
    BY <2>1, <2>2, OneCarried, CarriesSpec
  <2>4. \E f \in Frames :
              /\ <<w>> = <<f>> /\ (f.op = "write" => Reads(t))
              /\ f.op \in Placed => top(t).op \in Placed /\ f.at \in Onward(top(t).at) \cup {top(t).at}
    BY <2>1, <2>2 DEF Frames
  <2>5. /\ InFlight' \cup Carries(top(t)) = InFlight \cup CarriedBy(<<w>>)
        /\ Carries(top(t)) \in SUBSET InFlight /\ CarriedBy(<<w>>) \in SUBSET InFlight'
    BY <2>1, <2>4, OneFlight
  <2>. QED BY <1>1, <1>8, <2>3, <2>5 DEF update_state, Found, endVars
<1>9. CASE SaveState(t)
  <2>1. PICK frames \in route(top(t).rec, top(t).at) : WalkOn(t, top(t).rec, frames)
    BY <1>9 DEF SaveState
  <2>2. threads[t] # <<>> /\ top(t) \in Updates /\ top(t).rec \in Records /\ top(t).at \in DOMAIN graph
    BY <1>9, TopSpec DEF SaveState, At, Updates, OfKind
  <2>3. Goes(top(t).rec, top(t).at, frames)
    BY <2>1, <2>2, RouteGoes
  <2>4. /\ InFlight' \cup ended' \cup top(t).rec.from = InFlight \cup ended \cup top(t).rec.from
        /\ top(t).rec.from \in SUBSET InFlight /\ top(t).rec.from \in SUBSET (InFlight' \cup ended')
    BY <2>1, <2>2, <2>3, WalkFlight
  <2>. QED BY <1>1, <1>9, <2>4 DEF SaveState, Found
<1>10. CASE Checkpoint(t)
  <2>1. threads[t] # <<>> /\ top(t) \in Checkpoints /\ top(t).op = "checkpoint" /\ Push(<<>>, t)
    BY <1>10, TopSpec DEF Checkpoint, At
  <2>2. CarriedBy(<<>>) = {} /\ Carries(top(t)) = {}
    BY <2>1, OneCarried, CarriesSpec
  <2>3. InFlight' \cup Carries(top(t)) = InFlight \cup CarriedBy(<<>>)
    BY <2>1, OneFlight
  <2>. QED BY <1>1, <1>10, <2>2, <2>3 DEF Checkpoint, Found, endVars
<1>11. CASE apply_join(t)
  <2>1. PICK id, corr, group : JoinGoes(t, id, corr, group) \/ JoinKeeps(t, id, corr, group)
    BY <1>11, JoinKinds
  <2> DEFINE r == top(t).rec
             old == groups[id][corr]
  <2>2. /\ id = top(t).at /\ id \in OfKind("join") /\ corr \in 1..MaxUuids /\ r \in Records /\ old \in Seq(Records)
        /\ group = Append(old, r) /\ UNCHANGED <<runVars, batches>> /\ Walking(t, "join")
    BY <2>1 DEF JoinGoes, JoinKeeps, JoinComes
  <2>3. threads[t] # <<>> /\ top(t) \in Walks /\ top(t).op \in Placed
    BY <2>2, TopSpec DEF Walking, At, Placed
  <2>4. InBatches' = InBatches /\ graph' = graph
    BY <2>2 DEF InBatches, runVars
  <2>5. ItemsIn(group) = ItemsIn(old) \cup r.from /\ Merged(group).from = ItemsIn(group) /\ ItemsIn(<<>>) = {}
    BY <2>2, ItemsSpec
  <2>6. CASE JoinGoes(t, id, corr, group)
    <3>1. PICK frames : Goes(Merged(group), id, frames) /\ WalkOn(t, Merged(group), frames)
      BY <2>6 DEF JoinGoes
    <3>2. groups' = [groups EXCEPT ![id][corr] = <<>>]
      BY <2>6 DEF JoinGoes
    <3>3. /\ InFlight' \cup ended' \cup r.from = InFlight \cup ended \cup Merged(group).from
          /\ r.from \in SUBSET InFlight /\ Merged(group).from \in SUBSET (InFlight' \cup ended')
      BY <2>2, <2>3, <3>1, WalkFlight
    <3>4. /\ InGroups \in SUBSET (InGroups' \cup ItemsIn(old)) /\ ItemsIn(old) \in SUBSET InGroups
          /\ InGroups' \in SUBSET (InGroups \cup ItemsIn(<<>>))
      BY <2>2, <2>4, <3>2, GroupsItems
    <3> HIDE DEF r, old
    <3>. QED BY <2>4, <2>5, <3>3, <3>4 DEF Found
  <2>7. CASE JoinKeeps(t, id, corr, group)
    <3>1. Push(<<>>, t) /\ UNCHANGED endVars /\ groups' = [groups EXCEPT ![id][corr] = group]
      BY <2>7 DEF JoinKeeps
    <3>2. /\ InFlight' \cup Carries(top(t)) = InFlight \cup CarriedBy(<<>>) /\ Carries(top(t)) \in SUBSET InFlight
      BY <2>3, <3>1, OneFlight
    <3>3. Carries(top(t)) = r.from /\ CarriedBy(<<>>) = {}
      BY <2>3, OneCarried, CarriesSpec
    <3>4. /\ InGroups \in SUBSET (InGroups' \cup ItemsIn(old)) /\ ItemsIn(old) \in SUBSET InGroups
          /\ InGroups' \in SUBSET (InGroups \cup ItemsIn(group)) /\ ItemsIn(group) \in SUBSET InGroups'
      BY <2>2, <2>4, <3>1, GroupsItems
    <3> HIDE DEF r, old
    <3>. QED BY <2>4, <2>5, <3>1, <3>2, <3>3, <3>4 DEF Found, endVars
  <2>. QED BY <2>1, <2>6, <2>7
<1>12. CASE apply_batch(t)
  <2>1. PICK id, records : BatchGoes(t, id, records) \/ BatchKeeps(t, id, records)
    BY <1>12, BatchKinds
  <2> DEFINE r == top(t).rec
             old == batches[id].records
  <2>2. /\ id = top(t).at /\ id \in OfKind("batch") /\ r \in Records /\ old \in Seq(Records)
        /\ records = Append(old, r) /\ UNCHANGED groups /\ Walking(t, "batch")
    BY <2>1 DEF BatchGoes, BatchKeeps, BatchComes
  <2>3. threads[t] # <<>> /\ top(t) \in Walks /\ top(t).op \in Placed /\ id \in DOMAIN batches
    BY <2>2, TopSpec DEF Walking, At, Placed, BuffersInv
  <2>4. InGroups' = InGroups
    BY <2>2 DEF InGroups
  <2>5. ItemsIn(records) = ItemsIn(old) \cup r.from /\ Emitted(records).from = ItemsIn(records) /\ ItemsIn(<<>>) = {}
    BY <2>2, ItemsSpec
  <2>6. CASE BatchGoes(t, id, records)
    <3>1. PICK frames : Goes(Emitted(records), id, frames) /\ WalkOn(t, Emitted(records), frames)
      BY <2>6 DEF BatchGoes
    <3>2. batches' = [batches EXCEPT ![id] = EmptyBatch]
      BY <2>6 DEF BatchGoes
    <3>3. /\ InFlight' \cup ended' \cup r.from = InFlight \cup ended \cup Emitted(records).from
          /\ r.from \in SUBSET InFlight /\ Emitted(records).from \in SUBSET (InFlight' \cup ended')
      BY <2>2, <2>3, <3>1, WalkFlight
    <3>4. DOMAIN batches' = DOMAIN batches /\ batches'[id].records = <<>> /\ \A j \in DOMAIN batches : j # id => batches'[j] = batches[j]
      BY <2>3, <3>2 DEF EmptyBatch
    <3>5. /\ InBatches \in SUBSET (InBatches' \cup ItemsIn(old)) /\ ItemsIn(old) \in SUBSET InBatches
          /\ InBatches' \in SUBSET (InBatches \cup ItemsIn(<<>>))
      BY <2>3, <3>4, BatchesItems
    <3> HIDE DEF r, old
    <3>. QED BY <2>4, <2>5, <3>3, <3>5 DEF Found
  <2>7. CASE BatchKeeps(t, id, records)
    <3>1. Push(<<>>, t) /\ UNCHANGED endVars /\ batches' = [batches EXCEPT ![id] = [records |-> records, since |-> TRUE]]
      BY <2>7 DEF BatchKeeps
    <3>2. /\ InFlight' \cup Carries(top(t)) = InFlight \cup CarriedBy(<<>>) /\ Carries(top(t)) \in SUBSET InFlight
      BY <2>3, <3>1, OneFlight
    <3>3. Carries(top(t)) = r.from /\ CarriedBy(<<>>) = {}
      BY <2>3, OneCarried, CarriesSpec
    <3>4. DOMAIN batches' = DOMAIN batches /\ batches'[id].records = records /\ \A j \in DOMAIN batches : j # id => batches'[j] = batches[j]
      BY <2>3, <3>1
    <3>5. /\ InBatches \in SUBSET (InBatches' \cup ItemsIn(old)) /\ ItemsIn(old) \in SUBSET InBatches
          /\ InBatches' \in SUBSET (InBatches \cup ItemsIn(records)) /\ ItemsIn(records) \in SUBSET InBatches'
      BY <2>3, <3>4, BatchesItems
    <3> HIDE DEF r, old
    <3>. QED BY <2>4, <2>5, <3>1, <3>2, <3>3, <3>5 DEF Found, endVars
  <2>. QED BY <2>1, <2>6, <2>7
<1>. QED BY <1>2, <1>3, <1>4, <1>5, <1>6, <1>7, <1>8, <1>9, <1>10, <1>11, <1>12 DEF WalkStep

\* When the tasks are idle none has failed, and nothing is in flight.
LEMMA IdleFlight ==
  ASSUME \A t \in DOMAIN threads : threads[t] = <<>>
  PROVE  ~Failed /\ InFlight = {}
<1>1. \A t \in DOMAIN threads : threads[t] # Error
  BY DEF Error
<1>2. CarriedBy(<<>>) = {}
  BY OneCarried
<1>. QED BY <1>1, <1>2, InFlightSpec DEF Failed

\* What a step of the run pulls is accounted for.
LEMMA RunAccount ==
  ASSUME GivenInv, BuffersInv, ThreadsInv, TasksInv, AccountInv, [Next]_vars
  PROVE  AccountInv'
<1> SUFFICES ASSUME phase' # "failed", ~Failed' PROVE Pulled' = Found'
  BY DEF AccountInv, Found
<1>1. ASSUME phase # "failed", ~Failed PROVE Pulled = Found
  BY <1>1 DEF AccountInv, Found
<1>2. ASSUME UNCHANGED <<threads, ended, groups>>, DOMAIN batches' = DOMAIN batches, \A id \in DOMAIN batches : batches'[id].records = batches[id].records
      PROVE  Found' = Found /\ (Failed' <=> Failed)
  <2>1. InFlight' = InFlight /\ InGroups' = InGroups /\ (Failed' <=> Failed)
    BY <1>2 DEF InFlight, InGroups, Failed
  <2>2. InBatches' = InBatches
    BY <1>2 DEF InBatches
  <2>. QED BY <1>2, <2>1, <2>2 DEF Found
<1>3. CASE \E t \in DOMAIN threads : phase \in {"running", "flushing"} /\ WalkStep(t)
  <2>1. PICK t \in DOMAIN threads : phase \in {"running", "flushing"} /\ WalkStep(t)
    BY <1>3
  <2>2. Found' = Found /\ ~Failed /\ UNCHANGED runVars
    BY <2>1, FailedStays, WalkFound, WalkThreads
  <2>. QED BY <1>1, <2>1, <2>2 DEF Pulled, runVars
<1>4. CASE \E s \in DOMAIN pulled : run_source(s)
  <2>1. PICK s \in DOMAIN pulled : run_source(s)
    BY <1>4
  <2> DEFINE item == <<s, pulled[s] + 1>>
             w == WalkTo(Record({item}, 0), s)
  <2>2. /\ <<s>> \in DOMAIN threads /\ threads[<<s>>] = <<>> /\ s \in DOMAIN graph
        /\ Record({item}, 0) \in Records
        /\ \/ Moves(<<s>>, <<w>>) /\ UNCHANGED endVars
           \/ UNCHANGED <<threads, strayed>> /\ ended' = ended \cup {item}
        /\ pulled' = [pulled EXCEPT ![s] = @ + 1] /\ phase = "running" /\ phase' = phase
        /\ UNCHANGED bufferVars
    BY <2>1, SourceMoves
  <2>3. Pulled' = Pulled \cup {item}
    <3>1. DOMAIN pulled' = DOMAIN pulled /\ pulled'[s] = pulled[s] + 1 /\ pulled[s] \in Nat
      BY <2>2 DEF BuffersInv
    <3>2. \A u \in DOMAIN pulled : u # s => pulled'[u] = pulled[u]
      BY <2>2
    <3>3. 1..pulled[s] + 1 = (1..pulled[s]) \cup {pulled[s] + 1}
      BY <3>1
    <3>4. \A x \in Pulled' : x \in Pulled \cup {item}
      <4> SUFFICES ASSUME NEW x \in Pulled' PROVE x \in Pulled \cup {item}
        OBVIOUS
      <4>1. PICK u \in DOMAIN pulled' : x \in {u} \X (1..pulled'[u])
        BY DEF Pulled
      <4>2. x = <<u, x[2]>> /\ x[2] \in 1..pulled'[u]
        BY <4>1
      <4>3. CASE u = s /\ x[2] = pulled[s] + 1
        BY <4>2, <4>3
      <4>4. CASE u # s \/ x[2] # pulled[s] + 1
        <5>1. x[2] \in 1..pulled[u] /\ u \in DOMAIN pulled
          BY <3>1, <3>2, <3>3, <4>1, <4>2, <4>4
        <5>2. x \in {u} \X (1..pulled[u])
          BY <4>2, <5>1
        <5>. QED BY <5>1, <5>2 DEF Pulled
      <4>. QED BY <4>3, <4>4
    <3>5. \A x \in Pulled : x \in Pulled'
      <4> SUFFICES ASSUME NEW x \in Pulled PROVE x \in Pulled'
        OBVIOUS
      <4>1. PICK u \in DOMAIN pulled : x \in {u} \X (1..pulled[u])
        BY DEF Pulled
      <4>2. x = <<u, x[2]>> /\ x[2] \in 1..pulled[u]
        BY <4>1
      <4>3. x[2] \in 1..pulled'[u] /\ u \in DOMAIN pulled'
        BY <3>1, <3>2, <3>3, <4>1, <4>2
      <4>4. x \in {u} \X (1..pulled'[u])
        BY <4>2, <4>3
      <4>. QED BY <4>3, <4>4 DEF Pulled
    <3>6. item \in Pulled'
      <4>1. item \in {s} \X (1..pulled'[s]) /\ s \in DOMAIN pulled'
        BY <3>1
      <4>. QED BY <4>1 DEF Pulled
    <3>. QED BY <3>4, <3>5, <3>6
  <2>4. InGroups' = InGroups /\ InBatches' = InBatches
    BY <2>2 DEF bufferVars, InGroups, InBatches
  <2>5. CASE UNCHANGED <<threads, strayed>> /\ ended' = ended \cup {item}
    <3>1. InFlight' = InFlight /\ ~Failed
      BY <2>5 DEF InFlight, Failed
    <3>. QED BY <1>1, <2>2, <2>3, <2>4, <2>5, <3>1 DEF Found
  <2>6. CASE Moves(<<s>>, <<w>>) /\ UNCHANGED endVars
    <3>1. w \in Walks /\ w.rec.from = {item}
      BY <2>2 DEF WalkTo, Walks, Record
    <3>2. CarriedBy(<<w>>) = {item} /\ CarriedBy(threads[<<s>>]) = {}
      BY <2>2, <3>1, OneCarried, CarriesSpec
    <3>3. threads' = [threads EXCEPT ![<<s>>] = <<w>>]
      BY <2>6 DEF Moves
    <3> HIDE DEF w, item
    <3>4. InFlight' = InFlight \cup {item}
      BY <2>2, <3>2, <3>3, MovesFlight
    <3>5. ~Failed
      <4>1. threads[<<s>>] # Error
        BY <2>2 DEF Error
      <4>. QED BY <2>2, <3>3, <4>1 DEF Failed
    <3>. QED BY <1>1, <2>2, <2>3, <2>4, <2>6, <3>4, <3>5 DEF Found, endVars
  <2>. QED BY <2>2, <2>5, <2>6
<1>5. CASE RunFails \/ FlushFails
  BY <1>5 DEF RunFails, FlushFails
<1>6. CASE flush_all
  <2>1. phase = "running" /\ \A i \in DOMAIN config.roots : threads[<<config.roots[i]>>] = <<>>
    BY <1>6 DEF flush_all, Done
  <2>2. ~Failed /\ InFlight = {}
    BY <2>1, AllIdle, IdleFlight
  <2>3. threads' = [t \in {<<"flush">>} |-> <<>>] /\ UNCHANGED <<pulled, bufferVars, endVars>>
    BY <1>6 DEF flush_all
  <2>4. InFlight' = {}
    <3>1. \A t \in DOMAIN threads' : threads'[t] = <<>>
      BY <2>3
    <3>2. CarriedBy(<<>>) = {}
      BY OneCarried
    <3>. QED BY <3>1, <3>2, InFlightSpec
  <2>5. InGroups' = InGroups /\ InBatches' = InBatches /\ Pulled' = Pulled /\ ended' = ended
    BY <2>3 DEF bufferVars, endVars, InGroups, InBatches, Pulled
  <2>. QED BY <1>1, <2>1, <2>2, <2>4, <2>5 DEF Found
<1>7. CASE flush_batches
  <2>1. PICK id \in unflushed :
           /\ phase = "flushing" /\ threads[<<"flush">>] = <<>> /\ id \in OfKind("batch") /\ batches[id].records \in Seq(Records)
           /\ batches' = [batches EXCEPT ![id].records = <<>>]
           /\ UNCHANGED <<pulled, groups>>
           /\ \/ batches[id].records = <<>> /\ UNCHANGED <<threads, ended>>
              \/ /\ batches[id].records # <<>>
                 /\ \E frames :
                      /\ Goes(Emitted(batches[id].records), id, frames) /\ Moves(<<"flush">>, frames)
                      /\ ended' = IF frames = <<>> THEN ended \cup Emitted(batches[id].records).from ELSE ended
    BY <1>7, FlushMoves
  <2> DEFINE old == batches[id].records
  <2>2. ~Failed /\ InFlight = {} /\ Pulled' = Pulled /\ InGroups' = InGroups
    <3>1. ~Failed /\ InFlight = {}
      BY <2>1, AllIdle, IdleFlight
    <3>. QED BY <2>1, <3>1 DEF Pulled, InGroups
  <2>3. /\ id \in DOMAIN batches /\ DOMAIN batches' = DOMAIN batches /\ batches'[id].records = <<>>
        /\ \A j \in DOMAIN batches : j # id => batches'[j] = batches[j]
    BY <2>1 DEF BuffersInv
  <2>4. ItemsIn(<<>>) = {} /\ Emitted(old).from = ItemsIn(old)
    BY DEF ItemsIn, Emitted, Record
  <2>5. /\ InBatches \in SUBSET (InBatches' \cup ItemsIn(old)) /\ ItemsIn(old) \in SUBSET InBatches
        /\ InBatches' \in SUBSET InBatches
    BY <2>3, <2>4, BatchesItems
  <2>6. CASE old = <<>> /\ UNCHANGED <<threads, ended>>
    <3>1. InFlight' = InFlight
      BY <2>6 DEF InFlight
    <3>. QED BY <1>1, <2>1, <2>2, <2>4, <2>5, <2>6, <3>1 DEF Found
  <2>7. CASE \E frames :
               /\ Goes(Emitted(old), id, frames) /\ Moves(<<"flush">>, frames)
               /\ ended' = IF frames = <<>> THEN ended \cup Emitted(old).from ELSE ended
    <3>1. PICK frames : /\ Goes(Emitted(old), id, frames) /\ Moves(<<"flush">>, frames)
                        /\ ended' = IF frames = <<>> THEN ended \cup Emitted(old).from ELSE ended
      BY <2>7
    <3>2. CarriedBy(frames) = IF frames = <<>> THEN {} ELSE Emitted(old).from
      BY <3>1, GoesCarried
    <3>3. CarriedBy(threads[<<"flush">>]) = {}
      BY <2>1, OneCarried
    <3>4. <<"flush">> \in DOMAIN threads /\ threads' = [threads EXCEPT ![<<"flush">>] = frames]
      BY <3>1 DEF Moves
    <3> HIDE DEF old
    <3>5. InFlight' = InFlight \cup CarriedBy(frames)
      BY <3>3, <3>4, MovesFlight
    <3>. QED BY <1>1, <2>1, <2>2, <2>4, <2>5, <3>1, <3>2, <3>5 DEF Found
  <2>. QED BY <2>1, <2>6, <2>7
<1>8. CASE FlushEnds
  <2>1. phase = "flushing" /\ UNCHANGED <<pulled, threads, ended, groups, batches>>
    BY <1>8 DEF FlushEnds, bufferVars, endVars
  <2>. QED BY <1>1, <1>2, <2>1 DEF Pulled
<1>9. CASE UNCHANGED vars
  <2>1. UNCHANGED <<pulled, phase, threads, ended, groups, batches>>
    BY <1>9 DEF vars, runVars, bufferVars, endVars
  <2>. QED BY <1>1, <1>2, <2>1 DEF Pulled
<1>. QED BY <1>3, <1>4, <1>5, <1>6, <1>7, <1>8, <1>9, NextKinds

-----------------------------------------------------------------------------
(* What the flush of the batches lets go stays among the steps behind them. *)

\* A step that a batch, or one behind a batch, leads to is behind a batch.
LEMMA BehindSpec ==
  ASSUME GivenInv, NEW a \in OfKind("batch") \cup BehindBatches, NEW to \in Onward(a)
  PROVE  to \in BehindBatches
<1>1. a \in DOMAIN graph
  BY DEF OfKind, BehindBatches
<1>2. to \in DOMAIN graph
  BY <1>1, ControlGiven
<1>3. ASSUME NEW C \in SUBSET DOMAIN graph, \A b \in OfKind("batch") \cup C : Onward(b) \subseteq C PROVE to \in C
  <2>1. a \in OfKind("batch") \cup C
    BY <1>3 DEF BehindBatches
  <2>. QED BY <1>3, <2>1
<1>. QED BY <1>2, <1>3 DEF BehindBatches

\* A stack whose records are all behind batches.
Behind(pile) == \A k \in DOMAIN pile : pile[k].op \in Placed => pile[k].at \in BehindBatches

\* Frames behind batches, on what was left of a stack, are a stack behind batches.
LEMMA BehindOn ==
  ASSUME ThreadsInv, NEW t \in DOMAIN threads, threads[t] # <<>>, Behind(threads[t])
  PROVE  /\ Behind(Tail(threads[t]))
         /\ \A frames \in Seq(Frames) : Behind(frames) => Behind(frames \o Tail(threads[t]))
<1> DEFINE rest == Tail(threads[t])
<1>1. \A k \in DOMAIN rest : k + 1 \in DOMAIN threads[t] /\ rest[k] = threads[t][k + 1]
  BY TopSpec
<1>2. Behind(rest)
  BY <1>1 DEF Behind
<1>3. rest \in Seq(Frames)
  <2>1. rest \in Seq(Walks) /\ Walks \in SUBSET Frames
    BY TopSpec DEF Frames
  <2> HIDE DEF rest
  <2>. QED BY <2>1, SeqAlso
<1> HIDE DEF rest
<1>4. ASSUME NEW frames \in Seq(Frames), Behind(frames) PROVE Behind(frames \o rest)
  <2> SUFFICES ASSUME NEW k \in DOMAIN (frames \o rest), (frames \o rest)[k].op \in Placed
               PROVE  (frames \o rest)[k].at \in BehindBatches
    BY DEF Behind
  <2>1. CASE k \in 1..Len(frames)
    <3>1. (frames \o rest)[k] = frames[k] /\ k \in DOMAIN frames
      BY <1>3, <2>1, ConcatSpec
    <3>. QED BY <1>4, <3>1 DEF Behind
  <2>2. CASE \E j \in 1..Len(rest) : k = Len(frames) + j
    <3>1. PICK j \in 1..Len(rest) : k = Len(frames) + j
      BY <2>2
    <3>2. (frames \o rest)[k] = rest[j] /\ j \in DOMAIN rest
      BY <1>3, <3>1, ConcatSpec
    <3>. QED BY <1>2, <3>2 DEF Behind
  <2>. QED BY <1>3, <2>1, <2>2, ConcatSpec
<1>. QED BY <1>2, <1>4 DEF rest

\* So does a step of a thread, when all are behind batches.
LEMMA WalkBehind ==
  ASSUME GivenInv, BuffersInv, ThreadsInv, NEW t \in DOMAIN threads, WalkStep(t), \A u \in DOMAIN threads : Behind(threads[u])
  PROVE  \A u \in DOMAIN threads' : Behind(threads'[u])
<1>1. CASE Fails(t)
  <2>1. Behind(Error)
    BY DEF Behind, Error, Placed
  <2>. QED BY <1>1, <2>1 DEF Fails
<1>2. CASE Parallel(t)
  <2> DEFINE r == Correlated(top(t).rec)
             targets == graph[top(t).at].targets
             rest == Tail(threads[t])
  <2>1. /\ threads[t] # <<>> /\ top(t) \in Walks
        /\ targets \in Seq(Onward(top(t).at))
        /\ DOMAIN threads' = DOMAIN threads \cup {Append(t, i) : i \in DOMAIN targets}
        /\ threads'[t] = <<[op |-> "await"]>> \o rest
        /\ \A u \in DOMAIN threads : u # t => threads'[u] = threads[u]
        /\ \A i \in DOMAIN targets : threads'[Append(t, i)] = <<WalkTo(r, targets[i])>>
    BY <1>2, ParallelSpec
  <2>2. Behind(threads'[t])
    <3>1. <<[op |-> "await"]>> \in Seq(Frames) /\ Behind(<<[op |-> "await"]>>)
      BY DEF Frames, Marks, Behind, Placed
    <3>. QED BY <2>1, <3>1, BehindOn
  <2>3. top(t).at \in BehindBatches
    <3>1. 1 \in DOMAIN threads[t] /\ threads[t][1] = top(t) /\ top(t).op \in Placed
      BY <2>1, TopSpec DEF Walks, Placed
    <3>. QED BY <3>1 DEF Behind
  <2>4. \A i \in DOMAIN targets : targets[i] \in BehindBatches
    <3>1. \A i \in DOMAIN targets : targets[i] \in Onward(top(t).at)
      BY <2>1
    <3>. QED BY <2>3, <3>1, BehindSpec
  <2>5. \A i \in DOMAIN targets : Behind(threads'[Append(t, i)])
    <3>1. \A f : DOMAIN <<f>> = {1} /\ <<f>>[1] = f
      OBVIOUS
    <3>2. \A a \in BehindBatches : Behind(<<WalkTo(r, a)>>)
      BY <3>1 DEF Behind, WalkTo
    <3>. QED BY <2>1, <2>4, <3>2
  <2>. QED BY <2>1, <2>2, <2>5
<1>3. CASE Joined(t)
  <2>1. /\ threads[t] # <<>> /\ DOMAIN threads' \in SUBSET DOMAIN threads
        /\ \A u \in DOMAIN threads' : u # t => threads'[u] = threads[u]
        /\ threads'[t] = Error \/ threads'[t] = Tail(threads[t])
    BY <1>3, JoinedSpec
  <2>2. Behind(Error) /\ Behind(Tail(threads[t]))
    BY <2>1, BehindOn DEF Behind, Error, Placed
  <2>. QED BY <2>1, <2>2
<1>4. CASE ~Fails(t) /\ ~Parallel(t) /\ ~Joined(t)
  <2>1. PICK frames : Works(t, frames)
    BY <1>4, KindWorks DEF WalkStep
  <2>2. /\ threads[t] # <<>> /\ threads' = [threads EXCEPT ![t] = frames \o Tail(@)] /\ frames \in Seq(Frames)
        /\ \A k \in DOMAIN frames : frames[k].op \in Placed => top(t).op \in Placed /\ frames[k].at \in Onward(top(t).at) \cup {top(t).at}
    BY <2>1 DEF Works, Push
  <2>3. top(t).op \in Placed => top(t).at \in BehindBatches
    <3>1. 1 \in DOMAIN threads[t] /\ threads[t][1] = top(t)
      BY <2>2, TopSpec
    <3>. QED BY <3>1 DEF Behind
  <2>4. Behind(frames)
    BY <2>2, <2>3, BehindSpec DEF Behind
  <2>5. Behind(frames \o Tail(threads[t]))
    BY <2>2, <2>4, BehindOn
  <2>. QED BY <2>2, <2>5
<1>. QED BY <1>1, <1>2, <1>3, <1>4

\* Batches that have been flushed are filled again from another batch only.
LEMMA RunFlush ==
  ASSUME GivenInv, BuffersInv, ThreadsInv, TasksInv, FlushInv, [Next]_vars
  PROVE  FlushInv'
<1>1. BehindBatches' = BehindBatches
  BY RunThreads, GraphKeeps
<1>2. phase = "flushing" => \A t \in DOMAIN threads : Behind(threads[t])
  BY DEF FlushInv, Behind, Placed
<1>3. ASSUME phase' = "flushing" => \A t \in DOMAIN threads' : Behind(threads'[t]),
             phase' \in {"flushing", "finished"} => \A id \in DOMAIN batches' \ unflushed' : batches'[id].records # <<>> => id \in BehindBatches,
             phase' = "finished" => unflushed' = {}
      PROVE  FlushInv'
  BY <1>1, <1>3 DEF FlushInv, Behind, Placed
<1>4. CASE \E t \in DOMAIN threads : phase \in {"running", "flushing"} /\ WalkStep(t)
  <2>1. PICK t \in DOMAIN threads : phase \in {"running", "flushing"} /\ WalkStep(t)
    BY <1>4
  <2>2. UNCHANGED runVars
    BY <2>1, WalkThreads
  <2>3. phase' = "flushing" => \A u \in DOMAIN threads' : Behind(threads'[u])
    BY <1>2, <2>1, <2>2, WalkBehind DEF runVars
  <2>4. ASSUME phase = "flushing", NEW id \in DOMAIN batches' \ unflushed, batches'[id].records # <<>> PROVE id \in BehindBatches
    <3>1. CASE batches' = batches
      BY <2>4, <3>1 DEF FlushInv
    <3>2. CASE apply_batch(t)
      <4>1. PICK a, records : BatchGoes(t, a, records) \/ BatchKeeps(t, a, records)
        BY <3>2, BatchKinds
      <4>2. /\ Walking(t, "batch") /\ a = top(t).at /\ \A j \in DOMAIN batches : j # a => batches'[j] = batches[j]
            /\ DOMAIN batches' = DOMAIN batches
        BY <4>1 DEF BatchGoes, BatchKeeps, BatchComes
      <4>3. a \in BehindBatches
        <5>1. threads[t] # <<>> /\ top(t).op \in Placed
          BY <4>2 DEF Walking, At, Placed
        <5>2. 1 \in DOMAIN threads[t] /\ threads[t][1] = top(t)
          BY <5>1, TopSpec
        <5>. QED BY <1>2, <2>4, <4>2, <5>1, <5>2 DEF Behind
      <4>. QED BY <2>4, <4>2, <4>3 DEF FlushInv
    <3>3. CASE ~apply_batch(t)
      <4>1. batches' = batches
        <5>1. CASE Parallel(t) \/ Joined(t)
          BY <5>1, ParallelSpec, JoinedSpec DEF bufferVars
        <5>2. CASE Passes(t) \/ Delivers(t) \/ Fails(t) \/ Reads(t)
          BY <5>2 DEF Passes, Delivers, Fails, Reads, bufferVars
        <5>3. CASE apply_join(t) \/ update_state(t) \/ SaveState(t) \/ Checkpoint(t)
          BY <5>3 DEF apply_join, update_state, SaveState, Checkpoint, bufferVars
        <5>. QED BY <2>1, <3>3, <5>1, <5>2, <5>3 DEF WalkStep
      <4>. QED BY <3>1, <4>1
    <3>. QED BY <3>2, <3>3
  <2>. QED BY <1>3, <2>1, <2>2, <2>3, <2>4 DEF runVars
<1>5. CASE \E s \in DOMAIN pulled : run_source(s)
  BY <1>3, <1>5 DEF run_source
<1>6. CASE RunFails \/ FlushFails
  BY <1>3, <1>6 DEF RunFails, FlushFails
<1>7. CASE flush_all
  <2>1. /\ phase' = "flushing" /\ unflushed' = OfKind("batch") /\ batches' = batches /\ threads' = [t \in {<<"flush">>} |-> <<>>]
    BY <1>7 DEF flush_all, bufferVars
  <2>2. \A t \in DOMAIN threads' : Behind(threads'[t])
    BY <2>1 DEF Behind
  <2>3. DOMAIN batches = OfKind("batch")
    BY DEF BuffersInv
  <2>. QED BY <1>3, <2>1, <2>2, <2>3
<1>8. CASE flush_batches
  <2>1. PICK id \in unflushed :
           /\ phase = "flushing" /\ id \in OfKind("batch") /\ phase' = phase
           /\ unflushed' = unflushed \ {id} /\ batches' = [batches EXCEPT ![id].records = <<>>]
           /\ \/ UNCHANGED threads
              \/ \E frames : Goes(Emitted(batches[id].records), id, frames) /\ Moves(<<"flush">>, frames)
    BY <1>8, FlushMoves
  <2>2. \A t \in DOMAIN threads' : Behind(threads'[t])
    <3>1. CASE UNCHANGED threads
      BY <1>2, <2>1, <3>1
    <3>2. CASE \E frames : Goes(Emitted(batches[id].records), id, frames) /\ Moves(<<"flush">>, frames)
      <4>1. PICK frames : Goes(Emitted(batches[id].records), id, frames) /\ Moves(<<"flush">>, frames)
        BY <3>2
      <4>2. Behind(frames)
        BY <2>1, <4>1, BehindSpec DEF Goes, Behind
      <4>. QED BY <1>2, <2>1, <4>1, <4>2 DEF Moves
    <3>. QED BY <2>1, <3>1, <3>2
  <2>3. ASSUME NEW a \in DOMAIN batches' \ unflushed', batches'[a].records # <<>> PROVE a \in BehindBatches
    <3>1. DOMAIN batches' = DOMAIN batches /\ id \in DOMAIN batches
      BY <2>1 DEF BuffersInv
    <3>2. batches'[id].records = <<>> /\ \A j \in DOMAIN batches : j # id => batches'[j] = batches[j]
      BY <2>1, <3>1 DEF BuffersInv
    <3>. QED BY <2>1, <2>3, <3>1, <3>2 DEF FlushInv
  <2>. QED BY <1>3, <2>1, <2>2, <2>3
<1>9. CASE FlushEnds
  <2>1. phase = "flushing" /\ unflushed = {} /\ phase' = "finished" /\ UNCHANGED <<unflushed, batches>>
    BY <1>9 DEF FlushEnds, bufferVars
  <2>. QED BY <1>3, <2>1 DEF FlushInv
<1>10. CASE UNCHANGED vars
  BY <1>2, <1>3, <1>10 DEF FlushInv, vars, runVars, bufferVars
<1>. QED BY <1>4, <1>5, <1>6, <1>7, <1>8, <1>9, <1>10, NextKinds

-----------------------------------------------------------------------------
(* What came into a buffer has gone on or is there. *)

\* Two sets with nothing in common have as many elements as each of them together.
LEMMA DisjointSpec ==
  ASSUME NEW a, NEW b, IsFiniteSet(a), IsFiniteSet(b), a \cap b = {}
  PROVE  Cardinality(a \cup b) = Cardinality(a) + Cardinality(b) /\ IsFiniteSet(a \cup b)
<1>1. Cardinality(a) \in Nat /\ Cardinality(b) \in Nat /\ Cardinality({}) = 0
  BY FS_CardinalityType, FS_EmptySet
<1> DEFINE both == a \cap b
<1>2. IsFiniteSet(a \cup b) /\ Cardinality(a \cup b) = Cardinality(a) + Cardinality(b) - Cardinality(both)
  BY FS_Union
<1>3. both = {}
  OBVIOUS
<1> HIDE DEF both
<1>4. Cardinality(both) = 0
  BY <1>1, <1>3
<1>. QED BY <1>1, <1>2, <1>4

\* The places of the records in the groups of a join.
Places(row) == UNION {{c} \X (DOMAIN row[c]) : c \in DOMAIN row}

\* They are the places outside of one group, and as many more as that group is long.
LEMMA PlacesSpec ==
  ASSUME NEW row \in [1..MaxUuids -> Seq(Records)], NEW c \in 1..MaxUuids
  PROVE  /\ IsFiniteSet(Places([row EXCEPT ![c] = <<>>])) /\ Cardinality(Places([row EXCEPT ![c] = <<>>])) \in Nat
         /\ Cardinality(Places(row)) = Cardinality(Places([row EXCEPT ![c] = <<>>])) + Len(row[c])
<1> DEFINE rest == [row EXCEPT ![c] = <<>>]
           own == {c} \X (1..Len(row[c]))
           one == [d \in 1..MaxUuids |-> {d} \X (DOMAIN row[d])]
           Ones == {one[d] : d \in 1..MaxUuids}
<1>1. /\ \A d \in 1..MaxUuids : row[d] \in Seq(Records) /\ Len(row[d]) \in Nat /\ DOMAIN row[d] = 1..Len(row[d])
      /\ DOMAIN row = 1..MaxUuids
  OBVIOUS
<1>2. /\ DOMAIN rest = 1..MaxUuids /\ rest[c] = <<>> /\ \A d \in 1..MaxUuids : d # c => rest[d] = row[d]
  OBVIOUS
<1>3. IsFiniteSet(Places(row))
  <2>1. \A d \in 1..MaxUuids : one[d] = {d} \X (1..Len(row[d]))
    BY <1>1
  <2>2. \A d \in 1..MaxUuids : IsFiniteSet(one[d])
    <3> SUFFICES ASSUME NEW d \in 1..MaxUuids PROVE IsFiniteSet(one[d])
      OBVIOUS
    <3> DEFINE n == Len(row[d])
    <3>1. n \in Int /\ 1 \in Int
      BY <1>1
    <3> HIDE DEF n
    <3>2. IsFiniteSet({d}) /\ IsFiniteSet(1..n)
      BY <3>1, FS_Singleton, FS_Interval
    <3>3. IsFiniteSet({d} \X (1..n))
      BY <3>2, FS_Product
    <3>. QED BY <2>1, <3>3 DEF n
  <2>3. IsFiniteSet(Ones)
    <3>1. DOMAIN one = 1..MaxUuids /\ MaxUuids \in Nat
      BY ControlAssumption
    <3> HIDE DEF one
    <3>. QED BY <3>1, FiniteRange
  <2>4. Places(row) = UNION Ones
    BY <1>1 DEF Places
  <2>5. \A T \in Ones : IsFiniteSet(T)
    BY <2>2
  <2> HIDE DEF Ones
  <2>. QED BY <2>3, <2>4, <2>5, FS_UNION
<1>4. \A x : x \in Places(row) => x \in Places(rest) \cup own
  <2> SUFFICES ASSUME NEW x \in Places(row) PROVE x \in Places(rest) \cup own
    OBVIOUS
  <2>1. PICK d \in 1..MaxUuids : x \in {d} \X (DOMAIN row[d])
    BY <1>1 DEF Places
  <2>2. CASE d = c
    BY <1>1, <2>1, <2>2
  <2>3. CASE d # c
    <3>1. x \in {d} \X (DOMAIN rest[d])
      BY <1>2, <2>1, <2>3
    <3> HIDE DEF rest, own
    <3>. QED BY <1>2, <3>1 DEF Places
  <2>. QED BY <2>2, <2>3
<1>5. \A x \in Places(rest) : x \in Places(row) /\ x \notin own
  <2> SUFFICES ASSUME NEW x \in Places(rest) PROVE x \in Places(row) /\ x \notin own
    OBVIOUS
  <2> HIDE DEF rest
  <2>1. PICK d \in 1..MaxUuids : x \in {d} \X (DOMAIN rest[d])
    BY <1>2 DEF Places
  <2>2. d # c
    <3>1. DOMAIN rest[c] = {}
      BY <1>2
    <3>. QED BY <2>1, <3>1
  <2>3. x \in {d} \X (DOMAIN row[d])
    BY <1>2, <2>1, <2>2
  <2>. QED BY <1>1, <2>2, <2>3 DEF Places
<1>6. \A x \in own : x \in Places(row)
  BY <1>1 DEF Places
<1>7. IsFiniteSet(own) /\ Cardinality(own) = Len(row[c])
  <2> DEFINE n == Len(row[c])
             f == [i \in 1..n |-> <<c, i>>]
  <2>1. n \in Nat
    BY <1>1
  <2> HIDE DEF n
  <2>2. f \in Bijection(1..n, {c} \X (1..n))
    <3>1. f \in [1..n -> {c} \X (1..n)]
      OBVIOUS
    <3>2. \A i, j \in 1..n : f[i] = f[j] => i = j
      OBVIOUS
    <3>3. \A x \in {c} \X (1..n) : \E i \in 1..n : f[i] = x
      OBVIOUS
    <3> HIDE DEF f
    <3>4. f \in Injection(1..n, {c} \X (1..n))
      <4>1. DOMAIN f = 1..n
        BY <3>1
      <4>. QED BY <3>1, <3>2, <4>1 DEF Injection, IsInjective
    <3>5. f \in Surjection(1..n, {c} \X (1..n))
      BY <3>1, <3>3 DEF Surjection
    <3>. QED BY <3>4, <3>5 DEF Bijection
  <2>3. IsFiniteSet(1..n) /\ Cardinality(1..n) = n
    BY <2>1, FS_Interval
  <2>4. ExistsBijection(1..n, {c} \X (1..n))
    BY <2>2 DEF ExistsBijection
  <2>. QED BY <2>3, <2>4, FS_Bijection DEF n
<1> HIDE DEF rest, own
<1>8. IsFiniteSet(Places(rest)) /\ Places(row) = Places(rest) \cup own /\ Places(rest) \cap own = {}
  <2>1. Places(rest) \in SUBSET Places(row)
    BY <1>5
  <2>2. IsFiniteSet(Places(rest))
    BY <1>3, <2>1, FS_Subset
  <2>. QED BY <1>4, <1>5, <1>6, <2>2
<1>9. Cardinality(Places(row)) = Cardinality(Places(rest)) + Cardinality(own)
  <2> DEFINE others == Places(rest)
  <2>1. IsFiniteSet(others) /\ IsFiniteSet(own) /\ others \cap own = {} /\ Places(row) = others \cup own
    BY <1>7, <1>8
  <2> HIDE DEF others
  <2>2. Cardinality(others \cup own) = Cardinality(others) + Cardinality(own)
    BY <2>1, DisjointSpec
  <2>. QED BY <2>1, <2>2 DEF others
<1>10. Cardinality(Places(rest)) \in Nat
  BY <1>8, FS_CardinalityType
<1>. QED BY <1>7, <1>8, <1>9, <1>10 DEF rest

\* The buffers balance after a step of one thread ...
LEMMA WalkHeld ==
  ASSUME GivenInv, BuffersInv, ThreadsInv, HeldInv, NEW t \in DOMAIN threads, WalkStep(t)
  PROVE  HeldInv'
<1>1. \A id : Held(id) = Places(groups[id]) /\ Held(id)' = Places(groups'[id])
  BY DEF Held, Places
<1>2. /\ DOMAIN groups = OfKind("join") /\ DOMAIN batches = OfKind("batch")
      /\ \A id \in OfKind("join") : groups[id] \in [1..MaxUuids -> Seq(Records)]
      /\ \A id \in OfKind("batch") : batches[id].records \in Seq(Records) /\ id \notin OfKind("join")
      /\ arrived \in [OfKind("join") \cup OfKind("batch") -> Nat]
      /\ emitted \in [OfKind("join") \cup OfKind("batch") -> Nat]
  BY DEF BuffersInv, OfKind
<1>3. /\ \A id \in DOMAIN groups : arrived[id] = emitted[id] + Cardinality(Places(groups[id]))
      /\ \A id \in DOMAIN batches : arrived[id] = emitted[id] + Len(batches[id].records)
  BY <1>1 DEF HeldInv
<1>4. ASSUME UNCHANGED bufferVars PROVE HeldInv'
  BY <1>1, <1>3, <1>4 DEF HeldInv, bufferVars
<1>5. CASE apply_join(t)
  <2>1. PICK id, corr, group : JoinGoes(t, id, corr, group) \/ JoinKeeps(t, id, corr, group)
    BY <1>5, JoinKinds
  <2> DEFINE row == groups[id]
             r == top(t).rec
             none == [row EXCEPT ![corr] = <<>>]
             more == [row EXCEPT ![corr] = group]
  <2>2. /\ id \in OfKind("join") /\ corr \in 1..MaxUuids /\ r \in Records /\ group = Append(row[corr], r)
        /\ arrived' = [arrived EXCEPT ![id] = @ + 1] /\ batches' = batches
    BY <2>1 DEF JoinGoes, JoinKeeps, JoinComes
  <2>3. /\ \A j \in DOMAIN groups : j # id => groups'[j] = groups[j]
        /\ DOMAIN groups' = DOMAIN groups
        /\ \/ groups'[id] = none /\ emitted' = [emitted EXCEPT ![id] = @ + Len(group)]
           \/ groups'[id] = more /\ emitted' = emitted
    BY <1>2, <2>1, <2>2 DEF JoinGoes, JoinKeeps
  <2>4. row \in [1..MaxUuids -> Seq(Records)]
    BY <1>2, <2>2
  <2> HIDE DEF row, r
  <2>5. more \in [1..MaxUuids -> Seq(Records)] /\ more[corr] = group /\ row[corr] \in Seq(Records)
    BY <2>2, <2>4
  <2>6. [more EXCEPT ![corr] = <<>>] = none
    OBVIOUS
  <2>7. Len(row[corr]) \in Nat /\ Len(group) = Len(row[corr]) + 1
    BY <2>2, <2>5
  <2>8. Cardinality(Places(row)) = Cardinality(Places(none)) + Len(row[corr]) /\ Cardinality(Places(none)) \in Nat
    BY <2>2, <2>4, PlacesSpec
  <2> HIDE DEF none, more
  <2>9. Cardinality(Places(more)) = Cardinality(Places(none)) + Len(more[corr])
    BY <2>2, <2>5, <2>6, PlacesSpec
  <2>10. /\ Cardinality(Places(more)) = Cardinality(Places(row)) + 1
         /\ Cardinality(Places(row)) = Cardinality(Places(none)) + Len(row[corr])
         /\ Cardinality(Places(none)) \in Nat /\ Len(row[corr]) \in Nat
         /\ Len(group) = Len(row[corr]) + 1
    BY <2>5, <2>7, <2>8, <2>9
  <2>11. /\ arrived'[id] = arrived[id] + 1 /\ arrived[id] \in Nat /\ emitted[id] \in Nat
         /\ \A j \in OfKind("join") \cup OfKind("batch") : j # id => arrived'[j] = arrived[j] /\ emitted'[j] = emitted[j]
    BY <1>2, <2>2, <2>3
  <2>12. arrived'[id] = emitted'[id] + Cardinality(Places(groups'[id]))
    <3>1. arrived[id] = emitted[id] + Cardinality(Places(row))
      BY <1>2, <1>3, <2>2 DEF row
    <3>2. CASE groups'[id] = none /\ emitted' = [emitted EXCEPT ![id] = @ + Len(group)]
      <4>1. emitted'[id] = emitted[id] + Len(group)
        BY <1>2, <2>2, <3>2
      <4>2. Cardinality(Places(groups'[id])) = Cardinality(Places(none))
        BY <3>2
      <4> DEFINE kept == Cardinality(Places(none))
                 old == Len(row[corr])
      <4>3. kept \in Nat /\ old \in Nat /\ Len(group) = old + 1 /\ Cardinality(Places(row)) = kept + old
        BY <2>10
      <4> HIDE DEF kept, old
      <4>4. arrived'[id] = emitted'[id] + kept
        BY <2>11, <3>1, <4>1, <4>3
      <4>. QED BY <4>2, <4>4 DEF kept
    <3>3. CASE groups'[id] = more /\ emitted' = emitted
      BY <2>10, <2>11, <3>1, <3>3
    <3>. QED BY <2>3, <3>2, <3>3
  <2>13. \A j \in DOMAIN groups' : arrived'[j] = emitted'[j] + Cardinality(Places(groups'[j]))
    BY <1>2, <1>3, <2>3, <2>11, <2>12
  <2>14. \A j \in DOMAIN batches' : arrived'[j] = emitted'[j] + Len(batches'[j].records)
    BY <1>2, <1>3, <2>2, <2>11
  <2>. QED BY <1>1, <2>13, <2>14 DEF HeldInv
<1>6. CASE apply_batch(t)
  <2>1. PICK id, records : BatchGoes(t, id, records) \/ BatchKeeps(t, id, records)
    BY <1>6, BatchKinds
  <2>2. /\ id \in OfKind("batch") /\ top(t).rec \in Records /\ records = Append(batches[id].records, top(t).rec)
        /\ arrived' = [arrived EXCEPT ![id] = @ + 1] /\ groups' = groups
    BY <2>1 DEF BatchGoes, BatchKeeps, BatchComes
  <2>3. /\ \A j \in DOMAIN batches : j # id => batches'[j] = batches[j]
        /\ DOMAIN batches' = DOMAIN batches
        /\ \/ batches'[id].records = <<>> /\ emitted' = [emitted EXCEPT ![id] = @ + Len(records)]
           \/ batches'[id].records = records /\ emitted' = emitted
    BY <1>2, <2>1, <2>2 DEF BatchGoes, BatchKeeps, EmptyBatch
  <2>4. batches[id].records \in Seq(Records)
    BY <1>2, <2>2
  <2> DEFINE old == batches[id].records
  <2>5. Len(records) = Len(old) + 1 /\ Len(old) \in Nat /\ Len(<<>>) = 0
    BY <2>2, <2>4
  <2>6. arrived'[id] = arrived[id] + 1 /\ arrived[id] \in Nat /\ emitted[id] \in Nat
        /\ \A j \in OfKind("join") \cup OfKind("batch") : j # id => arrived'[j] = arrived[j] /\ emitted'[j] = emitted[j]
    BY <1>2, <2>2, <2>3
  <2>7. arrived'[id] = emitted'[id] + Len(batches'[id].records)
    <3>1. arrived[id] = emitted[id] + Len(old)
      BY <1>2, <1>3, <2>2
    <3>2. CASE batches'[id].records = <<>> /\ emitted' = [emitted EXCEPT ![id] = @ + Len(records)]
      <4>1. emitted'[id] = emitted[id] + Len(records)
        BY <1>2, <2>2, <3>2
      <4> HIDE DEF old
      <4>. QED BY <2>5, <2>6, <3>1, <3>2, <4>1
    <3>3. CASE batches'[id].records = records /\ emitted' = emitted
      <4> HIDE DEF old
      <4>. QED BY <2>5, <2>6, <3>1, <3>3
    <3>. QED BY <2>3, <3>2, <3>3
  <2>8. \A j \in DOMAIN groups' : arrived'[j] = emitted'[j] + Cardinality(Places(groups'[j]))
    BY <1>2, <1>3, <2>2, <2>6
  <2>9. \A j \in DOMAIN batches' : arrived'[j] = emitted'[j] + Len(batches'[j].records)
    BY <1>2, <1>3, <2>3, <2>6, <2>7
  <2>. QED BY <1>1, <2>8, <2>9 DEF HeldInv
<1>7. CASE ~apply_join(t) /\ ~apply_batch(t)
  <2>1. CASE Parallel(t) \/ Joined(t)
    BY <1>4, <2>1, ParallelSpec, JoinedSpec
  <2>2. CASE Passes(t) \/ Delivers(t) \/ Fails(t) \/ Reads(t) \/ update_state(t) \/ SaveState(t) \/ Checkpoint(t)
    BY <1>4, <2>2 DEF Passes, Delivers, Fails, Reads, update_state, SaveState, Checkpoint
  <2>. QED BY <1>7, <2>1, <2>2 DEF WalkStep
<1>. QED BY <1>5, <1>6, <1>7

\* ... and after one of the run.
LEMMA RunHeld ==
  ASSUME GivenInv, BuffersInv, ThreadsInv, TasksInv, HeldInv, [Next]_vars
  PROVE  HeldInv'
<1>1. ASSUME UNCHANGED bufferVars PROVE HeldInv'
  <2>1. \A id : Held(id)' = Held(id)
    BY <1>1 DEF Held, bufferVars
  <2>. QED BY <1>1, <2>1 DEF HeldInv, bufferVars
<1>2. CASE \E t \in DOMAIN threads : phase \in {"running", "flushing"} /\ WalkStep(t)
  BY <1>2, WalkHeld
<1>3. CASE flush_batches
  <2>1. PICK id \in unflushed :
           /\ id \in OfKind("batch") /\ batches[id].records \in Seq(Records)
           /\ batches' = [batches EXCEPT ![id].records = <<>>]
           /\ emitted' = [emitted EXCEPT ![id] = @ + Len(batches[id].records)]
           /\ UNCHANGED <<groups, arrived>>
    BY <1>3, FlushMoves
  <2>2. /\ \A j \in DOMAIN batches : j # id => batches'[j] = batches[j]
        /\ DOMAIN batches' = DOMAIN batches /\ id \in DOMAIN batches /\ batches'[id].records = <<>>
    BY <2>1 DEF BuffersInv
  <2> DEFINE n == Len(batches[id].records)
  <2>3. n \in Nat /\ Len(<<>>) = 0 /\ arrived[id] = emitted[id] + n
    BY <2>1, <2>2 DEF HeldInv
  <2>4. emitted'[id] = emitted[id] + n /\ emitted[id] \in Nat /\ \A j \in DOMAIN emitted : j # id => emitted'[j] = emitted[j]
    BY <2>1 DEF BuffersInv
  <2> HIDE DEF n
  <2>5. \A j \in DOMAIN groups : arrived'[j] = emitted'[j] + Cardinality(Held(j)')
    <3>1. \A j : Held(j)' = Held(j)
      BY <2>1 DEF Held
    <3>2. \A j \in DOMAIN groups : j # id /\ j \in DOMAIN emitted
      BY <2>1 DEF BuffersInv, OfKind
    <3>. QED BY <2>1, <2>4, <3>1, <3>2 DEF HeldInv
  <2>6. \A j \in DOMAIN batches : j # id => arrived'[j] = emitted'[j] + Len(batches'[j].records)
    <3>1. \A j \in DOMAIN batches : j \in DOMAIN emitted
      BY DEF BuffersInv
    <3>. QED BY <2>1, <2>2, <2>4, <3>1 DEF HeldInv
  <2>7. arrived'[id] = emitted'[id] + Len(batches'[id].records)
    BY <2>1, <2>2, <2>3, <2>4
  <2>. QED BY <2>1, <2>2, <2>5, <2>6, <2>7 DEF HeldInv
<1>4. CASE \E s \in DOMAIN pulled : run_source(s)
  BY <1>1, <1>4 DEF run_source
<1>5. CASE RunFails \/ flush_all \/ FlushEnds \/ FlushFails \/ UNCHANGED vars
  BY <1>1, <1>5 DEF RunFails, flush_all, FlushEnds, FlushFails, vars
<1>. QED BY <1>2, <1>3, <1>4, <1>5, NextKinds

-----------------------------------------------------------------------------
(* A join of all branches of a parallel. *)

\* A set of at most one element has no two.
LEMMA AtMostOne ==
  ASSUME NEW S, IsFiniteSet(S), Cardinality(S) <= 1, NEW x \in S, NEW y \in S
  PROVE  x = y
<1> SUFFICES ASSUME x # y PROVE FALSE
  OBVIOUS
<1>1. IsFiniteSet({x}) /\ Cardinality({x}) = 1
  BY FS_Singleton
<1>2. Cardinality({x} \cup {y}) = 2
  <2> DEFINE one == {x}
  <2>1. y \notin one /\ IsFiniteSet(one) /\ Cardinality(one) = 1
    BY <1>1
  <2> HIDE DEF one
  <2>2. Cardinality(one \cup {y}) = 2
    BY <2>1, FS_AddElement
  <2>. QED BY <2>2 DEF one
<1>3. {x} \cup {y} \in SUBSET S
  OBVIOUS
<1>4. Cardinality({x} \cup {y}) <= Cardinality(S) /\ Cardinality(S) \in Nat
  BY <1>3, FS_Subset, FS_CardinalityType
<1>. QED BY <1>2, <1>4

\* Only the parallel leads to its branches, these only to the join, and nothing else does.
LEMMA BetweenSpec ==
  ASSUME GivenInv, NEW p \in OfKind("parallel"), NEW id \in OfKind("join"), Balances(p, id)
  PROVE  /\ Len(graph[p].targets) \in Nat \ {0} /\ DOMAIN graph[p].targets = 1..Len(graph[p].targets)
         /\ p \notin Between(p, id) /\ id \notin ToSet(graph[p].targets)
         /\ \A b \in ToSet(graph[p].targets) :
              b \in DOMAIN graph /\ graph[b].kind \in {"transform", "delay", "state", "approve", "foreach"} /\ Onward(b) = {id}
         /\ \A a \in DOMAIN graph : \A to \in Onward(a) :
              /\ to \in ToSet(graph[p].targets) => a = p
              /\ to = id => a \in ToSet(graph[p].targets)
<1> DEFINE targets == graph[p].targets
           n == Len(targets)
           B == ToSet(targets)
<1>1. p \in DOMAIN graph /\ graph[p].kind = "parallel" /\ id \in DOMAIN graph /\ graph[id].kind = "join"
  BY DEF OfKind
<1>2. /\ targets \in Seq(Onward(p)) /\ Onward(p) \in SUBSET DOMAIN graph /\ targets # <<>>
      /\ \A a \in DOMAIN graph : graph[a].routes \in Seq([to : DOMAIN graph, when : BOOLEAN])
      /\ \A a \in DOMAIN graph : IsFiniteSet(RoutesInto(a)) /\ Cardinality(RoutesInto(a)) <= graph[a].incoming
  BY <1>1, ControlGiven
<1>3. PICK m \in Nat : \A i \in DOMAIN targets : m + i \in DOMAIN graph[p].routes /\ graph[p].routes[m + i].to = targets[i]
  BY <1>1, ControlGiven
<1>4. /\ graph[id].incoming = n
      /\ \A b \in B : /\ graph[b].kind \in {"transform", "delay", "state", "approve", "foreach"}
                      /\ graph[b].incoming = 1 /\ graph[b].routes = <<[to |-> id, when |-> FALSE]>>
  BY DEF Balances
<1> HIDE DEF targets
<1>5. n \in Nat \ {0} /\ DOMAIN targets = 1..n /\ \A i \in 1..n : targets[i] \in DOMAIN graph /\ targets[i] \in B
  <2>1. n \in Nat /\ DOMAIN targets = 1..n /\ n # 0 /\ \A i \in 1..n : targets[i] \in Onward(p)
    BY <1>2
  <2>. QED BY <1>2, <2>1 DEF ToSet
<1>6. \A b \in B : \E i \in 1..n : b = targets[i]
  BY <1>5 DEF ToSet
<1> HIDE DEF n, B
<1>7. ASSUME NEW a \in DOMAIN graph, NEW k \in DOMAIN graph[a].routes PROVE <<a, k>> \in RoutesInto(graph[a].routes[k].to)
  <2>1. k \in Nat
    BY <1>2
  <2>. QED BY <1>7, <2>1 DEF RoutesInto
<1>8. \A b \in B : b \in DOMAIN graph /\ Onward(b) = {id}
  <2> SUFFICES ASSUME NEW b \in B PROVE b \in DOMAIN graph /\ Onward(b) = {id}
    OBVIOUS
  <2>1. b \in DOMAIN graph
    BY <1>5, <1>6
  <2>2. DOMAIN graph[b].routes = {1} /\ graph[b].routes[1].to = id
    BY <1>4
  <2>. QED BY <2>1, <2>2 DEF Onward
<1>9. ASSUME NEW i \in 1..n, NEW e \in RoutesInto(targets[i]) PROVE e = <<p, m + i>>
  <2>1. graph[targets[i]].incoming = 1 /\ targets[i] \in DOMAIN graph
    BY <1>4, <1>5
  <2>2. <<p, m + i>> \in RoutesInto(targets[i])
    BY <1>1, <1>3, <1>5, <1>7
  <2>. QED BY <1>2, <1>9, <2>1, <2>2, AtMostOne
<1>10. ASSUME NEW i \in 1..n, NEW j \in 1..n, targets[i] = targets[j] PROVE i = j
  <2>1. <<p, m + i>> \in RoutesInto(targets[i])
    BY <1>1, <1>3, <1>5, <1>7
  <2>2. <<p, m + i>> = <<p, m + j>>
    BY <1>9, <1>10, <2>1
  <2>. QED BY <1>3, <1>5, <2>2
<1>11. ASSUME NEW a \in DOMAIN graph, NEW to \in Onward(a), to \in B PROVE a = p
  <2>1. PICK k \in DOMAIN graph[a].routes : graph[a].routes[k].to = to
    BY <1>11 DEF Onward
  <2>2. PICK i \in 1..n : to = targets[i]
    BY <1>6, <1>11
  <2>3. <<a, k>> = <<p, m + i>>
    BY <1>7, <1>9, <2>1, <2>2
  <2>. QED BY <2>3
<1>12. RoutesInto(id) = {<<targets[i], 1>> : i \in 1..n}
  <2> DEFINE f == [i \in 1..n |-> <<targets[i], 1>>]
             R == {<<targets[i], 1>> : i \in 1..n}
  <2>1. f \in Bijection(1..n, R)
    <3>1. f \in [1..n -> R] /\ DOMAIN f = 1..n
      OBVIOUS
    <3>2. \A i, j \in 1..n : f[i] = f[j] => i = j
      BY <1>10
    <3>3. \A x \in R : \E i \in 1..n : f[i] = x
      OBVIOUS
    <3> HIDE DEF f, R
    <3>4. f \in Injection(1..n, R)
      BY <3>1, <3>2 DEF Injection, IsInjective
    <3>5. f \in Surjection(1..n, R)
      BY <3>1, <3>3 DEF Surjection
    <3>. QED BY <3>4, <3>5 DEF Bijection
  <2>2. R \in SUBSET RoutesInto(id)
    <3> SUFFICES ASSUME NEW i \in 1..n PROVE <<targets[i], 1>> \in RoutesInto(id)
      OBVIOUS
    <3>1. targets[i] \in DOMAIN graph /\ DOMAIN graph[targets[i]].routes = {1} /\ graph[targets[i]].routes[1].to = id
      BY <1>4, <1>5
    <3>. QED BY <1>7, <3>1
  <2> HIDE DEF f, R
  <2>3. IsFiniteSet(1..n) /\ Cardinality(1..n) = n
    BY <1>5, FS_Interval
  <2>4. ExistsBijection(1..n, R)
    BY <2>1 DEF ExistsBijection
  <2>5. IsFiniteSet(R) /\ Cardinality(R) = n
    BY <2>3, <2>4, FS_Bijection
  <2>6. IsFiniteSet(RoutesInto(id)) /\ Cardinality(RoutesInto(id)) <= n
    BY <1>1, <1>2, <1>4
  <2>7. Cardinality(R) <= Cardinality(RoutesInto(id)) /\ (Cardinality(RoutesInto(id)) = Cardinality(R) => RoutesInto(id) = R)
    BY <2>2, <2>6, FS_Subset
  <2>8. Cardinality(RoutesInto(id)) \in Nat
    BY <2>6, FS_CardinalityType
  <2>. QED BY <1>5, <2>5, <2>6, <2>7, <2>8 DEF R
<1>13. ASSUME NEW a \in DOMAIN graph, id \in Onward(a) PROVE a \in B
  <2>1. PICK k \in DOMAIN graph[a].routes : graph[a].routes[k].to = id
    BY <1>13 DEF Onward
  <2>2. PICK i \in 1..n : <<a, k>> = <<targets[i], 1>>
    BY <1>7, <1>12, <2>1
  <2>. QED BY <1>5, <2>2
<1>14. p \notin B /\ id \notin B /\ p # id
  BY <1>1, <1>4
<1>. QED BY <1>4, <1>5, <1>8, <1>11, <1>13, <1>14 DEF Between, targets, n, B

-----------------------------------------------------------------------------
(* The records between a parallel and its join. *)

\* Frames on what was left of a stack.
LEMMA PileSpec ==
  ASSUME NEW frames \in Seq(Frames), NEW rest \in Seq(Frames), NEW ids, NEW corrs,
         ~Ahead(rest, ids, corrs), ~Beneath(rest, ids, corrs), ~Beneath(frames, ids, corrs)
  PROVE  ~Beneath(frames \o rest, ids, corrs) /\ (Ahead(frames \o rest, ids, corrs) <=> Ahead(frames, ids, corrs))
<1>1. \A k \in DOMAIN rest : ~Of(rest[k], ids, corrs)
  BY DEF Ahead, Beneath
<1>2. \A k \in DOMAIN frames : k # 1 => ~Of(frames[k], ids, corrs)
  BY DEF Beneath
<1>3. ASSUME NEW k \in DOMAIN (frames \o rest), Of((frames \o rest)[k], ids, corrs)
      PROVE  k = 1 /\ 1 \in DOMAIN frames /\ (frames \o rest)[1] = frames[1]
  <2>1. CASE k \in 1..Len(frames)
    <3>1. (frames \o rest)[k] = frames[k] /\ k \in DOMAIN frames
      BY <2>1, ConcatSpec
    <3>. QED BY <1>2, <1>3, <3>1
  <2>2. CASE \E j \in 1..Len(rest) : k = Len(frames) + j
    <3>1. PICK j \in 1..Len(rest) : k = Len(frames) + j
      BY <2>2
    <3>2. (frames \o rest)[k] = rest[j] /\ j \in DOMAIN rest
      BY <3>1, ConcatSpec
    <3>. QED BY <1>1, <1>3, <3>2
  <2>. QED BY <2>1, <2>2, ConcatSpec
<1>4. ~Beneath(frames \o rest, ids, corrs)
  BY <1>3 DEF Beneath
<1>5. ASSUME Ahead(frames \o rest, ids, corrs) PROVE Ahead(frames, ids, corrs)
  <2>1. frames \o rest # <<>> /\ Of((frames \o rest)[1], ids, corrs)
    BY <1>5 DEF Ahead
  <2>2. 1 \in DOMAIN (frames \o rest)
    <3>1. frames \o rest \in Seq(Frames)
      BY ConcatSpec
    <3>. QED BY <2>1, <3>1
  <2>3. 1 \in DOMAIN frames /\ (frames \o rest)[1] = frames[1]
    BY <1>3, <2>1, <2>2
  <2>. QED BY <2>1, <2>3 DEF Ahead
<1>6. ASSUME Ahead(frames, ids, corrs) PROVE Ahead(frames \o rest, ids, corrs)
  <2>1. frames # <<>> /\ Of(frames[1], ids, corrs)
    BY <1>6 DEF Ahead
  <2>2. 1 \in 1..Len(frames)
    BY <2>1
  <2>3. (frames \o rest)[1] = frames[1] /\ 1 \in DOMAIN (frames \o rest)
    BY <2>2, ConcatSpec
  <2>. QED BY <2>1, <2>3 DEF Ahead
<1>. QED BY <1>4, <1>5, <1>6

\* What was left of a stack, when none of it was of the records.
LEMMA RestSpec ==
  ASSUME ThreadsInv, NEW t \in DOMAIN threads, threads[t] # <<>>, NEW ids, NEW corrs, ~Beneath(threads[t], ids, corrs)
  PROVE  /\ Tail(threads[t]) \in Seq(Frames) /\ ~Ahead(Tail(threads[t]), ids, corrs) /\ ~Beneath(Tail(threads[t]), ids, corrs)
         /\ threads[t][1] = top(t)
<1> DEFINE rest == Tail(threads[t])
<1>1. /\ rest \in Seq(Walks) /\ threads[t][1] = top(t)
      /\ \A k \in DOMAIN rest : k + 1 \in DOMAIN threads[t] /\ rest[k] = threads[t][k + 1]
  BY TopSpec
<1>2. Walks \in SUBSET Frames
  BY DEF Frames
<1> HIDE DEF rest
<1>3. \A k \in DOMAIN rest : k \in Nat /\ k # 0
  BY <1>1
<1>4. \A k \in DOMAIN rest : ~Of(rest[k], ids, corrs)
  <2> SUFFICES ASSUME NEW k \in DOMAIN rest PROVE ~Of(rest[k], ids, corrs)
    OBVIOUS
  <2>1. k + 1 # 1
    BY <1>3
  <2>. QED BY <1>1, <2>1 DEF Beneath
<1>5. rest \in Seq(Frames)
  BY <1>1, <1>2, SeqAlso
<1>6. rest # <<>> => 1 \in DOMAIN rest
  BY <1>1
<1>7. ~Ahead(rest, ids, corrs) /\ ~Beneath(rest, ids, corrs)
  BY <1>4, <1>6 DEF Ahead, Beneath
<1>. QED BY <1>1, <1>5, <1>7 DEF rest

\* A thread that works off a frame is at such a record after it if one took its place.
LEMMA WorksAhead ==
  ASSUME ThreadsInv, NEW t \in DOMAIN threads, NEW frames, Works(t, frames), NEW ids, NEW corrs,
         \A u \in DOMAIN threads : ~Beneath(threads[u], ids, corrs), ~Beneath(frames, ids, corrs)
  PROVE  /\ DOMAIN threads' = DOMAIN threads /\ \A u \in DOMAIN threads : ~Beneath(threads'[u], ids, corrs)
         /\ \A u \in DOMAIN threads : u # t => threads'[u] = threads[u]
         /\ Ahead(threads'[t], ids, corrs) <=> Ahead(frames, ids, corrs)
<1>1. /\ threads[t] # <<>> /\ threads' = [threads EXCEPT ![t] = frames \o Tail(@)] /\ frames \in Seq(Frames)
  BY DEF Works, Push
<1>2. ~Beneath(frames \o Tail(threads[t]), ids, corrs) /\ (Ahead(frames \o Tail(threads[t]), ids, corrs) <=> Ahead(frames, ids, corrs))
  BY <1>1, RestSpec, PileSpec
<1>. QED BY <1>1, <1>2

-----------------------------------------------------------------------------
(* What is between a parallel and its join, after a step. *)

\* The invariant after a step that keeps the graph, in terms of the threads and groups then.
LEMMA JoinPrimes ==
  ASSUME graph' = graph, NEW p, NEW id
  PROVE  /\ Balances(p, id)' <=> Balances(p, id)
         /\ Correlates(p, id)' <=>
              \A u \in DOMAIN threads' : ~Ahead(threads'[u], Between(p, id), {0}) /\ ~Beneath(threads'[u], Between(p, id), {0})
         /\ \A c : Astray(p, c)' <=> \E b \in ToSet(graph[p].targets) : <<b, c>> \in strayed'
         /\ \A c : Whole(p, id, c)' <=>
              /\ \A u \in DOMAIN threads' : ~Beneath(threads'[u], Between(p, id), {c})
              /\ Len(groups'[id][c]) < Len(graph[p].targets)
              /\ \E m \in Nat : Cardinality({u \in DOMAIN threads' : Ahead(threads'[u], Between(p, id), {c})}) + Len(groups'[id][c])
                                  = m * Len(graph[p].targets)
<1>1. Balances(p, id)' <=> Balances(p, id)
  BY DEF Balances
<1>2. Between(p, id)' = Between(p, id)
  BY DEF Between
<1>3. Correlates(p, id)' <=>
        \A u \in DOMAIN threads' : ~Ahead(threads'[u], Between(p, id), {0}) /\ ~Beneath(threads'[u], Between(p, id), {0})
  BY <1>2 DEF Correlates
<1>4. \A c : Astray(p, c)' <=> \E b \in ToSet(graph[p].targets) : <<b, c>> \in strayed'
  BY DEF Astray
<1>5. \A c : Coming(p, id, c)' = {u \in DOMAIN threads' : Ahead(threads'[u], Between(p, id), {c})}
  BY <1>2 DEF Coming
<1>6. \A c : Whole(p, id, c)' <=>
              /\ \A u \in DOMAIN threads' : ~Beneath(threads'[u], Between(p, id), {c})
              /\ Len(groups'[id][c]) < Len(graph[p].targets)
              /\ \E m \in Nat : Cardinality(Coming(p, id, c)') + Len(groups'[id][c]) = m * Len(graph[p].targets)
  BY <1>2 DEF Whole
<1>. QED BY <1>1, <1>3, <1>4, <1>5, <1>6

\* The same threads are at such a record as were, and the group is what it was.
LEMMA WholeSame ==
  ASSUME graph' = graph, NEW p, NEW id, NEW c, Whole(p, id, c), groups'[id][c] = groups[id][c],
         \A u \in DOMAIN threads' : ~Beneath(threads'[u], Between(p, id), {c}),
         \A u \in DOMAIN threads' : Ahead(threads'[u], Between(p, id), {c}) => u \in DOMAIN threads /\ Ahead(threads[u], Between(p, id), {c}),
         \A u \in DOMAIN threads : Ahead(threads[u], Between(p, id), {c}) => u \in DOMAIN threads' /\ Ahead(threads'[u], Between(p, id), {c})
  PROVE  Whole(p, id, c)'
<1>1. Between(p, id)' = Between(p, id) /\ Coming(p, id, c)' = Coming(p, id, c)
  BY DEF Coming, Between
<1>2. /\ Len(groups[id][c]) < Len(graph[p].targets)
      /\ \E m \in Nat : Cardinality(Coming(p, id, c)) + Len(groups[id][c]) = m * Len(graph[p].targets)
  BY DEF Whole
<1>. QED BY <1>1, <1>2 DEF Whole

\* The step of a frame that is not between the two, with none in its place that is.
LEMMA WorksElsewhere ==
  ASSUME ThreadsInv, graph' = graph, NEW t \in DOMAIN threads, NEW frames, Works(t, frames), NEW p, NEW id,
         ~Of(top(t), Between(p, id), 0..MaxUuids), \A k \in DOMAIN frames : ~Of(frames[k], Between(p, id), 0..MaxUuids)
  PROVE  /\ Correlates(p, id) => Correlates(p, id)'
         /\ \A c \in 1..MaxUuids : Whole(p, id, c) /\ groups'[id][c] = groups[id][c] => Whole(p, id, c)'
<1> DEFINE ids == Between(p, id)
<1>1. threads[t] # <<>> /\ threads[t][1] = top(t) /\ frames \in Seq(Frames)
  BY TopSpec DEF Works
<1>2. ASSUME NEW c \in 0..MaxUuids, \A u \in DOMAIN threads : ~Beneath(threads[u], ids, {c})
      PROVE  /\ DOMAIN threads' = DOMAIN threads /\ \A u \in DOMAIN threads : ~Beneath(threads'[u], ids, {c})
             /\ \A u \in DOMAIN threads : u # t => threads'[u] = threads[u]
             /\ ~Ahead(threads'[t], ids, {c}) /\ ~Ahead(threads[t], ids, {c})
  <2>1. ~Of(top(t), ids, {c}) /\ \A k \in DOMAIN frames : ~Of(frames[k], ids, {c})
    BY DEF Of
  <2>2. ~Beneath(frames, ids, {c})
    BY <2>1 DEF Beneath
  <2>4. frames # <<>> => 1 \in DOMAIN frames
    BY <1>1
  <2>3. ~Ahead(frames, ids, {c}) /\ ~Ahead(threads[t], ids, {c})
    BY <1>1, <2>1, <2>4 DEF Ahead
  <2>. QED BY <1>2, <2>2, <2>3, WorksAhead
<1>3. ASSUME Correlates(p, id) PROVE Correlates(p, id)'
  <2>1. 0 \in 0..MaxUuids
    BY ControlAssumption
  <2>2. \A u \in DOMAIN threads : ~Ahead(threads[u], ids, {0}) /\ ~Beneath(threads[u], ids, {0})
    BY <1>3 DEF Correlates
  <2>3. \A u \in DOMAIN threads' : ~Ahead(threads'[u], ids, {0}) /\ ~Beneath(threads'[u], ids, {0})
    BY <1>2, <2>1, <2>2
  <2>. QED BY <2>3, JoinPrimes
<1>4. ASSUME NEW c \in 1..MaxUuids, Whole(p, id, c), groups'[id][c] = groups[id][c] PROVE Whole(p, id, c)'
  <2>0. c \in 0..MaxUuids
    OBVIOUS
  <2>1. c \in 0..MaxUuids /\ \A u \in DOMAIN threads : ~Beneath(threads[u], ids, {c})
    BY <1>4, <2>0 DEF Whole
  <2>2. /\ DOMAIN threads' = DOMAIN threads /\ \A u \in DOMAIN threads : ~Beneath(threads'[u], ids, {c})
        /\ \A u \in DOMAIN threads : u # t => threads'[u] = threads[u]
        /\ ~Ahead(threads'[t], ids, {c}) /\ ~Ahead(threads[t], ids, {c})
    BY <1>2, <2>1
  <2>. QED BY <1>4, <2>2, WholeSame
<1>. QED BY <1>3, <1>4

\* Steps and correlations where a record has gone astray stay so.
LEMMA StrayedGrows ==
  ASSUME GivenInv, BuffersInv, ThreadsInv, NEW t \in DOMAIN threads, WalkStep(t)
  PROVE  strayed \in SUBSET strayed'
<1>1. ASSUME NEW r, NEW frames, WalkOn(t, r, frames) PROVE strayed \in SUBSET strayed'
  BY <1>1 DEF WalkOn
<1>2. CASE Passes(t)
  BY <1>1, <1>2 DEF Passes
<1>3. CASE SaveState(t)
  BY <1>1, <1>3 DEF SaveState
<1>4. CASE apply_join(t)
  <2>1. PICK id, corr, group : JoinGoes(t, id, corr, group) \/ JoinKeeps(t, id, corr, group)
    BY <1>4, JoinKinds
  <2>. QED BY <1>1, <2>1 DEF JoinGoes, JoinKeeps, endVars
<1>5. CASE apply_batch(t)
  <2>1. PICK id, records : BatchGoes(t, id, records) \/ BatchKeeps(t, id, records)
    BY <1>5, BatchKinds
  <2>. QED BY <1>1, <2>1 DEF BatchGoes, BatchKeeps, endVars
<1>6. CASE Parallel(t) \/ Joined(t)
  BY <1>6, ParallelSpec, JoinedSpec DEF endVars
<1>7. CASE Delivers(t) \/ Fails(t) \/ Reads(t) \/ update_state(t) \/ Checkpoint(t)
  BY <1>7 DEF Delivers, Fails, Reads, update_state, Checkpoint, endVars
<1>. QED BY <1>2, <1>3, <1>4, <1>5, <1>6, <1>7 DEF WalkStep

\* A record at a branch goes on to the join as one, or it has gone astray there.
LEMMA BranchWorks ==
  ASSUME GivenInv, BuffersInv, ThreadsInv, NEW t \in DOMAIN threads, Passes(t) \/ Reads(t) \/ update_state(t) \/ SaveState(t),
         NEW id, Onward(top(t).at) = {id}
  PROVE  \E frames :
           /\ Works(t, frames)
           /\ \A k \in DOMAIN frames :
                frames[k].op \in Placed /\ frames[k].rec = top(t).rec /\ frames[k].at \in {top(t).at, id}
           /\ Len(frames) = 1 \/ <<top(t).at, top(t).rec.corr>> \in strayed'
<1>1. ASSUME NEW frames, Goes(top(t).rec, top(t).at, frames), WalkOn(t, top(t).rec, frames), threads[t] # <<>>, top(t).op \in Placed
      PROVE  /\ Works(t, frames)
             /\ \A k \in DOMAIN frames :
                  frames[k].op \in Placed /\ frames[k].rec = top(t).rec /\ frames[k].at \in {top(t).at, id}
             /\ Len(frames) = 1 \/ <<top(t).at, top(t).rec.corr>> \in strayed'
  <2>1. Works(t, frames)
    BY <1>1, GoesWorks DEF WalkOn
  <2>2. \A k \in DOMAIN frames : frames[k].op \in Placed /\ frames[k].rec = top(t).rec /\ frames[k].at \in {top(t).at, id}
    <3>1. \A k \in DOMAIN frames : frames[k] \in Walks /\ frames[k].rec = top(t).rec /\ frames[k].at \in Onward(top(t).at)
      BY <1>1 DEF Goes
    <3>. QED BY <3>1 DEF Walks, Placed
  <2>. QED BY <1>1, <2>1, <2>2 DEF WalkOn
<1>2. ASSUME NEW f \in Frames, Push(<<f>>, t), threads[t] # <<>>, top(t).op \in Placed,
             f.op \in {"write", "save"}, f.op = "write" => Reads(t), f.rec = top(t).rec, f.at = top(t).at
      PROVE  /\ Works(t, <<f>>)
             /\ \A k \in DOMAIN <<f>> :
                  <<f>>[k].op \in Placed /\ <<f>>[k].rec = top(t).rec /\ <<f>>[k].at \in {top(t).at, id}
             /\ Len(<<f>>) = 1
  <2>1. Works(t, <<f>>)
    BY <1>2, OneWorks
  <2>. QED BY <1>2, <2>1 DEF Placed
<1>3. CASE Passes(t)
  <2>1. threads[t] # <<>> /\ top(t).op \in Placed
    BY <1>3 DEF Passes, At, Placed
  <2>2. PICK frames : Goes(top(t).rec, top(t).at, frames) /\ WalkOn(t, top(t).rec, frames)
    BY <1>3 DEF Passes
  <2>. QED BY <1>1, <2>1, <2>2
<1>4. CASE SaveState(t)
  <2>1. threads[t] # <<>> /\ top(t).op \in Placed /\ top(t) \in Updates
    BY <1>4, TopSpec DEF SaveState, At, Placed
  <2>2. PICK frames \in route(top(t).rec, top(t).at) : WalkOn(t, top(t).rec, frames)
    BY <1>4 DEF SaveState
  <2>3. top(t).rec \in Records /\ top(t).at \in DOMAIN graph
    BY <2>1 DEF Updates, OfKind
  <2>4. Goes(top(t).rec, top(t).at, frames)
    BY <2>3, RouteGoes
  <2>. QED BY <1>1, <2>1, <2>2, <2>4
<1>5. CASE Reads(t)
  <2> DEFINE f == [op |-> "write", rec |-> top(t).rec, at |-> top(t).at, seen |-> states[top(t).at]]
  <2>1. threads[t] # <<>> /\ top(t).op = "walk" /\ top(t) \in Walks /\ graph[top(t).at].kind = "state" /\ Push(<<f>>, t)
    BY <1>5, TopSpec DEF Reads, Walking, At
  <2>2. f \in Updates
    <3>1. top(t).at \in OfKind("state") /\ top(t).rec \in Records
      BY <2>1 DEF Walks, OfKind
    <3>2. states[top(t).at] \in Nat
      BY <3>1 DEF BuffersInv
    <3>. QED BY <3>1, <3>2 DEF Updates
  <2>3. f \in Frames /\ f.op = "write" /\ f.rec = top(t).rec /\ f.at = top(t).at /\ top(t).op \in Placed
    BY <2>1, <2>2 DEF Frames, Placed
  <2> HIDE DEF f
  <2>. QED BY <1>2, <1>5, <2>1, <2>3
<1>6. CASE update_state(t)
  <2> DEFINE f == [top(t) EXCEPT !.op = "save", !.seen = @ + 1]
  <2>1. threads[t] # <<>> /\ top(t).op \in Placed /\ top(t) \in Updates /\ Push(<<f>>, t)
    BY <1>6, TopSpec DEF update_state, At, Placed
  <2>2. f \in Updates /\ f.op = "save" /\ f.at = top(t).at /\ f.rec = top(t).rec
    BY <2>1, SaveSpec
  <2>3. f \in Frames
    BY <2>2 DEF Frames
  <2> HIDE DEF f
  <2>. QED BY <1>2, <2>1, <2>2, <2>3
<1>. QED BY <1>3, <1>4, <1>5, <1>6

\* A record goes astray once and for all, so it is enough to look at those that have not.
LEMMA BalancedNext ==
  ASSUME GivenInv, BuffersInv, ThreadsInv, graph' = graph, NEW p, NEW id, Balanced(p, id),
         strayed \in SUBSET strayed', Correlates(p, id)',
         \A c \in 1..MaxUuids : Whole(p, id, c) => Astray(p, c)' \/ Whole(p, id, c)'
  PROVE  Balanced(p, id)'
<1>1. \A c : Astray(p, c) => Astray(p, c)'
  BY JoinPrimes DEF Astray
<1>2. \A c \in 1..MaxUuids : Astray(p, c)' \/ Whole(p, id, c)'
  BY <1>1 DEF Balanced
<1>. QED BY <1>2 DEF Balanced

\* A step of a thread that is not between the two, nor comes there.
LEMMA ElsewhereJoin ==
  ASSUME GivenInv, BuffersInv, ThreadsInv, NEW t \in DOMAIN threads, WalkStep(t),
         NEW p \in OfKind("parallel"), NEW id \in OfKind("join"), Balances(p, id), Balanced(p, id),
         ~Parallel(t), ~Joined(t), ~Fails(t), ~(top(t).op \in Placed /\ top(t).at \in Between(p, id))
  PROVE  Balanced(p, id)'
<1>1. threads[t] # <<>> /\ graph' = graph
  <2>1. (\E frames : Works(t, frames)) /\ UNCHANGED runVars
    BY KindWorks DEF WalkStep
  <2>. QED BY <2>1 DEF Works, runVars
<1>2. \E frames : Works(t, frames) /\ \A k \in DOMAIN frames : ~Of(frames[k], Between(p, id), 0..MaxUuids)
  <2>1. CASE top(t).op \in Placed /\ top(t).at = p
    <3>1. graph[top(t).at].kind = "parallel"
      BY <2>1 DEF OfKind
    <3>2. CASE Passes(t)
      <4>1. PICK frames : Goes(top(t).rec, top(t).at, frames) /\ WalkOn(t, top(t).rec, frames) /\ frames = <<>>
        BY <3>1, <3>2 DEF Passes
      <4>2. Works(t, frames) /\ DOMAIN frames = {}
        BY <1>1, <2>1, <4>1, GoesWorks DEF WalkOn
      <4>. QED BY <4>2
    <3>3. CASE update_state(t) \/ SaveState(t)
      <4>1. top(t).at \in OfKind("state")
        BY <1>1, <3>3, TopSpec DEF update_state, SaveState, At, Updates
      <4>. QED BY <3>1, <4>1 DEF OfKind
    <3>4. CASE Checkpoint(t)
      BY <2>1, <3>4 DEF Checkpoint, At, Placed
    <3>5. CASE Delivers(t) \/ Reads(t) \/ apply_join(t) \/ apply_batch(t)
      BY <3>1, <3>5 DEF Delivers, Reads, apply_join, apply_batch, Walking
    <3>. QED BY <3>2, <3>3, <3>4, <3>5 DEF WalkStep
  <2>2. CASE ~(top(t).op \in Placed /\ top(t).at = p)
    <3>1. PICK frames : Works(t, frames)
      BY KindWorks DEF WalkStep
    <3>2. ASSUME NEW k \in DOMAIN frames, Of(frames[k], Between(p, id), 0..MaxUuids) PROVE FALSE
      <4>1. frames[k].op \in Placed /\ frames[k].at \in Between(p, id)
        BY <3>2 DEF Of, Placed
      <4>2. top(t).op \in Placed /\ frames[k].at \in Onward(top(t).at) \cup {top(t).at}
        BY <3>1, <3>2, <4>1 DEF Works
      <4>3. top(t).at \in DOMAIN graph
        BY <1>1, <4>2, TopSpec DEF Placed, Walks, Updates, OfKind
      <4>4. frames[k].at \in Onward(top(t).at) /\ top(t).at \notin Between(p, id) /\ top(t).at # p
        BY <2>2, <4>1, <4>2
      <4>5. frames[k].at \in ToSet(graph[p].targets) \/ frames[k].at = id
        BY <4>1 DEF Between
      <4>. QED BY <4>3, <4>4, <4>5, BetweenSpec DEF Between
    <3>. QED BY <3>1, <3>2
  <2>. QED BY <2>1, <2>2
<1>3. PICK frames : Works(t, frames) /\ \A k \in DOMAIN frames : ~Of(frames[k], Between(p, id), 0..MaxUuids)
  BY <1>2
<1>4. ~Of(top(t), Between(p, id), 0..MaxUuids)
  BY DEF Of, Placed
<1>5. groups'[id] = groups[id]
  <2>1. CASE apply_join(t)
    <3>1. PICK j, corr, group : JoinGoes(t, j, corr, group) \/ JoinKeeps(t, j, corr, group)
      BY <2>1, JoinKinds
    <3>2. j = top(t).at /\ At(t, "walk")
      BY <3>1 DEF JoinGoes, JoinKeeps, JoinComes, Walking
    <3>3. j # id
      BY <3>2 DEF At, Placed, Between
    <3>. QED BY <3>1, <3>3 DEF JoinGoes, JoinKeeps, BuffersInv
  <2>2. CASE apply_batch(t)
    <3>1. PICK j, records : BatchGoes(t, j, records) \/ BatchKeeps(t, j, records)
      BY <2>2, BatchKinds
    <3>. QED BY <3>1 DEF BatchGoes, BatchKeeps, BatchComes
  <2>3. CASE Passes(t) \/ Delivers(t) \/ Reads(t) \/ update_state(t) \/ SaveState(t) \/ Checkpoint(t)
    BY <2>3 DEF Passes, Delivers, Reads, update_state, SaveState, Checkpoint, bufferVars
  <2>. QED BY <2>1, <2>2, <2>3 DEF WalkStep
<1>6. /\ Correlates(p, id) => Correlates(p, id)'
      /\ \A c \in 1..MaxUuids : Whole(p, id, c) /\ groups'[id][c] = groups[id][c] => Whole(p, id, c)'
  BY <1>1, <1>3, <1>4, WorksElsewhere
<1>. QED BY <1>1, <1>5, <1>6, StrayedGrows, BalancedNext DEF Balanced

\* A step of a thread at a branch.
LEMMA BranchJoin ==
  ASSUME GivenInv, BuffersInv, ThreadsInv, NEW t \in DOMAIN threads, WalkStep(t),
         NEW p \in OfKind("parallel"), NEW id \in OfKind("join"), Balances(p, id), Balanced(p, id),
         Passes(t) \/ Reads(t) \/ update_state(t) \/ SaveState(t), top(t).at \in ToSet(graph[p].targets)
  PROVE  Balanced(p, id)'
<1> DEFINE ids == Between(p, id)
           r == top(t).rec
<1>1. graph' = graph /\ groups' = groups
  BY DEF Passes, Reads, update_state, SaveState, bufferVars, runVars
<1>2. Onward(top(t).at) = {id} /\ top(t).at \in ids /\ id \in ids
  BY BetweenSpec DEF Between
<1>3. PICK frames :
         /\ Works(t, frames)
         /\ \A k \in DOMAIN frames : frames[k].op \in Placed /\ frames[k].rec = r /\ frames[k].at \in {top(t).at, id}
         /\ Len(frames) = 1 \/ <<top(t).at, r.corr>> \in strayed'
  BY <1>2, BranchWorks
<1>4. threads[t] # <<>> /\ threads[t][1] = top(t) /\ frames \in Seq(Frames) /\ top(t) \in Frames
  BY <1>3, TopSpec DEF Works
<1>5. top(t).op \in Placed
  BY <1>3 DEF Passes, Reads, update_state, SaveState, Walking, At, Placed
<1>6. Of(top(t), ids, {r.corr}) /\ \A c : Of(top(t), ids, {c}) => c = r.corr
  BY <1>2, <1>5 DEF Of, Placed
<1>7. \A c : \A k \in DOMAIN frames : Of(frames[k], ids, {c}) <=> c = r.corr
  BY <1>2, <1>3 DEF Of, Placed
<1> HIDE DEF ids, r
<1>8. \A c : Ahead(threads[t], ids, {c}) <=> c = r.corr
  BY <1>4, <1>6 DEF Ahead
<1>9. Len(frames) = 1 => /\ \A c : ~Beneath(frames, ids, {c})
                         /\ \A c : Ahead(frames, ids, {c}) <=> c = r.corr
  <2> SUFFICES ASSUME Len(frames) = 1 PROVE \A c : ~Beneath(frames, ids, {c}) /\ (Ahead(frames, ids, {c}) <=> c = r.corr)
    OBVIOUS
  <2>1. DOMAIN frames = {1} /\ frames # <<>>
    BY <1>4
  <2>. QED BY <1>7, <2>1 DEF Ahead, Beneath
<1>10. ASSUME NEW c, c # r.corr PROVE ~Beneath(frames, ids, {c}) /\ ~Ahead(frames, ids, {c})
  <2>1. \A k \in DOMAIN frames : ~Of(frames[k], ids, {c})
    BY <1>7, <1>10
  <2>2. frames # <<>> => 1 \in DOMAIN frames
    BY <1>4
  <2>. QED BY <2>1, <2>2 DEF Ahead, Beneath
<1>11. ASSUME NEW c, c # r.corr \/ Len(frames) = 1, \A u \in DOMAIN threads : ~Beneath(threads[u], ids, {c})
       PROVE  /\ DOMAIN threads' = DOMAIN threads /\ \A u \in DOMAIN threads : ~Beneath(threads'[u], ids, {c})
              /\ \A u \in DOMAIN threads : Ahead(threads'[u], ids, {c}) <=> Ahead(threads[u], ids, {c})
  <2>1. ~Beneath(frames, ids, {c}) /\ (Ahead(frames, ids, {c}) <=> Ahead(threads[t], ids, {c}))
    BY <1>8, <1>9, <1>10, <1>11
  <2>. QED BY <1>3, <1>11, <2>1, WorksAhead
<1>12. Correlates(p, id)'
  <2>1. \A u \in DOMAIN threads : ~Ahead(threads[u], ids, {0}) /\ ~Beneath(threads[u], ids, {0})
    BY DEF Balanced, Correlates, ids
  <2>2. 0 # r.corr
    BY <1>8, <2>1
  <2>3. \A u \in DOMAIN threads' : ~Ahead(threads'[u], ids, {0}) /\ ~Beneath(threads'[u], ids, {0})
    BY <1>11, <2>1, <2>2
  <2>. QED BY <1>1, <2>3, JoinPrimes DEF ids
<1>13. ASSUME NEW c \in 1..MaxUuids, Whole(p, id, c) PROVE Astray(p, c)' \/ Whole(p, id, c)'
  <2>1. CASE c = r.corr /\ Len(frames) # 1
    <3>1. <<top(t).at, c>> \in strayed'
      BY <1>3, <2>1 DEF r
    <3>. QED BY <1>1, <3>1, JoinPrimes
  <2>2. CASE c # r.corr \/ Len(frames) = 1
    <3>1. \A u \in DOMAIN threads : ~Beneath(threads[u], ids, {c})
      BY <1>13 DEF Whole, ids
    <3>2. /\ DOMAIN threads' = DOMAIN threads /\ \A u \in DOMAIN threads : ~Beneath(threads'[u], ids, {c})
          /\ \A u \in DOMAIN threads : Ahead(threads'[u], ids, {c}) <=> Ahead(threads[u], ids, {c})
      BY <1>11, <2>2, <3>1
    <3>. QED BY <1>1, <1>13, <3>2, WholeSame DEF ids
  <2>. QED BY <2>1, <2>2
<1>. QED BY <1>1, <1>12, <1>13, StrayedGrows, BalancedNext

\* Branches that have ended are nowhere.
LEMMA JoinedJoin ==
  ASSUME GivenInv, BuffersInv, ThreadsInv, NEW t \in DOMAIN threads, Joined(t), ~Failed',
         NEW p \in OfKind("parallel"), NEW id \in OfKind("join"), Balances(p, id), Balanced(p, id)
  PROVE  Balanced(p, id)'
<1> DEFINE ids == Between(p, id)
<1>1. /\ threads[t] # <<>> /\ top(t).op = "await" /\ UNCHANGED <<runVars, bufferVars, stateVars, endVars, uuids>>
      /\ t \notin Branches(t) /\ DOMAIN threads' = DOMAIN threads \ Branches(t)
      /\ \A u \in DOMAIN threads' : u # t => threads'[u] = threads[u]
      /\ \/ threads'[t] = Error
         \/ threads'[t] = Tail(threads[t]) /\ \A b \in Branches(t) : threads[b] = <<>>
  BY JoinedSpec
<1>2. graph' = graph /\ groups' = groups /\ strayed' = strayed
  BY <1>1 DEF runVars, bufferVars, endVars
<1>3. threads'[t] = Tail(threads[t]) /\ \A b \in Branches(t) : threads[b] = <<>>
  BY <1>1 DEF Failed
<1> HIDE DEF ids
<1>4. ASSUME NEW c, \A u \in DOMAIN threads : ~Beneath(threads[u], ids, {c})
      PROVE  /\ \A u \in DOMAIN threads' : ~Beneath(threads'[u], ids, {c})
             /\ \A u \in DOMAIN threads' : Ahead(threads'[u], ids, {c}) => u \in DOMAIN threads /\ Ahead(threads[u], ids, {c})
             /\ \A u \in DOMAIN threads : Ahead(threads[u], ids, {c}) => u \in DOMAIN threads' /\ Ahead(threads'[u], ids, {c})
  <2>1. ~Ahead(threads'[t], ids, {c}) /\ ~Beneath(threads'[t], ids, {c})
    <3> DEFINE rest == Tail(threads[t])
    <3>1. ~Ahead(rest, ids, {c}) /\ ~Beneath(rest, ids, {c})
      BY <1>1, <1>4, RestSpec
    <3>. QED BY <1>3, <3>1
  <2>2. ~Ahead(threads[t], ids, {c})
    <3>1. threads[t][1].op = "await"
      BY <1>1, TopSpec
    <3>. QED BY <3>1 DEF Ahead, Of
  <2>3. \A b \in Branches(t) : ~Ahead(threads[b], ids, {c})
    BY <1>3 DEF Ahead
  <2>. QED BY <1>1, <1>4, <2>1, <2>2, <2>3
<1>5. Correlates(p, id)'
  <2>1. \A u \in DOMAIN threads : ~Ahead(threads[u], ids, {0}) /\ ~Beneath(threads[u], ids, {0})
    BY DEF Balanced, Correlates, ids
  <2>2. \A u \in DOMAIN threads' : ~Ahead(threads'[u], ids, {0}) /\ ~Beneath(threads'[u], ids, {0})
    BY <1>4, <2>1
  <2>. QED BY <1>2, <2>2, JoinPrimes DEF ids
<1>6. ASSUME NEW c \in 1..MaxUuids, Whole(p, id, c) PROVE Whole(p, id, c)'
  <2>1. \A u \in DOMAIN threads : ~Beneath(threads[u], ids, {c})
    BY <1>6 DEF Whole, ids
  <2>2. /\ \A u \in DOMAIN threads' : ~Beneath(threads'[u], ids, {c})
        /\ \A u \in DOMAIN threads' : Ahead(threads'[u], ids, {c}) => u \in DOMAIN threads /\ Ahead(threads[u], ids, {c})
        /\ \A u \in DOMAIN threads : Ahead(threads[u], ids, {c}) => u \in DOMAIN threads' /\ Ahead(threads'[u], ids, {c})
    BY <1>4, <2>1
  <2>. QED BY <1>2, <1>6, <2>2, WholeSame DEF ids
<1>. QED BY <1>2, <1>5, <1>6, BalancedNext

\* Of a record of the parallel, one comes to every branch: as many as the join waits for.
LEMMA ParallelJoin ==
  ASSUME GivenInv, BuffersInv, ThreadsInv, NEW t \in DOMAIN threads, Parallel(t),
         NEW p \in OfKind("parallel"), NEW id \in OfKind("join"), Balances(p, id), Balanced(p, id)
  PROVE  Balanced(p, id)'
<1> DEFINE ids == Between(p, id)
           q == top(t).at
           r == Correlated(top(t).rec)
           targets == graph[q].targets
           new == {Append(t, i) : i \in DOMAIN targets}
           rest == Tail(threads[t])
<1>1. /\ threads[t] # <<>> /\ top(t) \in Walks /\ q \in OfKind("parallel")
      /\ r.corr \in 1..MaxUuids
      /\ targets \in Seq(Onward(q))
      /\ DOMAIN threads' = DOMAIN threads \cup new
      /\ threads'[t] = <<[op |-> "await"]>> \o rest
      /\ \A u \in DOMAIN threads : u # t => threads'[u] = threads[u]
      /\ \A i \in DOMAIN targets : Append(t, i) \notin DOMAIN threads /\ threads'[Append(t, i)] = <<WalkTo(r, targets[i])>>
      /\ UNCHANGED <<runVars, bufferVars, stateVars, endVars>>
  BY ParallelSpec
<1>2. graph' = graph /\ groups' = groups /\ strayed' = strayed
  BY <1>1 DEF runVars, bufferVars, endVars
<1>3. q \in DOMAIN graph /\ q \notin ids
  BY <1>1, BetweenSpec DEF Between, OfKind
<1>4. \A i \in DOMAIN targets : targets[i] \in ids <=> q = p
  <2>1. \A i \in DOMAIN targets : targets[i] \in Onward(q)
    BY <1>1
  <2>2. ASSUME q = p PROVE \A i \in DOMAIN targets : targets[i] \in ids
    BY <1>1, <2>2 DEF Between, ToSet
  <2>3. ASSUME NEW i \in DOMAIN targets, targets[i] \in ids PROVE q = p
    <3>1. targets[i] \in ToSet(graph[p].targets) \/ targets[i] = id
      BY <2>3 DEF Between
    <3>2. q \notin ToSet(graph[p].targets)
      BY <1>3 DEF Between
    <3>. QED BY <1>3, <2>1, <3>1, <3>2, BetweenSpec
  <2>. QED BY <2>2, <2>3
<1>5. \A c : \A i \in DOMAIN targets : /\ Ahead(<<WalkTo(r, targets[i])>>, ids, {c}) <=> q = p /\ c = r.corr
                                   /\ ~Beneath(<<WalkTo(r, targets[i])>>, ids, {c})
  <2> SUFFICES ASSUME NEW c, NEW i \in DOMAIN targets
               PROVE  /\ Ahead(<<WalkTo(r, targets[i])>>, ids, {c}) <=> q = p /\ c = r.corr
                      /\ ~Beneath(<<WalkTo(r, targets[i])>>, ids, {c})
    OBVIOUS
  <2> DEFINE f == WalkTo(r, targets[i])
  <2>1. Of(f, ids, {c}) <=> q = p /\ c = r.corr
    <3>1. f.op = "walk" /\ f.at = targets[i] /\ f.rec = r
      BY DEF WalkTo
    <3> HIDE DEF f, r, targets, ids
    <3>. QED BY <1>4, <3>1 DEF Of
  <2> HIDE DEF f
  <2>2. <<f>> # <<>> /\ <<f>>[1] = f /\ DOMAIN <<f>> = {1}
    OBVIOUS
  <2>3. Ahead(<<f>>, ids, {c}) <=> q = p /\ c = r.corr
    BY <2>1, <2>2 DEF Ahead
  <2>4. ~Beneath(<<f>>, ids, {c})
    BY <2>2 DEF Beneath
  <2>. QED BY <2>3, <2>4 DEF f
<1>6. ~Ahead(threads[t], ids, 0..MaxUuids) /\ \A c : ~Ahead(threads[t], ids, {c})
  <2>1. threads[t][1] = top(t)
    BY <1>1, TopSpec
  <2>. QED BY <1>3, <2>1 DEF Ahead, Of
<1> HIDE DEF ids, q, r, targets, new
<1>7. ASSUME NEW c, \A u \in DOMAIN threads : ~Beneath(threads[u], ids, {c})
      PROVE  /\ \A u \in DOMAIN threads' : ~Beneath(threads'[u], ids, {c})
             /\ \A u \in DOMAIN threads : Ahead(threads'[u], ids, {c}) <=> Ahead(threads[u], ids, {c})
             /\ \A u \in new : Ahead(threads'[u], ids, {c}) <=> q = p /\ c = r.corr
  <2>1. rest \in Seq(Frames) /\ ~Ahead(rest, ids, {c}) /\ ~Beneath(rest, ids, {c}) /\ rest \in Seq(Walks)
    BY <1>1, <1>7, RestSpec, TopSpec
  <2> DEFINE pile == <<[op |-> "await"]>> \o rest
  <2> HIDE DEF rest
  <2>2. /\ pile # <<>> /\ pile[1] = [op |-> "await"]
        /\ \A k \in DOMAIN pile : k # 1 => k - 1 \in DOMAIN rest /\ pile[k] = rest[k - 1]
    BY <2>1, AwaitsSpec
  <2> HIDE DEF pile
  <2>3. ~Ahead(pile, ids, {c})
    BY <2>2 DEF Ahead, Of
  <2>4. \A k \in DOMAIN rest : ~Of(rest[k], ids, {c})
    <3>1. DOMAIN rest # {} => rest # <<>>
      OBVIOUS
    <3>. QED BY <2>1, <3>1 DEF Ahead, Beneath
  <2>5. ~Beneath(pile, ids, {c})
    BY <2>2, <2>4 DEF Beneath
  <2>6. threads'[t] = pile
    BY <1>1 DEF pile
  <2>7. \A u \in new : ~Beneath(threads'[u], ids, {c}) /\ (Ahead(threads'[u], ids, {c}) <=> q = p /\ c = r.corr)
    BY <1>1, <1>5 DEF new
  <2>8. \A u \in DOMAIN threads : ~Beneath(threads'[u], ids, {c}) /\ (Ahead(threads'[u], ids, {c}) <=> Ahead(threads[u], ids, {c}))
    BY <1>1, <1>6, <1>7, <2>3, <2>5, <2>6
  <2>. QED BY <1>1, <2>7, <2>8
<1>8. Correlates(p, id)'
  <2>1. \A u \in DOMAIN threads : ~Ahead(threads[u], ids, {0}) /\ ~Beneath(threads[u], ids, {0})
    BY DEF Balanced, Correlates, ids
  <2>2. 0 # r.corr
    BY <1>1
  <2>3. \A u \in DOMAIN threads' : ~Ahead(threads'[u], ids, {0}) /\ ~Beneath(threads'[u], ids, {0})
    BY <1>1, <1>7, <2>1, <2>2
  <2>. QED BY <1>2, <2>3, JoinPrimes DEF ids
<1>9. ASSUME NEW c \in 1..MaxUuids, Whole(p, id, c) PROVE Whole(p, id, c)'
  <2>1. \A u \in DOMAIN threads : ~Beneath(threads[u], ids, {c})
    BY <1>9 DEF Whole, ids
  <2>2. /\ \A u \in DOMAIN threads' : ~Beneath(threads'[u], ids, {c})
        /\ \A u \in DOMAIN threads : Ahead(threads'[u], ids, {c}) <=> Ahead(threads[u], ids, {c})
        /\ \A u \in new : Ahead(threads'[u], ids, {c}) <=> q = p /\ c = r.corr
    BY <1>7, <2>1
  <2>3. CASE ~(q = p /\ c = r.corr)
    <3>1. \A u \in DOMAIN threads' : Ahead(threads'[u], ids, {c}) => u \in DOMAIN threads /\ Ahead(threads[u], ids, {c})
      BY <1>1, <2>2, <2>3
    <3>2. \A u \in DOMAIN threads : Ahead(threads[u], ids, {c}) => u \in DOMAIN threads' /\ Ahead(threads'[u], ids, {c})
      BY <1>1, <2>2
    <3>. QED BY <1>2, <1>9, <2>2, <3>1, <3>2, WholeSame DEF ids
  <2>4. CASE q = p /\ c = r.corr
    <3> DEFINE coming == {u \in DOMAIN threads' : Ahead(threads'[u], ids, {c})}
               old == Coming(p, id, c)
               n == Len(graph[p].targets)
    <3>1. coming = old \cup new
      BY <1>1, <2>2, <2>4 DEF Coming, ids
    <3>2. old \cap new = {} /\ IsFiniteSet(old)
      <4>1. old \in SUBSET DOMAIN threads /\ IsFiniteSet(DOMAIN threads)
        BY DEF Coming, ThreadsInv
      <4>2. IsFiniteSet(old)
        BY <4>1, FS_Subset
      <4>3. \A x \in new : x \notin DOMAIN threads
        BY <1>1 DEF new
      <4> HIDE DEF old
      <4>. QED BY <4>1, <4>2, <4>3
    <3>3. n \in Nat \ {0} /\ DOMAIN targets = 1..n
      BY <2>4, BetweenSpec DEF targets
    <3>4. IsFiniteSet(new) /\ Cardinality(new) = n
      <4> DEFINE f == [i \in 1..n |-> Append(t, i)]
      <4>1. f \in Bijection(1..n, new)
        <5>1. f \in [1..n -> new] /\ DOMAIN f = 1..n
          BY <3>3 DEF new
        <5>2. \A i, j \in 1..n : f[i] = f[j] => i = j
          <6> SUFFICES ASSUME NEW i \in 1..n, NEW j \in 1..n, Append(t, i) = Append(t, j) PROVE i = j
            OBVIOUS
          <6>1. t \in Seq(Tags) /\ i \in Tags /\ j \in Tags
            BY <3>3 DEF ThreadsInv, Tags
          <6>. QED BY <6>1, AppendSpec
        <5>3. \A x \in new : \E i \in 1..n : f[i] = x
          BY <3>3 DEF new
        <5> HIDE DEF f
        <5>4. f \in Injection(1..n, new)
          BY <5>1, <5>2 DEF Injection, IsInjective
        <5>5. f \in Surjection(1..n, new)
          BY <5>1, <5>3 DEF Surjection
        <5>. QED BY <5>4, <5>5 DEF Bijection
      <4> HIDE DEF f
      <4>2. IsFiniteSet(1..n) /\ Cardinality(1..n) = n
        BY <3>3, FS_Interval
      <4>3. ExistsBijection(1..n, new)
        BY <4>1 DEF ExistsBijection
      <4>. QED BY <4>2, <4>3, FS_Bijection
    <3> HIDE DEF old
    <3>5. Cardinality(old \cup new) = Cardinality(old) + n
      BY <3>2, <3>4, DisjointSpec
    <3>6. Cardinality(old) \in Nat /\ Len(groups[id][c]) \in Nat
      <4>1. groups[id][c] \in Seq(Records)
        <5>1. groups \in [OfKind("join") -> [1..MaxUuids -> Seq(Records)]]
          BY DEF BuffersInv
        <5>2. groups[id] \in [1..MaxUuids -> Seq(Records)]
          BY <5>1
        <5>. QED BY <5>2
      <4>. QED BY <3>2, <4>1, FS_CardinalityType
    <3>7. PICK m \in Nat : Cardinality(old) + Len(groups[id][c]) = m * n
      BY <1>9 DEF Whole, old
    <3> DEFINE waiting == Len(groups[id][c])
               count == Cardinality(old)
    <3>8. Cardinality(coming) + waiting = (m + 1) * n /\ m + 1 \in Nat
      <4>1. Cardinality(coming) = count + n /\ count \in Nat /\ waiting \in Nat /\ count + waiting = m * n
        BY <3>1, <3>5, <3>6, <3>7
      <4> HIDE DEF waiting, count, n, coming
      <4>2. (m + 1) * n = m * n + n
        BY <3>3
      <4>. QED BY <3>3, <4>1, <4>2
    <3>9. waiting < n
      BY <1>9 DEF Whole
    <3>10. \E k \in Nat : Cardinality(coming) + waiting = k * n
      <4> HIDE DEF waiting, n, coming
      <4>. QED BY <3>8
    <3>. QED BY <1>2, <2>2, <3>9, <3>10, JoinPrimes DEF ids
  <2>. QED BY <2>3, <2>4
<1>. QED BY <1>2, <1>8, <1>9, BalancedNext

\* A record at the join waits with the others, or is the last one and they go on.
LEMMA ApplyJoin ==
  ASSUME GivenInv, BuffersInv, ThreadsInv, NEW t \in DOMAIN threads, WalkStep(t), apply_join(t),
         NEW p \in OfKind("parallel"), NEW id \in OfKind("join"), Balances(p, id), Balanced(p, id), top(t).at = id
  PROVE  Balanced(p, id)'
<1> DEFINE ids == Between(p, id)
           r == top(t).rec
           n == Len(graph[p].targets)
<1>1. PICK corr, group : JoinGoes(t, id, corr, group) \/ JoinKeeps(t, id, corr, group)
  <2>1. PICK j, corr, group : JoinGoes(t, j, corr, group) \/ JoinKeeps(t, j, corr, group)
    BY JoinKinds
  <2>2. j = id
    BY <2>1 DEF JoinGoes, JoinKeeps, JoinComes
  <2>. QED BY <2>1, <2>2
<1>2. /\ At(t, "walk") /\ corr \in 1..MaxUuids /\ group = Append(groups[id][corr], r) /\ groups[id][corr] \in Seq(Records)
      /\ (r.corr # 0 => corr = r.corr) /\ graph' = graph
  BY <1>1 DEF JoinGoes, JoinKeeps, JoinComes, Walking, runVars
<1>3. threads[t] # <<>> /\ threads[t][1] = top(t) /\ top(t).op = "walk" /\ id \in ids /\ top(t) \in Walks
  BY <1>2, TopSpec DEF At, Between
<1>4. \A c : Ahead(threads[t], ids, {c}) <=> c = r.corr
  BY <1>3 DEF Ahead, Of
<1>5. \A u \in DOMAIN threads : ~Ahead(threads[u], ids, {0}) /\ ~Beneath(threads[u], ids, {0})
  BY DEF Balanced, Correlates
<1>6. r.corr # 0 /\ corr = r.corr
  BY <1>2, <1>4, <1>5
<1>7. \E frames : Works(t, frames) /\ \A k \in DOMAIN frames : ~(frames[k].at \in ids)
  <2>1. ASSUME NEW frames, \E m : Goes(m, id, frames), Push(frames, t)
        PROVE  Works(t, frames) /\ \A k \in DOMAIN frames : ~(frames[k].at \in ids)
    <3>1. PICK m : Goes(m, id, frames)
      BY <2>1
    <3>2. Works(t, frames)
      BY <1>3, <2>1, <3>1, GoesWorks DEF Placed
    <3>3. ASSUME NEW k \in DOMAIN frames, frames[k].at \in ids PROVE FALSE
      <4>1. frames[k].at \in Onward(id) /\ id \in DOMAIN graph
        BY <3>1 DEF Goes, OfKind
      <4>2. frames[k].at \in ToSet(graph[p].targets) \/ frames[k].at = id
        BY <3>3 DEF Between
      <4>3. id # p /\ id \notin ToSet(graph[p].targets)
        BY BetweenSpec DEF Between
      <4>. QED BY <4>1, <4>2, <4>3, BetweenSpec
    <3>. QED BY <3>2, <3>3
  <2>2. CASE JoinGoes(t, id, corr, group)
    BY <2>1, <2>2 DEF JoinGoes, WalkOn
  <2>3. CASE JoinKeeps(t, id, corr, group)
    <3>1. Push(<<>>, t) /\ Goes(r, id, <<>>)
      BY <2>3 DEF JoinKeeps, Goes
    <3>. QED BY <2>1, <3>1
  <2>. QED BY <1>1, <2>2, <2>3
<1>8. PICK frames : Works(t, frames) /\ \A k \in DOMAIN frames : ~(frames[k].at \in ids)
  BY <1>7
<1>9. \A c : ~Ahead(frames, ids, {c}) /\ ~Beneath(frames, ids, {c})
  <2>1. frames # <<>> => 1 \in DOMAIN frames
    BY <1>8 DEF Works
  <2>. QED BY <1>8, <2>1 DEF Ahead, Beneath, Of
<1> HIDE DEF ids, r, n
<1>10. ASSUME NEW c, \A u \in DOMAIN threads : ~Beneath(threads[u], ids, {c})
       PROVE  /\ DOMAIN threads' = DOMAIN threads /\ \A u \in DOMAIN threads : ~Beneath(threads'[u], ids, {c})
              /\ \A u \in DOMAIN threads : u # t => threads'[u] = threads[u]
              /\ ~Ahead(threads'[t], ids, {c})
  BY <1>8, <1>9, <1>10, WorksAhead
<1>11. Correlates(p, id)'
  <2>1. \A u \in DOMAIN threads' : ~Ahead(threads'[u], ids, {0}) /\ ~Beneath(threads'[u], ids, {0})
    BY <1>5, <1>10
  <2>. QED BY <1>2, <2>1, JoinPrimes DEF ids
<1>12. groups \in [OfKind("join") -> [1..MaxUuids -> Seq(Records)]]
  BY DEF BuffersInv
<1>13. /\ \A c \in 1..MaxUuids : c # corr => groups'[id][c] = groups[id][c]
       /\ \/ Ready(graph[id], group) /\ groups'[id][corr] = <<>>
          \/ ~Ready(graph[id], group) /\ groups'[id][corr] = group
  <2>1. ASSUME NEW g, groups' = [groups EXCEPT ![id][corr] = g]
        PROVE  groups'[id][corr] = g /\ \A c \in 1..MaxUuids : c # corr => groups'[id][c] = groups[id][c]
    <3>1. groups'[id] = [groups[id] EXCEPT ![corr] = g] /\ groups[id] \in [1..MaxUuids -> Seq(Records)]
      BY <1>12, <2>1
    <3>. QED BY <1>2, <3>1
  <2>2. CASE JoinGoes(t, id, corr, group)
    BY <2>1, <2>2 DEF JoinGoes
  <2>3. CASE JoinKeeps(t, id, corr, group)
    BY <2>1, <2>3 DEF JoinKeeps
  <2>. QED BY <1>1, <2>2, <2>3
<1>14. n \in Nat \ {0} /\ (Ready(graph[id], group) <=> Len(group) >= n)
  <2>1. n \in Nat \ {0}
    BY BetweenSpec DEF n
  <2>2. graph[id].mode = "all" /\ graph[id].incoming = n
    BY DEF Balances, n
  <2>3. Len(group) \in Nat /\ Len(group) = Len(groups[id][corr]) + 1 /\ Len(groups[id][corr]) \in Nat
    <3> DEFINE old == groups[id][corr]
    <3>1. old \in Seq(Records) /\ group = Append(old, r)
      BY <1>2
    <3> HIDE DEF old
    <3>. QED BY <3>1 DEF old
  <2>. QED BY <2>1, <2>2, <2>3 DEF Ready
<1>15. ASSUME NEW c \in 1..MaxUuids, Whole(p, id, c) PROVE Whole(p, id, c)'
  <2>1. \A u \in DOMAIN threads : ~Beneath(threads[u], ids, {c})
    BY <1>15 DEF Whole, ids
  <2>2. /\ DOMAIN threads' = DOMAIN threads /\ \A u \in DOMAIN threads : ~Beneath(threads'[u], ids, {c})
        /\ \A u \in DOMAIN threads : u # t => threads'[u] = threads[u]
        /\ ~Ahead(threads'[t], ids, {c})
    BY <1>10, <2>1
  <2>3. CASE c # corr
    <3>1. ~Ahead(threads[t], ids, {c})
      BY <1>4, <1>6, <2>3
    <3>2. groups'[id][c] = groups[id][c]
      BY <1>13, <2>3
    <3>. QED BY <1>2, <1>15, <2>2, <3>1, <3>2, WholeSame DEF ids
  <2>4. CASE c = corr
    <3> DEFINE coming == {u \in DOMAIN threads' : Ahead(threads'[u], ids, {c})}
               old == Coming(p, id, c)
               count == Cardinality(old)
               held == Len(groups[id][c])
    <3>1. Ahead(threads[t], ids, {c})
      BY <1>4, <1>6, <2>4
    <3>2. coming = old \ {t} /\ t \in old
      BY <2>2, <3>1 DEF Coming, ids
    <3>3. IsFiniteSet(old)
      <4>1. old \in SUBSET DOMAIN threads /\ IsFiniteSet(DOMAIN threads)
        BY DEF Coming, ThreadsInv
      <4>. QED BY <4>1, FS_Subset
    <3> HIDE DEF old, coming
    <3>4. Cardinality(coming) = count - 1 /\ count \in Nat /\ Cardinality(coming) \in Nat
      <4>1. IsFiniteSet(old \ {t}) /\ Cardinality(old \ {t}) = Cardinality(old) - 1
        BY <3>2, <3>3, FS_RemoveElement
      <4>. QED BY <3>2, <3>3, <4>1, FS_CardinalityType
    <3>5. held \in Nat /\ Len(group) = held + 1 /\ Len(<<>>) = 0
      <4> DEFINE waiting == groups[id][c]
      <4>1. waiting \in Seq(Records) /\ group = Append(waiting, r)
        BY <1>2, <2>4
      <4> HIDE DEF waiting
      <4>2. Len(waiting) \in Nat /\ Len(group) = Len(waiting) + 1
        BY <4>1
      <4>. QED BY <4>2 DEF waiting
    <3>6. PICK m \in Nat : count + held = m * n
      BY <1>15 DEF Whole, old, n
    <3>7. held < n
      BY <1>15 DEF Whole, n
    <3>8. Len(groups'[id][c]) < n /\ \E k \in Nat : Cardinality(coming) + Len(groups'[id][c]) = k * n
      <4> DEFINE now == Len(groups'[id][c])
                 size == Cardinality(coming)
      <4>1. CASE Ready(graph[id], group)
        <5>1. now = 0 /\ held + 1 >= n
          BY <1>13, <1>14, <2>4, <3>5, <4>1
        <5>2. size + now = m * n - n /\ m # 0
          <6>1. size = count - 1 /\ count \in Nat /\ size \in Nat /\ held \in Nat /\ held = n - 1 /\ count + held = m * n
            BY <1>14, <3>4, <3>5, <3>6, <3>7, <5>1
          <6> HIDE DEF now, size, count, held
          <6>2. size + now = m * n - n
            BY <1>14, <5>1, <6>1
          <6>3. ASSUME m = 0 PROVE FALSE
            <7>1. m * n = 0
              BY <1>14, <6>3
            <7>. QED BY <1>14, <6>1, <7>1
          <6>. QED BY <6>2, <6>3
        <5> HIDE DEF now, size
        <5>3. m - 1 \in Nat /\ (m - 1) * n = m * n - n
          BY <1>14, <5>2
        <5>4. size + now = (m - 1) * n
          BY <5>2, <5>3
        <5>5. now < n
          BY <1>14, <5>1
        <5>6. now < n /\ \E k \in Nat : size + now = k * n
          BY <5>3, <5>4, <5>5
        <5>. QED BY <5>6 DEF now, size
      <4>2. CASE ~Ready(graph[id], group)
        <5>1. now = held + 1 /\ held + 1 < n
          BY <1>13, <1>14, <2>4, <3>5, <4>2
        <5>2. size = count - 1 /\ count \in Nat /\ held \in Nat
          BY <3>4, <3>5
        <5> HIDE DEF now, size, count, held
        <5>3. size + now = m * n
          BY <1>14, <3>6, <5>1, <5>2
        <5>4. now < n /\ \E k \in Nat : size + now = k * n
          BY <5>1, <5>3
        <5>. QED BY <5>4 DEF now, size
      <4> HIDE DEF now, size
      <4>. QED BY <4>1, <4>2
    <3>. QED BY <1>2, <2>2, <3>8, JoinPrimes DEF ids, n, coming
  <2>. QED BY <2>3, <2>4
<1>. QED BY <1>2, <1>11, <1>15, StrayedGrows, BalancedNext

\* Every step of a thread keeps a parallel and its join balanced.
LEMMA WalkJoin ==
  ASSUME GivenInv, BuffersInv, ThreadsInv, NEW t \in DOMAIN threads, WalkStep(t), ~Failed',
         NEW p \in OfKind("parallel"), NEW id \in OfKind("join"), Balances(p, id), Balanced(p, id)
  PROVE  Balanced(p, id)'
<1>1. CASE Fails(t)
  <2>1. t \in DOMAIN threads' /\ threads'[t] = Error
    BY <1>1 DEF Fails
  <2>. QED BY <2>1 DEF Failed
<1>2. CASE Parallel(t)
  BY <1>2, ParallelJoin
<1>3. CASE Joined(t)
  BY <1>3, JoinedJoin
<1>4. CASE ~Parallel(t) /\ ~Joined(t) /\ ~Fails(t) /\ ~(top(t).op \in Placed /\ top(t).at \in Between(p, id))
  BY <1>4, ElsewhereJoin
<1>5. CASE ~Parallel(t) /\ ~Joined(t) /\ ~Fails(t) /\ top(t).op \in Placed /\ top(t).at = id
  <2>1. graph[id].kind = "join" /\ ~graph[id].when
    BY DEF OfKind, Balances
  <2>2. CASE apply_join(t)
    BY <1>5, <2>2, ApplyJoin
  <2>3. CASE Passes(t)
    BY <1>5, <2>1, <2>3 DEF Passes
  <2>4. CASE update_state(t) \/ SaveState(t)
    <3>1. top(t).at \in OfKind("state")
      BY <2>4, TopSpec DEF update_state, SaveState, At, Updates
    <3>. QED BY <1>5, <2>1, <3>1 DEF OfKind
  <2>5. CASE Checkpoint(t)
    BY <1>5, <2>5 DEF Checkpoint, At, Placed
  <2>6. CASE Delivers(t) \/ Reads(t) \/ apply_batch(t)
    BY <1>5, <2>1, <2>6 DEF Delivers, Reads, apply_batch, Walking
  <2>. QED BY <1>5, <2>2, <2>3, <2>4, <2>5, <2>6 DEF WalkStep
<1>6. CASE ~Parallel(t) /\ ~Joined(t) /\ ~Fails(t) /\ top(t).op \in Placed /\ top(t).at \in ToSet(graph[p].targets)
  <2>1. graph[top(t).at].kind \in {"transform", "delay", "state", "approve", "foreach"}
    BY <1>6, BetweenSpec
  <2>2. CASE Passes(t) \/ Reads(t) \/ update_state(t) \/ SaveState(t)
    BY <1>6, <2>2, BranchJoin
  <2>3. ~Checkpoint(t)
    BY <1>6 DEF Checkpoint, At, Placed
  <2>4. ~Delivers(t) /\ ~apply_join(t) /\ ~apply_batch(t)
    <3>1. \A kind \in {"sink", "join", "batch"} : ~Walking(t, kind)
      BY <2>1 DEF Walking
    <3>. QED BY <3>1 DEF Delivers, apply_join, apply_batch
  <2>. QED BY <1>6, <2>2, <2>3, <2>4 DEF WalkStep
<1>. QED BY <1>1, <1>2, <1>3, <1>4, <1>5, <1>6 DEF Between

\* A step that takes nothing from between the two, and puts nothing there.
LEMMA CalmJoin ==
  ASSUME GivenInv, BuffersInv, ThreadsInv, UNCHANGED <<graph, groups, strayed>>, NEW p, NEW id, Balanced(p, id),
         \A u \in DOMAIN threads' : \/ u \in DOMAIN threads /\ threads'[u] = threads[u]
                                    \/ /\ threads'[u] \in Seq(Frames)
                                       /\ \A k \in DOMAIN threads'[u] : ~(threads'[u][k].op \in Placed /\ threads'[u][k].at \in Between(p, id)),
         \A u \in DOMAIN threads : threads[u] = <<>> \/ (u \in DOMAIN threads' /\ threads'[u] = threads[u])
  PROVE  Balanced(p, id)'
<1> DEFINE ids == Between(p, id)
<1> HIDE DEF ids
<1>1. ASSUME NEW c, \A u \in DOMAIN threads : ~Beneath(threads[u], ids, {c})
      PROVE  /\ \A u \in DOMAIN threads' : ~Beneath(threads'[u], ids, {c})
             /\ \A u \in DOMAIN threads' : Ahead(threads'[u], ids, {c}) => u \in DOMAIN threads /\ Ahead(threads[u], ids, {c})
             /\ \A u \in DOMAIN threads : Ahead(threads[u], ids, {c}) => u \in DOMAIN threads' /\ Ahead(threads'[u], ids, {c})
  <2>1. ASSUME NEW u \in DOMAIN threads', threads'[u] \in Seq(Frames),
               \A k \in DOMAIN threads'[u] : ~(threads'[u][k].op \in Placed /\ threads'[u][k].at \in ids)
        PROVE  ~Ahead(threads'[u], ids, {c}) /\ ~Beneath(threads'[u], ids, {c})
    <3>1. \A k \in DOMAIN threads'[u] : ~Of(threads'[u][k], ids, {c})
      BY <2>1 DEF Of, Placed
    <3>2. threads'[u] # <<>> => 1 \in DOMAIN threads'[u]
      BY <2>1
    <3>. QED BY <3>1, <3>2 DEF Ahead, Beneath
  <2>2. \A u \in DOMAIN threads : Ahead(threads[u], ids, {c}) => threads[u] # <<>>
    BY DEF Ahead
  <2>. QED BY <1>1, <2>1, <2>2 DEF ids
<1>2. Correlates(p, id)'
  <2>1. \A u \in DOMAIN threads : ~Ahead(threads[u], ids, {0}) /\ ~Beneath(threads[u], ids, {0})
    BY DEF Balanced, Correlates, ids
  <2>2. \A u \in DOMAIN threads' : ~Ahead(threads'[u], ids, {0}) /\ ~Beneath(threads'[u], ids, {0})
    BY <1>1, <2>1
  <2>. QED BY <2>2, JoinPrimes DEF ids
<1>3. ASSUME NEW c \in 1..MaxUuids, Whole(p, id, c) PROVE Whole(p, id, c)'
  <2>1. \A u \in DOMAIN threads : ~Beneath(threads[u], ids, {c})
    BY <1>3 DEF Whole, ids
  <2>2. /\ \A u \in DOMAIN threads' : ~Beneath(threads'[u], ids, {c})
        /\ \A u \in DOMAIN threads' : Ahead(threads'[u], ids, {c}) => u \in DOMAIN threads /\ Ahead(threads[u], ids, {c})
        /\ \A u \in DOMAIN threads : Ahead(threads[u], ids, {c}) => u \in DOMAIN threads' /\ Ahead(threads'[u], ids, {c})
    BY <1>1, <2>1
  <2>. QED BY <1>3, <2>2, WholeSame DEF ids
<1>. QED BY <1>2, <1>3, BalancedNext

\* So does every step of the run.
LEMMA RunJoin ==
  ASSUME GivenInv, BuffersInv, ThreadsInv, TasksInv, JoinInv, [Next]_vars
  PROVE  JoinInv'
<1>1. graph' = graph
  BY RunThreads
<1> SUFFICES ASSUME phase' # "failed", ~Failed', NEW p \in OfKind("parallel"), NEW id \in OfKind("join"), Balances(p, id)
             PROVE  Balanced(p, id)'
  <2>1. \A p, id : Balances(p, id)' <=> Balances(p, id)
    BY <1>1, JoinPrimes
  <2>. QED BY <1>1, <2>1, GraphKeeps DEF JoinInv
<1>2. phase # "failed" /\ ~Failed => Balanced(p, id)
  BY DEF JoinInv
<1>3. CASE \E t \in DOMAIN threads : phase \in {"running", "flushing"} /\ WalkStep(t)
  <2>1. PICK t \in DOMAIN threads : phase \in {"running", "flushing"} /\ WalkStep(t)
    BY <1>3
  <2>2. ~Failed
    BY <2>1, FailedStays
  <2>. QED BY <1>2, <2>1, <2>2, WalkJoin
<1>4. CASE \E s \in DOMAIN pulled : run_source(s)
  <2>1. PICK s \in DOMAIN pulled : run_source(s)
    BY <1>4
  <2>2. /\ <<s>> \in DOMAIN threads /\ threads[<<s>>] = <<>> /\ s \in DOMAIN graph /\ graph[s].kind = "source"
        /\ Record({<<s, pulled[s] + 1>>}, 0) \in Records
        /\ \/ /\ Moves(<<s>>, <<WalkTo(Record({<<s, pulled[s] + 1>>}, 0), s)>>) /\ UNCHANGED endVars
           \/ UNCHANGED <<threads, strayed>> /\ ended' = ended \cup {<<s, pulled[s] + 1>>}
        /\ phase = "running"
        /\ UNCHANGED <<config, graph, phase, unflushed, bufferVars, stateVars, uuids>>
    BY <2>1, SourceMoves
  <2>3. groups' = groups /\ strayed' = strayed
    BY <2>2 DEF bufferVars, endVars
  <2>4. s \notin Between(p, id)
    <3>1. id \in DOMAIN graph /\ graph[id].kind = "join"
      BY DEF OfKind
    <3>2. s \notin ToSet(graph[p].targets)
      BY <2>2, BetweenSpec
    <3>. QED BY <2>2, <3>1, <3>2 DEF Between
  <2>5. CASE UNCHANGED threads
    <3>1. ~Failed
      BY <2>5 DEF Failed
    <3>. QED BY <1>1, <1>2, <2>2, <2>3, <2>5, <3>1, CalmJoin
  <2>6. CASE Moves(<<s>>, <<WalkTo(Record({<<s, pulled[s] + 1>>}, 0), s)>>)
    <3> DEFINE f == WalkTo(Record({<<s, pulled[s] + 1>>}, 0), s)
    <3>1. f.at = s
      BY DEF WalkTo
    <3> HIDE DEF f
    <3>2. /\ <<f>> \in Seq(Frames) /\ DOMAIN threads' = DOMAIN threads /\ threads'[<<s>>] = <<f>>
          /\ \A u \in DOMAIN threads : u # <<s>> => threads'[u] = threads[u]
      BY <2>6 DEF Moves, f
    <3>3. \A k \in DOMAIN <<f>> : ~(<<f>>[k].op \in Placed /\ <<f>>[k].at \in Between(p, id))
      <4>1. DOMAIN <<f>> = {1} /\ <<f>>[1] = f
        OBVIOUS
      <4>. QED BY <2>4, <3>1, <4>1
    <3>4. ~Failed
      <4>1. threads[<<s>>] # Error
        BY <2>2 DEF Error
      <4>. QED BY <3>2, <4>1 DEF Failed
    <3>5. \A u \in DOMAIN threads' :
            \/ u \in DOMAIN threads /\ threads'[u] = threads[u]
            \/ /\ threads'[u] \in Seq(Frames)
               /\ \A k \in DOMAIN threads'[u] : ~(threads'[u][k].op \in Placed /\ threads'[u][k].at \in Between(p, id))
      BY <3>2, <3>3
    <3>6. \A u \in DOMAIN threads : threads[u] = <<>> \/ (u \in DOMAIN threads' /\ threads'[u] = threads[u])
      BY <2>2, <3>2
    <3>. QED BY <1>1, <1>2, <2>2, <2>3, <3>4, <3>5, <3>6, CalmJoin
  <2>. QED BY <2>2, <2>5, <2>6
<1>5. CASE flush_all
  <2>1. /\ phase = "running" /\ \A i \in DOMAIN config.roots : threads[<<config.roots[i]>>] = <<>>
        /\ threads' = [t \in {<<"flush">>} |-> <<>>] /\ UNCHANGED <<groups, strayed>>
    BY <1>5 DEF flush_all, Done, bufferVars, endVars
  <2>2. \A t \in DOMAIN threads : threads[t] = <<>>
    BY <2>1, AllIdle
  <2>3. ~Failed
    BY <2>2, IdleFlight
  <2>4. \A u \in DOMAIN threads' : threads'[u] = <<>>
    BY <2>1
  <2>5. <<>> \in Seq(Frames) /\ DOMAIN <<>> = {}
    OBVIOUS
  <2>6. \A u \in DOMAIN threads' :
          /\ threads'[u] \in Seq(Frames)
          /\ \A k \in DOMAIN threads'[u] : ~(threads'[u][k].op \in Placed /\ threads'[u][k].at \in Between(p, id))
    BY <2>4, <2>5
  <2>7. phase # "failed"
    BY <2>1
  <2>. QED BY <1>1, <1>2, <2>1, <2>2, <2>3, <2>6, <2>7, CalmJoin
<1>6. CASE flush_batches
  <2>1. PICK b \in unflushed :
           /\ phase = "flushing" /\ threads[<<"flush">>] = <<>> /\ b \in OfKind("batch")
           /\ UNCHANGED <<groups, strayed>>
           /\ \/ UNCHANGED threads
              \/ \E frames : Goes(Emitted(batches[b].records), b, frames) /\ Moves(<<"flush">>, frames)
    BY <1>6, FlushMoves
  <2>2. \A t \in DOMAIN threads : threads[t] = <<>>
    BY <2>1, AllIdle
  <2>3. ~Failed
    BY <2>2, IdleFlight
  <2>4. CASE UNCHANGED threads
    BY <1>1, <1>2, <2>1, <2>3, <2>4, CalmJoin
  <2>5. CASE \E frames : Goes(Emitted(batches[b].records), b, frames) /\ Moves(<<"flush">>, frames)
    <3>1. PICK frames : Goes(Emitted(batches[b].records), b, frames) /\ Moves(<<"flush">>, frames)
      BY <2>5
    <3>2. /\ frames \in Seq(Frames) /\ DOMAIN threads' = DOMAIN threads /\ threads'[<<"flush">>] = frames
          /\ \A u \in DOMAIN threads : u # <<"flush">> => threads'[u] = threads[u]
      BY <3>1 DEF Moves
    <3>3. ASSUME NEW k \in DOMAIN frames, frames[k].at \in Between(p, id) PROVE FALSE
      <4>1. frames[k].at \in Onward(b) /\ b \in DOMAIN graph /\ graph[b].kind = "batch" /\ graph[p].kind = "parallel"
        BY <2>1, <3>1 DEF Goes, OfKind
      <4>2. b # p /\ b \notin ToSet(graph[p].targets)
        BY <4>1, BetweenSpec
      <4>3. frames[k].at \in ToSet(graph[p].targets) \/ frames[k].at = id
        BY <3>3 DEF Between
      <4>. QED BY <4>1, <4>2, <4>3, BetweenSpec
    <3>4. \A u \in DOMAIN threads' :
            \/ u \in DOMAIN threads /\ threads'[u] = threads[u]
            \/ /\ threads'[u] \in Seq(Frames)
               /\ \A k \in DOMAIN threads'[u] : ~(threads'[u][k].op \in Placed /\ threads'[u][k].at \in Between(p, id))
      BY <3>2, <3>3
    <3>5. \A u \in DOMAIN threads : threads[u] = <<>> \/ (u \in DOMAIN threads' /\ threads'[u] = threads[u])
      BY <2>2, <3>2
    <3>6. phase # "failed"
      BY <2>1
    <3>. QED BY <1>1, <1>2, <2>1, <2>3, <3>4, <3>5, <3>6, CalmJoin
  <2>. QED BY <2>1, <2>4, <2>5
<1>7. CASE RunFails \/ FlushFails
  BY <1>7 DEF RunFails, FlushFails
<1>8. CASE FlushEnds \/ UNCHANGED vars
  <2>1. UNCHANGED <<threads, groups, strayed>> /\ (phase = "flushing" \/ phase' = phase)
    BY <1>8 DEF FlushEnds, vars, runVars, bufferVars, endVars
  <2>2. ~Failed /\ phase # "failed"
    BY <2>1 DEF Failed
  <2>. QED BY <1>1, <1>2, <2>1, <2>2, CalmJoin
<1>. QED BY <1>3, <1>4, <1>5, <1>6, <1>7, <1>8, NextKinds

-----------------------------------------------------------------------------
(* The run *)

\* A run begins with nothing under way.
LEMMA ControlStarts ==
  ASSUME Init
  PROVE  ControlInv
<1> DEFINE own == config.roots
<1>1. GivenInv
  BY DEF Init, GivenInv
<1>2. /\ threads = [t \in {<<own[i]>> : i \in DOMAIN own} |-> <<>>]
      /\ pulled = [s \in ToSet(own) |-> 0]
      /\ groups = [id \in OfKind("join") |-> [c \in 1..MaxUuids |-> <<>>]]
      /\ batches = [id \in OfKind("batch") |-> [records |-> <<>>, since |-> FALSE]]
      /\ states = [id \in OfKind("state") |-> 0] /\ stored = states
      /\ phase = "running" /\ unflushed = {} /\ uuids = 0 /\ ended = {}
      /\ arrived = [id \in OfKind("join") \cup OfKind("batch") |-> 0] /\ emitted = arrived
      /\ updates = states /\ raced = FALSE
  BY DEF Init, EmptyBatch
<1>3. own \in Seq(DOMAIN graph)
  BY <1>1, ControlGiven
<1> HIDE DEF own
<1>4. DOMAIN own = 1..Len(own) /\ Len(own) \in Nat /\ \A i \in DOMAIN own : own[i] \in DOMAIN graph
  BY <1>3
<1>5. \A t \in DOMAIN threads : threads[t] = <<>> /\ \E i \in DOMAIN own : t = <<own[i]>>
  BY <1>2
<1>6. ~Failed /\ InFlight = {}
  BY <1>5, IdleFlight
<1>7. BuffersInv
  <2>1. groups \in [OfKind("join") -> [1..MaxUuids -> Seq(Records)]]
    BY <1>2
  <2>2. batches \in [OfKind("batch") -> [records : Seq(Records), since : BOOLEAN]]
    BY <1>2
  <2>3. DOMAIN pulled = ToSet(own) /\ \A s \in DOMAIN pulled : pulled[s] \in Nat
    BY <1>2
  <2>4. uuids \in 0..MaxUuids
    BY <1>2, ControlAssumption
  <2>. QED BY <1>2, <2>1, <2>2, <2>3, <2>4 DEF BuffersInv, own
<1>8. ThreadsInv
  <2>1. IsFiniteSet(DOMAIN threads)
    <3> DEFINE f == [i \in 1..Len(own) |-> <<own[i]>>]
    <3>1. DOMAIN threads = {f[i] : i \in 1..Len(own)} /\ DOMAIN f = 1..Len(own)
      BY <1>2, <1>4
    <3> HIDE DEF f
    <3>. QED BY <1>4, <3>1, FiniteRange
  <2>2. \A t \in DOMAIN threads : t \in Seq(Tags) /\ t # <<>> /\ Len(t) = 1
    <3> SUFFICES ASSUME NEW t \in DOMAIN threads PROVE t \in Seq(Tags) /\ t # <<>> /\ Len(t) = 1
      OBVIOUS
    <3>1. PICK i \in DOMAIN own : t = <<own[i]>>
      BY <1>5
    <3>2. own[i] \in Tags
      BY <1>4 DEF Tags
    <3>. QED BY <3>1, <3>2
  <2>3. \A t \in DOMAIN threads : threads[t] \in Seq(Frames) /\ DOMAIN threads[t] = {}
    <3>1. <<>> \in Seq(Frames) /\ DOMAIN <<>> = {}
      OBVIOUS
    <3>. QED BY <1>5, <3>1
  <2>4. \A t \in DOMAIN threads : 1..Len(t) - 1 = {}
    <3>1. 1..1 - 1 = {}
      OBVIOUS
    <3>. QED BY <2>2, <3>1
  <2>. QED BY <2>1, <2>2, <2>3, <2>4 DEF ThreadsInv
<1>9. TasksInv
  BY <1>2, <1>5 DEF TasksInv, own
<1>10. RaceInv
  BY <1>2, <1>5 DEF RaceInv, At
<1>11. SavedInv
  BY <1>2 DEF SavedInv
<1>12. AccountInv
  <2>1. Pulled = {}
    <3>1. \A s \in DOMAIN pulled : 1..pulled[s] = {}
      BY <1>2
    <3>. QED BY <3>1 DEF Pulled
  <2>2. InGroups = {}
    <3>1. \A id \in DOMAIN groups : \A c \in 1..MaxUuids : ToSet(groups[id][c]) = {}
      BY <1>2 DEF ToSet
    <3>. QED BY <3>1 DEF InGroups
  <2>3. InBatches = {}
    <3>1. \A id \in DOMAIN batches : ToSet(batches[id].records) = {}
      BY <1>2 DEF ToSet
    <3>. QED BY <3>1 DEF InBatches
  <2>. QED BY <1>2, <1>6, <2>1, <2>2, <2>3 DEF AccountInv
<1>13. FlushInv
  BY <1>2 DEF FlushInv
<1>14. HeldInv
  <2>1. \A id \in DOMAIN groups : Cardinality(Held(id)) = 0 /\ arrived[id] = 0 /\ emitted[id] = 0
    <3> SUFFICES ASSUME NEW id \in DOMAIN groups PROVE Cardinality(Held(id)) = 0 /\ arrived[id] = 0 /\ emitted[id] = 0
      OBVIOUS
    <3>1. \A c \in 1..MaxUuids : DOMAIN groups[id][c] = {}
      BY <1>2
    <3>2. Held(id) = {}
      BY <1>2, <3>1 DEF Held
    <3>3. arrived[id] = 0 /\ emitted[id] = 0
      BY <1>2
    <3>. QED BY <3>2, <3>3, FS_EmptySet
  <2>2. \A id \in DOMAIN batches : Len(batches[id].records) = 0 /\ arrived[id] = 0 /\ emitted[id] = 0
    BY <1>2
  <2>. QED BY <2>1, <2>2 DEF HeldInv
<1>15. JoinInv
  <2> SUFFICES ASSUME NEW p \in OfKind("parallel"), NEW id \in OfKind("join"), Balances(p, id) PROVE Balanced(p, id)
    BY DEF JoinInv
  <2>1. \A u \in DOMAIN threads : threads[u] = <<>> /\ DOMAIN threads[u] = {}
    BY <1>5
  <2>2. \A c : \A u \in DOMAIN threads : ~Ahead(threads[u], Between(p, id), {c}) /\ ~Beneath(threads[u], Between(p, id), {c})
    BY <2>1 DEF Ahead, Beneath
  <2>3. ASSUME NEW c \in 1..MaxUuids PROVE Whole(p, id, c)
    <3>1. groups[id][c] = <<>> /\ Len(<<>>) = 0
      BY <1>2
    <3>2. Coming(p, id, c) = {}
      BY <2>2 DEF Coming
    <3>3. Cardinality(Coming(p, id, c)) = 0
      BY <3>2, FS_EmptySet
    <3> DEFINE n == Len(graph[p].targets)
    <3>4. n \in Nat \ {0}
      BY <1>1, BetweenSpec
    <3> HIDE DEF n
    <3>5. 0 = 0 * n /\ 0 < n /\ 0 \in Nat
      BY <3>4
    <3>6. Cardinality(Coming(p, id, c)) + Len(groups[id][c]) = 0 /\ Len(groups[id][c]) = 0
      BY <3>1, <3>3
    <3>. QED BY <2>2, <3>5, <3>6 DEF Whole, n
  <2>. QED BY <2>2, <2>3 DEF Balanced, Correlates
<1>. QED BY <1>1, <1>7, <1>8, <1>9, <1>10, <1>11, <1>12, <1>13, <1>14, <1>15 DEF ControlInv

\* walker.rs, buffers.rs, runner.rs: every step of a run, with all of its threads, keeps
\* the invariant that the properties rest on.
THEOREM ControlInvariance == Spec => []ControlInv
<1>1. Init => ControlInv
  BY ControlStarts
<1>2. ControlInv /\ [Next]_vars => ControlInv'
  <2> SUFFICES ASSUME ControlInv, [Next]_vars PROVE ControlInv'
    OBVIOUS
  <2>1. /\ GivenInv /\ BuffersInv /\ ThreadsInv /\ TasksInv /\ RaceInv /\ SavedInv /\ AccountInv /\ FlushInv
        /\ HeldInv /\ JoinInv
    BY DEF ControlInv
  <2>2. config' = config /\ graph' = graph /\ ThreadsInv' /\ TasksInv'
    BY <2>1, RunThreads
  <2>3. GivenInv'
    BY <2>1, <2>2 DEF GivenInv
  <2>4. BuffersInv'
    BY <2>1, RunBuffers
  <2>5. RaceInv'
    BY <2>1, RunRace
  <2>6. SavedInv'
    BY <2>1, RunSaved
  <2>7. AccountInv'
    BY <2>1, RunAccount
  <2>8. FlushInv'
    BY <2>1, RunFlush
  <2>9. HeldInv'
    BY <2>1, RunHeld
  <2>10. JoinInv'
    BY <2>1, RunJoin
  <2>. QED BY <2>2, <2>3, <2>4, <2>5, <2>6, <2>7, <2>8, <2>9, <2>10 DEF ControlInv
<1>. QED BY <1>1, <1>2, PTL DEF Spec

\* control.rs, persist.rs: apply_state loses no update of a state as long as no two are made
\* at once, and the store of a run that has finished has what memory has.
THEOREM UpdatesCounted == Spec => []StatesCount
<1>1. ControlInv => StatesCount
  BY DEF ControlInv, RaceInv, SavedInv, StatesCount
<1>. QED BY <1>1, ControlInvariance, PTL

\* runner.rs, buffers.rs: no item vanishes from a run in which no step has failed, and what a
\* finished one still holds waits in a join, or in a batch behind another.
THEOREM ItemsAccounted == Spec => []NothingVanishes
<1>1. ControlInv => NothingVanishes
  <2> SUFFICES ASSUME ControlInv PROVE NothingVanishes
    OBVIOUS
  <2>1. phase = "finished" => ~Failed /\ InFlight = {}
    BY IdleFlight DEF ControlInv, TasksInv
  <2>2. phase = "finished" => \A id \in DOMAIN batches : batches[id].records # <<>> => id \in BehindBatches
    BY DEF ControlInv, FlushInv
  <2>3. phase # "failed" /\ ~Failed => Pulled = ended \cup InFlight \cup InGroups \cup InBatches
    BY DEF ControlInv, AccountInv
  <2>. QED BY <2>1, <2>2, <2>3 DEF NothingVanishes
<1>. QED BY <1>1, ControlInvariance, PTL

\* A join of all branches of a parallel holds nothing of a correlation that none of them
\* has led astray, once no thread has anything to do.
LEMMA NoneWaits ==
  ASSUME ControlInv, phase = "finished", NEW p \in OfKind("parallel"), NEW id \in OfKind("join"), Balances(p, id),
         NEW c \in 1..MaxUuids, ~Astray(p, c)
  PROVE  groups[id][c] = <<>>
<1>1. \A t \in DOMAIN threads : threads[t] = <<>>
  BY DEF ControlInv, TasksInv
<1>2. ~Failed
  BY <1>1, IdleFlight
<1>3. Whole(p, id, c)
  BY <1>2 DEF ControlInv, JoinInv, Balanced
<1>4. Coming(p, id, c) = {}
  BY <1>1 DEF Coming, Ahead
<1>5. Cardinality(Coming(p, id, c)) = 0
  BY <1>4, FS_EmptySet
<1> DEFINE n == Len(graph[p].targets)
           held == Len(groups[id][c])
<1>6. PICK m \in Nat : Cardinality(Coming(p, id, c)) + held = m * n
  BY <1>3 DEF Whole
<1>7. held < n
  BY <1>3 DEF Whole
<1>8. n \in Nat \ {0}
  BY BetweenSpec DEF ControlInv
<1>9. groups[id][c] \in Seq(Records)
  <2>1. groups \in [OfKind("join") -> [1..MaxUuids -> Seq(Records)]]
    BY DEF ControlInv, BuffersInv
  <2>2. groups[id] \in [1..MaxUuids -> Seq(Records)]
    BY <2>1
  <2>. QED BY <2>2
<1>10. held \in Nat
  BY <1>9
<1>11. held = 0
  <2>1. held = m * n
    BY <1>5, <1>6, <1>10
  <2> HIDE DEF n, held
  <2>2. m # 0 => m * n >= n
    <3> SUFFICES ASSUME m # 0 PROVE m * n >= n
      OBVIOUS
    <3>1. m - 1 \in Nat
      OBVIOUS
    <3>2. m * n = (m - 1) * n + n /\ (m - 1) * n \in Nat
      BY <1>8, <3>1
    <3>. QED BY <1>8, <3>2
  <2>3. m = 0
    BY <1>7, <1>8, <2>1, <2>2
  <2>. QED BY <1>8, <2>1, <2>3
<1>. QED BY <1>9, <1>11

\* buffers.rs: what came into a join or a batch has gone on or is there, and no record waits
\* for others of its parallel's branches unless one of them did not pass its own on.
THEOREM BuffersBalance == Spec => []BuffersAccount
<1>1. ControlInv => BuffersAccount
  <2> SUFFICES ASSUME ControlInv PROVE BuffersAccount
    OBVIOUS
  <2>1. /\ \A id \in DOMAIN groups : arrived[id] = emitted[id] + Cardinality(Held(id))
        /\ \A id \in DOMAIN batches : arrived[id] = emitted[id] + Len(batches[id].records)
    BY DEF ControlInv, HeldInv
  <2>2. ASSUME phase = "finished", NEW p \in OfKind("parallel"), NEW id \in DOMAIN groups, NEW c \in 1..MaxUuids,
               Balances(p, id), groups[id][c] # <<>>
        PROVE  \E b \in ToSet(graph[p].targets) : <<b, c>> \in strayed
    <3>1. id \in OfKind("join")
      BY DEF ControlInv, BuffersInv
    <3>2. Astray(p, c)
      BY <2>2, <3>1, NoneWaits
    <3>. QED BY <3>2 DEF Astray
  <2>. QED BY <2>1, <2>2 DEF BuffersAccount
<1>. QED BY <1>1, ControlInvariance, PTL
=============================================================================
