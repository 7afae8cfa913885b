------------------------------ MODULE FlowGraph -----------------------------
(***************************************************************************)
(* The graph of a flow as its configuration gives it (sohara-runtime       *)
(* graph.rs, routes.rs): the routes of every node, and how many routes     *)
(* lead to it.                                                             *)
(*                                                                         *)
(* A flow is a record of its steps in declaration order, its edges, and    *)
(* the ids of its triggers.                                                *)
(***************************************************************************)
EXTENDS Naturals, Sequences, FiniteSets, SequencesExt

\* The members of a set of numbers, rising.
Rising(S) == [n \in 1..Cardinality(S) |-> CHOOSE i \in S : Cardinality({j \in S : j < i}) = n - 1]

\* What a sequence has at some places of it, in its order.
Select(s, places) == LET at == Rising(places) IN [k \in DOMAIN at |-> s[at[k]]]

\* A step with every optional field left out.  kind is the step's kind, or the type of
\* a control step; type, that of the others; use, its template; when and retry, whether
\* it has them; targets, where the step itself sends records: the cases of a switch and
\* its default, the branches of a parallel, the body of a loop.
StepConfig(id, kind) ==
  [id |-> id, kind |-> kind, type |-> "plain", use |-> "none", when |-> FALSE, on_error |-> "none", retry |-> FALSE,
   targets |-> <<>>, max_iterations |-> 0, mode |-> "all", n |-> 0, size |-> 0, within |-> FALSE]

\* A field that may be left out.
Optional == STRING \cup {"none"}

StepConfigs ==
  [id : STRING, kind : Optional, type : Optional, use : Optional, when : BOOLEAN, on_error : Optional, retry : BOOLEAN,
   targets : Seq(STRING), max_iterations : Nat, mode : STRING, n : Nat, size : Nat, within : BOOLEAN]

Edge(from, to) == [from |-> from, to |-> to, when |-> FALSE]

EdgeConfigs == [from : STRING, to : STRING, when : BOOLEAN]

StepIds(flow) == {flow.steps[i].id : i \in DOMAIN flow.steps}
Ids(flow) == StepIds(flow) \cup ToSet(flow.triggers)
Step(flow, id) == flow.steps[CHOOSE i \in DOMAIN flow.steps : flow.steps[i].id = id]

has_explicit_routes(step) ==
  \/ step.kind \in {"switch", "parallel"}
  \/ step.kind = "loop" /\ step.targets # <<>>

\* Without edges, consecutive steps are chained unless the first routes by itself.
Chained(flow) ==
  LET firsts == Rising({i \in DOMAIN flow.steps : i < Len(flow.steps) /\ ~has_explicit_routes(flow.steps[i])})
  IN [k \in DOMAIN firsts |-> Edge(flow.steps[firsts[k]].id, flow.steps[firsts[k] + 1].id)]

Edges(flow) == IF flow.edges = <<>> THEN Chained(flow) ELSE flow.edges

\* Those from one node, in their order.
From(edges, id) == Select(edges, {i \in DOMAIN edges : edges[i].from = id})

\* The steps a control step routes to by itself count as routes after its edges.
wire_routes(flow) ==
  [id \in Ids(flow) |->
    LET edges == From(Edges(flow), id)
        targets == IF id \in StepIds(flow) THEN Step(flow, id).targets ELSE <<>>
    IN [k \in DOMAIN edges |-> [to |-> edges[k].to, when |-> edges[k].when]]
       \o [k \in DOMAIN targets |-> [to |-> targets[k], when |-> FALSE]]]

\* Pairs of a node and the place of a route of it that leads to id.
RoutesTo(routes, id) ==
  {p \in UNION {{from} \X (DOMAIN routes[from]) : from \in DOMAIN routes} : routes[p[1]][p[2]].to = id}

count_incoming(routes) == [id \in DOMAIN routes |-> Cardinality(RoutesTo(routes, id))]
=============================================================================
