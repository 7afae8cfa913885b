------------------------------ MODULE Startup -------------------------------
(***************************************************************************)
(* The start of run, serve and approve (sohara-cli main.rs): the flow file *)
(* is loaded, its templates applied and the result validated               *)
(* (sohara-config); the registry is filled, with the extensions' manifests *)
(* last; the store, the bus and, in serve mode, the triggers are looked    *)
(* up; and the graph is built, checked and searched for unreachable steps  *)
(* (sohara-runtime graph.rs, routes.rs, warnings.rs).                      *)
(*                                                                         *)
(* Kahn's algorithm and the search run step by step; the checks before     *)
(* and after them are taken at once.                                       *)
(***************************************************************************)
EXTENDS FlowGraph, Manifests

CONSTANTS
  Inputs,        \* what a start may be given: command, flow, trusted and user manifests
  BuiltinTriggers  \* types of triggers the program itself has

\* A file that parses: a template is a step.
FlowConfigs(templates) ==
  [version : STRING, templates : {templates}, steps : Seq(StepConfigs), edges : Seq(EdgeConfigs),
   triggers : Seq(STRING), trigger_types : Seq(STRING), store : STRING, bus : STRING]

ASSUME StartupAssumption ==
  \A i \in Inputs :
    /\ i \in [command : {"run", "serve", "approve"}, flow : FlowConfigs(i.flow.templates),
             trusted : Seq(ManifestFiles), user : Seq(ManifestFiles)]
    /\ \A t \in DOMAIN i.flow.templates : i.flow.templates[t] \in StepConfigs

VARIABLES
  input,     \* the command line and the flow file; the flow changes as it is loaded
  pc,        \* what comes next; "built" or "failed" at the end
  error,     \* why the start failed
  adjacency, \* the routes check_acyclic goes along
  indegree, ready, visited,  \* its variables
  stack, seen,               \* those of reach
  warned     \* steps warned about: no source reaches them, they reach no sink

kahnVars == <<adjacency, indegree, ready, visited>>
reachVars == <<stack, seen, warned>>
startupVars == <<input, pc, error, registry, pending, kahnVars, reachVars>>

flow == input.flow
command == input.command

Fail(why) == pc' = "failed" /\ error' = why

-----------------------------------------------------------------------------
(* FlowConfig::load *)

\* apply_templates: what the step leaves out is taken from its template.
merge_template(step, t) ==
  LET or(mine, none, its) == IF mine = none THEN its ELSE mine IN
  [step EXCEPT !.kind = or(@, "none", t.kind), !.type = or(@, "none", t.type),
               !.when = @ \/ t.when, !.on_error = or(@, "none", t.on_error), !.retry = @ \/ t.retry,
               !.targets = or(@, <<>>, t.targets), !.n = or(@, 0, t.n),
               !.size = or(@, 0, t.size), !.within = @ \/ t.within, !.use = "none"]

Mergeable(step) ==
  step.use # "none" =>
    /\ step.use \in DOMAIN flow.templates
    /\ step.kind = "none" \/ flow.templates[step.use].kind \in {"none", step.kind}

apply_templates ==
  /\ pc = "load"
  /\ IF \A i \in DOMAIN flow.steps : Mergeable(flow.steps[i])
     THEN /\ input' = [input EXCEPT !.flow.steps = [i \in DOMAIN @ |->
                         IF @[i].use = "none" THEN @[i] ELSE merge_template(@[i], flow.templates[@[i].use])]]
          /\ pc' = "validate" /\ UNCHANGED error
     ELSE Fail("template") /\ UNCHANGED input
  /\ UNCHANGED <<registry, pending, kahnVars, reachVars>>

StepSeq == [i \in DOMAIN flow.steps |-> flow.steps[i].id]

\* Triggers share the step id namespace.
validate_triggers == IsInjective(flow.triggers) /\ ToSet(flow.triggers) \cap StepIds(flow) = {}

validate_steps ==
  /\ flow.steps # <<>>
  /\ IsInjective(StepSeq)
  /\ \A i \in DOMAIN flow.steps : "none" \notin {flow.steps[i].kind, flow.steps[i].type}
  /\ flow.triggers # <<>> \/ \E i \in DOMAIN flow.steps : flow.steps[i].kind = "source"
  /\ \E i \in DOMAIN flow.steps : flow.steps[i].kind = "sink"

validate_edges ==
  \A i \in DOMAIN flow.edges :
    LET e == flow.edges[i] IN {e.from, e.to} \subseteq Ids(flow) /\ e.from # e.to

\* indegree_map, initial_indegree
Indegrees(routes, ids) == [id \in ids |-> Cardinality(RoutesTo(routes, id))]

\* It begins with every node no route leads to, in the order of a hash map.
check_acyclic(routes, ids) ==
  LET degrees == Indegrees(routes, ids) IN
  /\ adjacency' = routes
  /\ indegree' = degrees
  /\ ready' \in SetToSeqs({id \in ids : degrees[id] = 0})
  /\ visited' = 0

\* validate: the edges are checked among the ids they name.
validate ==
  /\ pc = "validate"
  /\ IF flow.version # "1" THEN Fail("version") /\ UNCHANGED kahnVars
     ELSE IF ~validate_triggers THEN Fail("trigger") /\ UNCHANGED kahnVars
     ELSE IF ~validate_steps THEN Fail("step") /\ UNCHANGED kahnVars
     ELSE IF ~validate_edges THEN Fail("edge") /\ UNCHANGED kahnVars
     ELSE LET ends == UNION {{e.from, e.to} : e \in ToSet(flow.edges)} IN
          /\ check_acyclic([id \in ends |-> From(flow.edges, id)], ends)
          /\ pc' = "kahn_config" /\ UNCHANGED error
  /\ UNCHANGED <<input, registry, pending, reachVars>>

-----------------------------------------------------------------------------
(* check_acyclic, of the configuration and of the graph *)

\* How many routes of a node lead to another.
Times(id, to) ==
  IF id \in DOMAIN adjacency THEN Cardinality({k \in DOMAIN adjacency[id] : adjacency[id][k].to = to}) ELSE 0

\* Mutant of Pop: several routes to one node count once.
PopOnce ==
  /\ pc \in {"kahn_config", "kahn_graph"} /\ ready # <<>>
  /\ LET id == Last(ready)
         reached == {to \in DOMAIN indegree : Times(id, to) > 0}
     IN /\ indegree' = [to \in DOMAIN indegree |-> IF to \in reached THEN indegree[to] - 1 ELSE indegree[to]]
        /\ \E freed \in SetToSeqs({to \in reached : indegree[to] = 1}) : ready' = Front(ready) \o freed
  /\ visited' = visited + 1
  /\ UNCHANGED <<input, pc, error, registry, pending, adjacency, reachVars>>

\* The last node that is ready goes, and with it its routes.
Pop ==
  /\ pc \in {"kahn_config", "kahn_graph"} /\ ready # <<>>
  /\ LET id == Last(ready)
         reached == {to \in DOMAIN indegree : Times(id, to) > 0}
     IN /\ indegree' = [to \in DOMAIN indegree |-> indegree[to] - Times(id, to)]
        /\ \E freed \in SetToSeqs({to \in reached : indegree[to] = Times(id, to)}) : ready' = Front(ready) \o freed
  /\ visited' = visited + 1
  /\ UNCHANGED <<input, pc, error, registry, pending, adjacency, reachVars>>

\* Nothing is ready: unless every node has gone, there is a cycle.
Popped ==
  /\ pc \in {"kahn_config", "kahn_graph"} /\ ready = <<>>
  /\ IF visited # Cardinality(DOMAIN indegree) THEN Fail("cycle")
     ELSE pc' = (IF pc = "kahn_config" THEN "manifests" ELSE "nodes") /\ UNCHANGED error
  /\ UNCHANGED <<input, registry, pending, kahnVars, reachVars>>

-----------------------------------------------------------------------------
(* registry_and_extensions; the providers *)

LoadManifest ==
  /\ pc = "manifests" /\ pending # <<>>
  /\ LET m == Head(pending).manifest IN
     IF validate_manifest(m, Head(pending).trusted)
     THEN /\ registry' = Registered(m)
          /\ IF Supported(m) THEN UNCHANGED <<pc, error>> ELSE Fail("manifest")
     ELSE Fail("manifest") /\ UNCHANGED registry
  /\ pending' = Tail(pending)
  /\ UNCHANGED <<input, kahnVars, reachVars>>

StoreKnown == flow.store \in {"none", "path"} \/ <<"state_store", flow.store>> \in DOMAIN registry
BusKnown == flow.bus = "none" \/ <<"event_bus", flow.bus>> \in DOMAIN registry
TriggerTypes == {flow.trigger_types[i] : i \in DOMAIN flow.trigger_types}

\* build_triggers: a type of an extension goes before a built-in one.
TriggersKnown == \A ty \in TriggerTypes : ty \in BuiltinTriggers \/ <<"trigger", ty>> \in DOMAIN registry

\* store_for, and in serve mode shared_bus_for and build_triggers.
Providers ==
  /\ pc = "manifests" /\ pending = <<>>
  /\ CASE command = "serve" /\ flow.bus # "none" /\ "queue" \in TriggerTypes -> Fail("bus")
       [] ~StoreKnown \/ (command = "approve" /\ flow.store = "none") -> Fail("store")
       [] command = "serve" /\ ~BusKnown -> Fail("bus")
       [] command = "serve" /\ ~TriggersKnown -> Fail("trigger")
       [] OTHER -> pc' = "build" /\ UNCHANGED error
  /\ UNCHANGED <<input, registry, pending, kahnVars, reachVars>>

-----------------------------------------------------------------------------
(* FlowGraph::build and build_with_triggers *)

\* The registration a step needs.
Registration(step) ==
  IF step.kind \in {"source", "transform", "sink"} THEN <<step.kind, step.type>> ELSE <<"control", step.kind>>

\* What the factories of control steps ask of them.
Configured(step) ==
  CASE step.kind = "switch" -> Len(step.targets) >= 2
    [] step.kind = "parallel" -> step.targets # <<>>
    [] step.kind = "join" -> step.mode = "n" => step.n > 0
    [] step.kind = "batch" -> step.size > 0 \/ step.within
    [] OTHER -> TRUE

\* build_partials: every step is known to the registry, configured, and has a policy.
Partial(step) ==
  /\ Registration(step) \in DOMAIN registry
  /\ Configured(step)
  /\ step.on_error = "retry" => step.retry

\* The nodes: triggers are nodes only in serve mode.
NodeIds == StepIds(flow) \cup (IF command = "serve" THEN ToSet(flow.triggers) ELSE {})

roots ==
  Select(StepSeq, {i \in DOMAIN flow.steps : flow.steps[i].kind = "source"})
  \o (IF command = "serve" THEN flow.triggers ELSE <<>>)

validate_targets(routes, ids) ==
  \A from \in DOMAIN routes : \A k \in DOMAIN routes[from] : routes[from][k].to \in ids \ {from}

assemble ==
  /\ pc = "build"
  /\ LET routes == wire_routes(flow) IN
     IF ~(\A i \in DOMAIN flow.steps : Partial(flow.steps[i])) THEN Fail("partial") /\ UNCHANGED kahnVars
     ELSE IF ~validate_targets(routes, NodeIds) THEN Fail("target") /\ UNCHANGED kahnVars
     ELSE check_acyclic(routes, NodeIds) /\ pc' = "kahn_graph" /\ UNCHANGED error
  /\ UNCHANGED <<input, registry, pending, reachVars>>

IsSink(id) == id \in StepIds(flow) /\ Step(flow, id).kind = "sink"
Sinks == {id \in NodeIds : IsSink(id)}

\* Mutant of assemble_nodes: sinks may have routes.
assemble_nodes_any ==
  /\ pc = "nodes"
  /\ stack' = roots /\ seen' = {} /\ pc' = "from_source"
  /\ UNCHANGED <<input, error, registry, pending, kahnVars, warned>>

\* A sink has no routes; then the search begins at the roots.
assemble_nodes ==
  /\ pc = "nodes"
  /\ IF \E id \in Sinks : adjacency[id] # <<>> THEN Fail("sink") /\ UNCHANGED <<stack, seen>>
     ELSE stack' = roots /\ seen' = {} /\ pc' = "from_source" /\ UNCHANGED error
  /\ UNCHANGED <<input, registry, pending, kahnVars, warned>>

-----------------------------------------------------------------------------
(* warn_unreachable *)

\* The nodes a node has routes to, or has routes from, in some order.
Neighbours(id) ==
  IF pc = "from_source" THEN [k \in DOMAIN adjacency[id] |-> adjacency[id][k].to]
  ELSE SetToSeq({from \in NodeIds : Times(from, id) > 0})

\* Mutant of Reach: a node seen before ends the search.
ReachOnce ==
  /\ pc \in {"from_source", "to_sink"} /\ stack # <<>>
  /\ LET id == Last(stack) IN
     IF id \in seen THEN stack' = <<>> /\ UNCHANGED seen
     ELSE stack' = Front(stack) \o Neighbours(id) /\ seen' = seen \cup {id}
  /\ UNCHANGED <<input, pc, error, registry, pending, kahnVars, warned>>

Reach ==
  /\ pc \in {"from_source", "to_sink"} /\ stack # <<>>
  /\ LET id == Last(stack) IN
     IF id \in seen THEN stack' = Front(stack) /\ UNCHANGED seen
     ELSE stack' = Front(stack) \o Neighbours(id) /\ seen' = seen \cup {id}
  /\ UNCHANGED <<input, pc, error, registry, pending, kahnVars, warned>>

\* What was not seen is warned about; the second search goes back from the sinks.
Reached ==
  /\ pc \in {"from_source", "to_sink"} /\ stack = <<>>
  /\ seen' = {}
  /\ IF pc = "from_source"
     THEN /\ warned' = [warned EXCEPT !.from_source = NodeIds \ seen]
          /\ stack' = SetToSeq(Sinks) /\ pc' = "to_sink"
     ELSE /\ warned' = [warned EXCEPT !.to_sink = NodeIds \ (seen \cup Sinks)]
          /\ pc' = "built" /\ UNCHANGED stack
  /\ UNCHANGED <<input, error, registry, pending, kahnVars>>

-----------------------------------------------------------------------------
StartupInit ==
  /\ input \in Inputs
  /\ pc = "load" /\ error = "none"
  /\ registry = [r \in BuiltinSteps |-> "sohara"]
  /\ pending = Pending(input.trusted, input.user)
  /\ adjacency = <<>> /\ indegree = <<>> /\ ready = <<>> /\ visited = 0
  /\ stack = <<>> /\ seen = {} /\ warned = [from_source |-> {}, to_sink |-> {}]

StartupNext ==
  \/ apply_templates \/ validate \/ Pop \/ Popped
  \/ LoadManifest \/ Providers
  \/ assemble \/ assemble_nodes \/ Reach \/ Reached

StartupSpec == StartupInit /\ [][StartupNext]_startupVars

-----------------------------------------------------------------------------
(* The graph as the configuration means it *)

\* A record may go from one step to the next: along an edge, to a target of the step,
\* or, in a flow without edges, from a step that does not route by itself to the next.
Leads(a, b) ==
  \/ \E i \in DOMAIN flow.edges : flow.edges[i].from = a /\ flow.edges[i].to = b
  \/ \E i \in DOMAIN flow.steps :
       LET s == flow.steps[i] IN
       /\ s.id = a
       /\ \/ b \in ToSet(s.targets)
          \/ /\ flow.edges = <<>> /\ ~has_explicit_routes(s)
             /\ i < Len(flow.steps) /\ flow.steps[i + 1].id = b

\* Nodes a path of at least one route leads to from a set of nodes: those in every set
\* that no route leaves, starting there or in it.
After(from) ==
  LET Closed == {C \in SUBSET Ids(flow) : \A b \in Ids(flow) : (\E a \in from \cup C : Leads(a, b)) => b \in C}
  IN {b \in Ids(flow) : \A C \in Closed : b \in C}

Cyclic == \E id \in Ids(flow) : id \in After({id})
Touched(ids) == \E a, b \in Ids(flow) : Leads(a, b) /\ {a, b} \cap ids # {}

\* graph.rs, routes.rs: a graph that is built has no cycle, every route of it ends at a
\* node of it, no sink has one, and every step has what its kind needs; none of this is
\* checked again when records are walked.
BuiltSoundly ==
  pc = "built" =>
    /\ ~Cyclic
    /\ \A a \in NodeIds, b \in Ids(flow) : Leads(a, b) => b \in NodeIds /\ a \notin Sinks
    /\ roots # <<>> \/ (command # "serve" /\ flow.triggers # <<>>)
    /\ \A i \in DOMAIN flow.steps : Partial(flow.steps[i])

\* routes.rs, validate.rs: a flow is refused for a cycle only if it has one, or if run
\* or approve, which leave the triggers out, meet a route of a trigger.
RefusedForCycle ==
  error = "cycle" => Cyclic \/ (command # "serve" /\ Touched(ToSet(flow.triggers)))

\* warn_unreachable: the steps warned about are those no path leads to from a root, and
\* those no path leads from to a sink.
WarnsExactly ==
  pc = "built" =>
    /\ warned.from_source = NodeIds \ (ToSet(roots) \cup After(ToSet(roots)))
    /\ warned.to_sink = {id \in NodeIds \ Sinks : After({id}) \cap Sinks = {}}

\* stdio_extensions.rs: no manifest replaces what is registered, and reserved names are
\* registered by trusted manifests only.
RegistrationsStay ==
  [][\A r \in DOMAIN registry' :
       IF r \in DOMAIN registry THEN registry'[r] = registry[r]
       ELSE r[2] \in Reserved => Head(pending).trusted /\ Head(pending).manifest.builtin]_startupVars
=============================================================================
