------------------------------ MODULE MCStartup -----------------------------
(* Flows and manifests for Startup: every graph with a few edges, and a few of what *)
(* else a start may meet.                                                           *)
EXTENDS Startup

Controls == {"switch", "parallel", "loop", "join", "batch"}
Builtins == ({"source", "transform", "sink"} \X {"plain"}) \cup ({"control"} \X Controls)

Plan(steps, edges, triggers) ==
  [version |-> "1", templates |-> [t |-> [StepConfig("", "sink") EXCEPT !.on_error = "retry"]], steps |-> steps,
   edges |-> edges, triggers |-> triggers, trigger_types |-> [i \in DOMAIN triggers |-> "cron"],
   store |-> "path", bus |-> "none"]
Given(c, f, trusted, user) == [command |-> c, flow |-> f, trusted |-> trusted, user |-> user]

\* A source, a step that routes by itself, one that does not, a sink, a trigger.
Fork(targets) == [StepConfig("fork", "parallel") EXCEPT !.targets = targets]
Steps(fork) == <<StepConfig("src", "source"), fork, StepConfig("mid", "transform"), StepConfig("out", "sink")>>
Forks == {Fork(<<"mid", "out">>), Fork(<<"mid", "mid">>), Fork(<<"out">>), Fork(<<"gone">>), StepConfig("fork", "transform")}

Nodes == {"src", "fork", "mid", "out", "tick"}
Pairs == {Edge(a, b) : a \in Nodes, b \in Nodes \ {"src"}}
EdgeSets == UNION {kSubset(k, Pairs) : k \in 0..2} \cup kSubset(3, {e \in Pairs : e.from # e.to})

Graphs ==
  {Given(c, Plan(Steps(f), SetToSeq(es), <<"tick">>), <<>>, <<>>) : c \in {"run", "serve"}, f \in Forks, es \in EdgeSets}

\* Manifests, trusted and not, that register alike, reserved, unsupported or no names.
Manifest(name, builtin, regs) == [name |-> name, builtin |-> builtin, protocol |-> TRUE, regs |-> regs]
Own == Manifest("own", TRUE, <<<<"sink", "builtin-a">>, <<"state_store", "kv">>>>)
Manifests == {
  Manifest("a", FALSE, <<<<"sink", "plain">>>>), Manifest("b", FALSE, <<<<"sink", "b">>, <<"trigger", "cron">>>>),
  Manifest("c", FALSE, <<<<"trigger", "t">>, <<"trigger", "t">>>>), Manifest("d", FALSE, <<<<"source", "builtin-a">>>>),
  Manifest("e", TRUE, <<<<"event_bus", "mq">>>>), Manifest("f", FALSE, <<<<"sink", "f">>, <<"control", "g">>>>),
  Manifest("g", FALSE, <<>>), Manifest("h", FALSE, <<<<"state_store", "kv">>, <<"event_bus", "mq">>>>),
  [Manifest("i", FALSE, <<<<"sink", "i">>>>) EXCEPT !.protocol = FALSE]}
Lists == {<<>>} \cup {<<m>> : m \in Manifests} \cup (Manifests \X Manifests)

Line == Plan(<<StepConfig("src", "source"), StepConfig("out", "sink")>>, <<>>, <<>>)
Extended ==
  {Given(c, [Line EXCEPT !.store = s, !.bus = b, !.triggers = [i \in DOMAIN t |-> "tick"],
                               !.trigger_types = t], own, user) :
     c \in {"serve", "approve"}, s \in {"none", "kv"}, b \in {"none", "mq"}, t \in {<<>>, <<"queue">>, <<"t">>},
     own \in {<<>>, <<Own>>}, user \in Lists}

\* Steps that are refused, or made whole by a template.
Odd == {
  [Line EXCEPT !.version = "2"], [Line EXCEPT !.steps = <<>>], Plan(Line.steps, <<>>, <<"src">>),
  Plan(Line.steps \o Line.steps, <<>>, <<>>), Plan(<<StepConfig("out", "sink")>>, <<>>, <<>>),
  Plan(<<StepConfig("src", "source")>>, <<>>, <<>>),
  Plan(<<StepConfig("src", "source"), [StepConfig("out", "none") EXCEPT !.type = "none", !.use = "t", !.retry = TRUE]>>, <<>>, <<>>),
  Plan(<<StepConfig("src", "source"), [StepConfig("out", "none") EXCEPT !.use = "t"]>>, <<>>, <<>>),
  Plan(<<StepConfig("src", "source"), [StepConfig("out", "sink") EXCEPT !.type = "none"]>>, <<>>, <<>>),
  Plan(<<[StepConfig("src", "source") EXCEPT !.use = "t"], StepConfig("out", "sink")>>, <<>>, <<>>),
  Plan(<<StepConfig("src", "source"), StepConfig("in", "join"), [StepConfig("n", "join") EXCEPT !.mode = "n"],
         StepConfig("all", "batch"), [StepConfig("which", "switch") EXCEPT !.targets = <<"out">>],
         StepConfig("out", "sink")>>, <<>>, <<>>),
  Plan(<<StepConfig("src", "source"), [StepConfig("again", "loop") EXCEPT !.targets = <<"in">>],
         StepConfig("in", "transform"), [StepConfig("out", "sink") EXCEPT !.type = "b"]>>, <<>>, <<>>)}

SmallInputs == Graphs \cup Extended \cup {Given("run", f, <<>>, user) : f \in Odd, user \in {<<>>, <<CHOOSE m \in Manifests : m.name = "b">>}}
=============================================================================
