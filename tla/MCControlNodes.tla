--------------------------- MODULE MCControlNodes ---------------------------
(* Small flows for ControlNodes, one per way the control steps work together. *)
EXTENDS ControlNodes

Source(id) == StepConfig(id, "source")
Sink == StepConfig("out", "sink")
Plan(steps, edges, roots, store, every) ==
  [steps |-> steps, edges |-> edges, triggers |-> <<>>, roots |-> roots, store |-> store, every |-> every]

\* Two sources whose records are split over two branches, one of which may fail the
\* run, and joined again.
ForkJoin ==
  Plan(<<Source("s1"), Source("s2"),
         [StepConfig("fork", "parallel") EXCEPT !.targets = <<"a", "b">>],
         StepConfig("a", "transform"), [StepConfig("b", "delay") EXCEPT !.when = TRUE],
         StepConfig("join", "join"), Sink>>,
       <<Edge("s1", "fork"), Edge("s2", "fork"), Edge("a", "join"), Edge("b", "join"), Edge("join", "out")>>,
       <<"s1", "s2">>, TRUE, 0)

\* Two sources counted by one state step and batched, with a save after every delivery.
CountAndBatch ==
  Plan(<<Source("s1"), Source("s2"), StepConfig("count", "state"),
         [StepConfig("batch", "batch") EXCEPT !.size = 2, !.within = TRUE], Sink>>,
       <<Edge("s1", "count"), Edge("s2", "count"), Edge("count", "batch"), Edge("batch", "out")>>,
       <<"s1", "s2">>, TRUE, 1)

\* The rest: foreach, loops with and without a body, an approve without a store, a
\* switch, and joins of the other modes.
Rest ==
  Plan(<<Source("s1"),
         [StepConfig("each", "foreach") EXCEPT !.max_iterations = 2],
         [StepConfig("while", "loop") EXCEPT !.max_iterations = 2],
         [StepConfig("fork", "parallel") EXCEPT !.targets = <<"gate", "any">>],
         StepConfig("gate", "approve"), [StepConfig("shape", "transform") EXCEPT !.on_error = "continue"],
         [StepConfig("any", "join") EXCEPT !.mode = "any"],
         [StepConfig("pair", "join") EXCEPT !.mode = "n", !.n = 2],
         [StepConfig("again", "loop") EXCEPT !.max_iterations = 2, !.targets = <<"which">>],
         [StepConfig("which", "switch") EXCEPT !.targets = <<"wait", "out">>],
         StepConfig("wait", "delay"), Sink>>,
       <<Edge("s1", "each"), Edge("each", "while"), Edge("while", "fork"), Edge("gate", "pair"), Edge("any", "pair"),
         Edge("pair", "shape"), Edge("shape", "again"), Edge("wait", "out")>>,
       <<"s1">>, FALSE, 0)

\* Records that wait for an approval, for a batch to fill, or alone in a join.
Waits ==
  Plan(<<Source("s1"), Source("s2"), StepConfig("gate", "approve"), StepConfig("lone", "join"),
         [StepConfig("batch", "batch") EXCEPT !.size = 3], Sink>>,
       <<[Edge("s1", "gate") EXCEPT !.when = TRUE], Edge("s1", "lone"), Edge("lone", "out"), Edge("s2", "lone"),
         Edge("s2", "batch"), Edge("batch", "out")>>,
       <<"s1", "s2">>, TRUE, 2)

\* One batch behind another, by way of a switch.
Chain ==
  Plan(<<Source("s1"), Source("s2"), [StepConfig("first", "batch") EXCEPT !.size = 2],
         [StepConfig("which", "switch") EXCEPT !.targets = <<"second", "out">>],
         [StepConfig("second", "batch") EXCEPT !.size = 2], Sink>>,
       <<Edge("s1", "first"), Edge("s2", "second"), Edge("first", "which"), Edge("second", "out")>>,
       <<"s1", "s2">>, FALSE, 0)

ItemsOf == [s1 |-> 2, s2 |-> 1]
SmallFlows == {ForkJoin, CountAndBatch, Rest, Waits, Chain}
=============================================================================
