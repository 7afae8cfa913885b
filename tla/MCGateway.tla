----------------------------- MODULE MCGateway ------------------------------
(* Values for Gateway's constants. *)
EXTENDS Gateway, TLC

CONSTANTS r1, r2, i1, i2, i3, k1, f

Flow == [i \in Instances |-> f]
Hashes == [k \in Keys |-> (i1 :> 2) @@ (i2 :> 3) @@ (i3 :> 1)]

Asked == {[path |-> <<"a">>, key |-> k1], [path |-> <<"a", "b">>, key |-> k1],
          [path |-> <<"a", "b">>, key |-> None]}

Proxy(path, hash) ==
  [path |-> path, flow_id |-> f, mode |-> "proxy", hash |-> hash, sticky_key |-> hash, topic |-> FALSE]
Bus(path, topic) ==
  [path |-> path, flow_id |-> f, mode |-> "bus", hash |-> FALSE, sticky_key |-> FALSE, topic |-> topic]

Plain == Proxy(<<"a">>, FALSE)
Sticky == Proxy(<<"a", "b">>, TRUE)

Declared == {Plain, Sticky, Bus(<<"a">>, TRUE), Bus(<<"a", "b">>, FALSE)}
Interchangeable == Permutations(Requests)

Saved == ("A" :> Plain) @@ ("B" :> Sticky)
=============================================================================
