--------------------------- MODULE MCPostgresStore ---------------------------
(* Two stations that share the ground node and a boundary node, listed in   *)
(* opposite orders, and a Pass B line that ends on the boundary node. The   *)
(* source of station A has two versions: its edge moves and an attribute    *)
(* loses its second value.                                                  *)
EXTENDS PostgresStore
Edge(e, a, b) == [id |-> e, t1 |-> a, t2 |-> b]
MCView(nodes, edge, values, group, shared) ==
    [nodes |-> nodes, edges |-> <<edge>>, attrs |-> edge.id :> ("name" :> values),
     group |-> group, shared |-> shared]
MCVersionsOf ==
    [A |-> <<MCView(<<"gnd", "x">>, Edge("eA", "gnd", "x"), <<1, 2>>, "gA", {"x", "y"}),
            MCView(<<"nA", "gnd">>, Edge("eA", "nA", "gnd"), <<3>>, "gA2", {})>>,
     B |-> <<MCView(<<"x", "gnd">>, Edge("eB", "x", "gnd"), <<4>>, "gB", {"x", "y"})>>,
     L |-> <<MCView(<<"x", "nL">>, Edge("eL", "x", "nL"), <<5>>, "gL", {})>>]
=============================================================================
