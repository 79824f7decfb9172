---------------------------- MODULE MCModelStore ----------------------------
(* Two stations that share the boundary node "x" (a cross-station switch)  *)
(* and a Pass B line that ends on station B's node. Station A's source has *)
(* two versions: its edge moves from the boundary node to a node of its    *)
(* own.                                                                    *)
EXTENDS ModelStore
Edge(e, a, b) == [id |-> e, t1 |-> a, t2 |-> b]
MCUnits == {"A", "B", "L"}
MCContainerOf == [A |-> "sA", B |-> "sB", L |-> "acline"]
MCOwnerOf == [A |-> "sA", B |-> "sB", L |-> "__pass_b__"]
MCViewsOf == [A |-> {[edges |-> {Edge("eA", "nA", "x")}, group |-> "gA"],
                     [edges |-> {Edge("eA", "nA", "nA2")}, group |-> "gA2"]},
              B |-> {[edges |-> {Edge("eB", "x", "nB")}, group |-> "gB"]},
              L |-> {[edges |-> {Edge("eL", "nB", "nL")}, group |-> "gL"]}]
=============================================================================
