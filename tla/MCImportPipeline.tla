-------------------------- MODULE MCImportPipeline --------------------------
(* Station 1 with bay 2, or with what was in the bay in the station itself, *)
(* or gone; station 6; cables 7 and 8 that come and go; a document that     *)
(* does not parse; and a tree that brings a metadata.hjson.                 *)
EXTENDS ImportPipeline
Item(id, kind, in, nodes) == [id |-> id, kind |-> kind, in |-> in, nodes |-> nodes]
Station1 == Item(1, "station", 0, {})
Bay2 == Item(2, "bay", 1, {})
Cable7 == Item(7, "cable", 0, {11, 12})
Cable8 == Item(8, "cable", 0, {12, 13})
Station6 == {Item(6, "station", 0, {}), Item(5, "equipment", 6, {12})}
Nested == {Station1, Bay2, Item(3, "equipment", 2, {10, 11}), Cable7, Cable8}
Flat == {Station1, Item(3, "equipment", 1, {10, 12}), Cable8} \cup Station6
T(items, bad, meta) == [items |-> items, bad |-> bad, meta |-> meta]
MCTrees == {T(Nested, {}, 4), T(Flat, {}, 0), T(Flat, {6}, 0), T(Station6, {}, 0)}
=============================================================================
