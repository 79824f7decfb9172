---------------------------- MODULE MCHJSONWatch ----------------------------
(* A root, a station directory in it, and two directories in the station's. *)
EXTENDS HJSONWatch
MCParent == [d \in {"a", "b", "c"} |-> IF d = "a" THEN "root" ELSE "a"]
=============================================================================
