---------------------------- MODULE MCPassAPool ----------------------------
(* An instance of PassAPool with pages of five and batches of two roots, so *)
(* a batch straddles two pages. The Substation pages end with a full page   *)
(* and an empty one, the Building pages with a short one. The seven batches *)
(* are more than the channel (four) and two failed workers can hold, so the *)
(* feeder can block for good. No symmetry: PoolEnds is a liveness property. *)
EXTENDS PassAPool
CONSTANTS w1, w2
MCWorkers == {w1, w2}
=============================================================================
