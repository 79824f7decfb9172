--------------------------- MODULE MCACLineChains ---------------------------
(* Four segments on six nodes: chains, rings, a self loop, a branch, a dead *)
(* end, and segments with no or with three Terminals; two Junctions (11 and *)
(* 12) on, between and off the cables; one boundary equivalent (21).        *)
EXTENDS ACLineChains
NodeSeqs(a, b, c, d) == [s \in 1 .. 4 |-> CASE s = 1 -> a [] s = 2 -> b [] s = 3 -> c [] s = 4 -> d]
Home == [n \in {6, 7} |-> IF n = 6 THEN 99 ELSE NoContainer]
MCSources ==
    {[terms |-> NodeSeqs(a, b, c, d), home |-> Home,
      junctions |-> [j \in {11, 12} |-> IF j = 11 THEN <<2>> ELSE j12],
      boundary |-> [e \in {21} |-> e21]] :
        a \in {<<1, 2>>, <<1, 2, 3>>}, b \in {<<3, 4>>, <<2, 2>>, <<2>>}, c \in {<<2, 3>>, <<3, 1>>, <<2, 3, 4>>},
        d \in {<<4, 5>>, <<2, 4>>, << >>},
        j12 \in {<<7>>, <<6, 5>>, <<3, 4>>}, e21 \in {<<1>>, <<8>>}}
=============================================================================
