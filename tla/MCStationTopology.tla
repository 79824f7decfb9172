------------------------- MODULE MCStationTopology -------------------------
(* Graphs: station A with a bay and two sections, of one busbar or of two,  *)
(* and two further pieces of equipment of any class at any of its nodes;    *)
(* station B has one switch, at two nodes it shares with A; one cable ends  *)
(* on A's node 12.                                                          *)
(* Trees: station A with VoltageLevel V1, its bay, a feeder and two split   *)
(* sections (of three Terminals in the bay); a KVS with a feeder; a house; a dangling VoltageLevel with a   *)
(* bay; a connection with two satellites, a generating unit and a           *)
(* transformer, each in any of these or nowhere.                            *)
EXTENDS UseCases, TLC
Obj(class, up) == [class |-> class, up |-> up]
Eq(class, in, of, ends) == [class |-> class, in |-> in, of |-> of, nodes |-> ends]
Src(tree, equip) == [tree |-> tree, equip |-> equip]

GraphTree == [x \in {"A", "B", "V1", "V2", "BayA"} |->
                 CASE x \in {"A", "B"} -> Obj("Substation", NoRef)
                   [] x \in {"V1", "V2"} -> Obj("VoltageLevel", "A")
                   [] x = "BayA" -> Obj("Bay", "V1")]
Free == {"closed", "open", "transformer", "device"}
Graphs == {Src(GraphTree,
      <<Eq("busbar", "V1", 1, n1), Eq(c3, "BayA", 0, n3), Eq("closed", "B", 0, <<13, 14>>),
        Eq("busbar", b2, 4, n2), Eq(c4, "BayA", 0, n4), Eq("cable", NoRef, 0, <<12, 19>>)>>) :
        n1 \in {<<11>>, <<15, 11>>}, b2 \in {"V1", "V2"}, n2 \in {<<12>>, <<12, 16, 17>>},
        c3 \in Free, n3 \in {<<11, 12>>, <<11, 13>>, <<13, 11>>, <<12, 13>>, <<11>>, <<15, 16>>, <<11, 12, 13>>},
        c4 \in Free, n4 \in {<<12, 14>>, <<14, 12>>, <<13, 12>>, <<12, 11>>, <<12>>, <<11, 14>>, <<16, 17>>}}

BigTree == [x \in {"A", "K", "H", "V1", "V9", "BayA", "Bay9", "FeederA", "FeederK"} |->
               CASE x = "A" -> Obj("Substation", NoRef) [] x = "K" -> Obj("DistributionBox", NoRef)
                 [] x = "H" -> Obj("Building", NoRef) [] x = "V1" -> Obj("VoltageLevel", "A")
                 [] x = "V9" -> Obj("VoltageLevel", "gone") [] x = "BayA" -> Obj("Bay", "V1")
                 [] x = "Bay9" -> Obj("Bay", "V9") [] x = "FeederA" -> Obj("Feeder", "A")
                 [] x = "FeederK" -> Obj("Feeder", "K")]
Places == {"V1", "BayA", "FeederA", "K", "H", "Bay9", "gone"}
Trees == {s \in {Src(BigTree,
      <<Eq("busbar", b1, 1, <<11>>), Eq("busbar", b1, 1, IF b1 = "BayA" THEN <<12, 15, 16>> ELSE <<12>>),
        Eq("device", p3, 0, <<11, 12>>), Eq("unit", p4, 3, << >>), Eq("unit", p4, 3, << >>),
        Eq("generating", "BayA", 0, << >>),
        Eq("transformer", p7, 0, <<12, 13>>), Eq("busbar", "A", 8, <<14>>)>>) :
            b1 \in {"A", "V1", "BayA", "K"}, p3 \in Places \cup {NoRef}, p4 \in Places, p7 \in Places} :
          SatellitesAgree(s)}
MCSources == Graphs \cup Trees
MCBusbarOfBase == [b \in 1 .. 9 |-> "busbar:" \o ToString(b)]
=============================================================================
