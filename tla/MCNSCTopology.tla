---------------------------- MODULE MCNSCTopology ----------------------------
(* Two busbar sections with one or two Terminals, a cable, and every choice *)
(* of two further pieces of equipment (cable, switch, fuse, joint of three  *)
(* cables, transformer, consumer, what is in a house) on four nodes,        *)
(* without rings.                                                           *)
EXTENDS NSCTopology

MCEquipment == 1 .. 5
MCNodes == 1 .. 4
Bars == {<< <<1>>, <<2>> >>, << <<1, 2>>, <<3>> >>, << <<1>>, <<1>> >>, << <<1, 2>>, <<2>> >>}
Pairs == {p \in MCNodes \X MCNodes : p[1] < p[2]}
Kind(c, n, h) == [class |-> c, nodes |-> n, house |-> h]
Kinds == [class : {"ACLineSegment", "Switch", "Fuse"}, nodes : Pairs, house : {FALSE}]
         \cup {Kind("Junction", <<1, 3, 4>>, FALSE), Kind("Junction", <<2, 4, 3>>, FALSE)}
         \cup [class : {"PowerTransformer", "EnergyConsumer"}, nodes : {<<3>>, <<4>>}, house : {FALSE}]
         \cup {Kind("Fuse", <<4, 3>>, TRUE), Kind("EnergyConsumer", <<4>>, TRUE)}
Bar(n) == Kind("BusbarSection", n, FALSE)
MCSources ==
    {LET all == <<Bar(b[1]), Bar(b[2]), x, y, z>>
     IN  [class |-> [e \in MCEquipment |-> all[e].class],
          nodes |-> [e \in MCEquipment |-> all[e].nodes],
          inHouse |-> {e \in MCEquipment : all[e].house}] : b \in Bars, x \in {k \in Kinds : k.class = "ACLineSegment"}, y \in Kinds, z \in Kinds}
=============================================================================
