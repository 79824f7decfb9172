---------------------------- MODULE ModelResolve ----------------------------
(***************************************************************************)
(* Phase 2 as far as an HJSON import needs it: staging objects become the  *)
(* containers, equipment, edges, attributes and points of a model. What    *)
(* Phase 2 does with stations and cables in batches, merged nodes and      *)
(* chains of segments is the subject of StationTopology and ACLineChains;  *)
(* here every busbar has one node and every cable one segment.             *)
(***************************************************************************)
EXTENDS Fachmodell, Tables

RefsOf(o, attribute) == {r[2] : r \in {r \in o.refs : r[1] = attribute}}
Ref(o, attribute) == IF RefsOf(o, attribute) = {} THEN NoID ELSE CHOOSE t \in RefsOf(o, attribute) : TRUE
IDsOf(objs, class) == {o.id : o \in {o \in objs : o.class = class}}
Find(objs, id) == CHOOSE o \in objs : o.id = id
Referring(objs, id, attribute) == {o \in objs : id \in RefsOf(o, attribute)}

----------------------------------------------------------------------------
(* Containers and who is in them. *)

SectionsOf(objs, level) ==
    {o.id : o \in {o \in Referring(objs, level, "Equipment.EquipmentContainer") : o.class = "BusbarSection"}}
Busbars(objs) == {v \in IDsOf(objs, "VoltageLevel") : SectionsOf(objs, v) # {}}
CableOf(segment) == <<"acline:">> \o segment

Containers(objs) ==
    LET Under(c, reference) == Ref(Find(objs, c), reference)
        stations == [c \in IDsOf(objs, "Substation") |-> [type |-> "Substation", parent |-> NoID]]
        houses == [c \in IDsOf(objs, "Building") |-> [type |-> "House", parent |-> NoID]]
        bays == [c \in IDsOf(objs, "Feeder") |->
                   [type |-> "Bay", parent |-> Under(c, "Feeder.NormalEnergizingSubstation")]]
        busbars == [c \in Busbars(objs) |-> [type |-> "Busbar", parent |-> Under(c, "VoltageLevel.Substation")]]
        cables == [c \in {CableOf(t) : t \in IDsOf(objs, "ACLineSegment")} |->
                     [type |-> "ACLine", parent |-> NoID]]
    IN  Over(stations, Over(houses, Over(bays, Over(busbars, cables))))

Contained(objs) ==
    LET containers == DOMAIN Containers(objs)
    IN  {o \in objs : Ref(o, "Equipment.EquipmentContainer") \in containers}
Equipment(objs) ==
    Over([e \in {o.id : o \in Contained(objs)} |-> Ref(Find(objs, e), "Equipment.EquipmentContainer")],
         [e \in IDsOf(objs, "ACLineSegment") |-> CableOf(e)])
Resolvable(objs) == DOMAIN Equipment(objs) \cup IDsOf(objs, "EquivalentInjection")

\* One terminal: the other end is GND. A terminal without a node is an anomaly.
IsWired(o) == o.class # "BusbarSection" /\ o.ends # <<>> /\ NoID \notin Range(o.ends)
Edges(objs) ==
    LET known == Resolvable(objs)
        wired == {o.id : o \in {o \in objs : o.id \in known /\ IsWired(o)}}
        Nodes(e) == Find(objs, e).ends
    IN  [e \in wired |-> IF Len(Nodes(e)) = 1 THEN <<Nodes(e)[1], GND>> ELSE Nodes(e)]

----------------------------------------------------------------------------
(* Attributes: an object's own and those of the objects folded into it. *)

Topology == {"Equipment.EquipmentContainer", "Bay.VoltageLevel"}
Linked(o) == {r[2] : r \in {r \in o.refs : r[1] \notin Topology}}
\* Only an object with records of its own leads on.
Beside(objs, id) ==
    IF \A o \in objs : o.id # id THEN {}
    ELSE Linked(Find(objs, id)) \cup {o.id : o \in {o \in objs : id \in Linked(o)}}
IsSatellite(objs, id) ==
    \E o \in objs : o.id = id /\ RefsOf(o, "Equipment.EquipmentContainer") = {}

\* The walk: wave by wave, in the order of the numbers of an owner's satellites
\* (below eleven, where "SAT10" sorts before "SAT2").
Folded(objs, e) ==
    LET near == {n \in Beside(objs, e) \ {e} : IsSatellite(objs, n)}
        far == {n \in (UNION {Beside(objs, m) : m \in near}) \ (near \cup {e}) : IsSatellite(objs, n)}
        Rising(ids) == SetToSortSeq(ids, LAMBDA a, b : Last(a) < Last(b))
        walk == Rising(near) \o Rising(far)
    IN  [i \in DOMAIN walk |-> LET o == Find(objs, walk[i]) IN <<"sat", o.class, o.lits>>]

EquipmentAttrs(objs, e) ==
    LET o == Find(objs, e)
        folded == Folded(objs, e)
        class == [k \in {Class} |-> <<<<"text", o.class>>>>]
        satellites == [k \in (IF folded = <<>> THEN {} ELSE {Satellite}) |-> folded]
        node == [k \in (IF o.class = "BusbarSection" THEN {BusbarNode} ELSE {}) |-> <<<<"id", o.ends[1]>>>>]
    IN  Over(o.lits, Over(class, Over(satellites, node)))

\* Stations keep name, region and one subregion; every other container its name.
ContainerAttrs(objs, c, type) ==
    LET lits == Find(objs, c).lits
        name == Name :> At(lits, Name, lits[Lead])
    IN  IF type = "Substation"
        THEN name @@ Restrict(lits, DOMAIN lits \cap {Region, SubRegion})
        ELSE name

Attrs(objs) ==
    LET containers == Containers(objs)
        equipment == [e \in Resolvable(objs) |-> EquipmentAttrs(objs, e)]
        own == [c \in DOMAIN containers \cap {o.id : o \in objs} |-> ContainerAttrs(objs, c, containers[c].type)]
        cables == [c \in {CableOf(t) : t \in IDsOf(objs, "ACLineSegment")} |-> Name :> <<<<"id", Tail(c)>>>>]
    IN  Over(equipment, Over(own, cables))

\* The point of an owner: the first one of its Location.
PointsOf(objs, o) == Referring(objs, Ref(o, "PowerSystemResource.Location"), "PositionPoint.Location")
PointNumber(p) == p.lits[<<"PositionPoint", "sequenceNumber">>][1][2]
Geometry(objs) ==
    LET owners == Resolvable(objs) \cup DOMAIN Containers(objs)
        located == {o \in objs : /\ o.id \in owners
                                 /\ RefsOf(o, "PowerSystemResource.Location") # {}
                                 /\ PointsOf(objs, o) # {}}
        First(o) == CHOOSE p \in PointsOf(objs, o) :
                        \A q \in PointsOf(objs, o) : PointNumber(p) <= PointNumber(q)
    IN  [id \in {o.id : o \in located} |->
            First(Find(objs, id)).lits[<<"PositionPoint", "at">>][1][2]]

Resolved(objs) ==
    [containers |-> Containers(objs), equipment |-> Equipment(objs), edges |-> Edges(objs),
     attrs |-> Attrs(objs), geometry |-> Geometry(objs)]
=============================================================================
