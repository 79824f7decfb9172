---------------------------- MODULE HJSONImport ----------------------------
(***************************************************************************)
(* The HJSON importer: Check looks a tree of files over, Emit turns it     *)
(* into staging objects, and the phases that every import ends with make   *)
(* a model of those (Resolved; a snapshot as in HJSONExport).              *)
(*                                                                         *)
(* A staging object is [id, class, lits, refs, ends]: its literal          *)
(* attributes, its references <<attribute, ID>> and, for its Terminals,    *)
(* the nodes they are at.                                                  *)
(***************************************************************************)
EXTENDS Fachmodell, FiniteSets, Tables

Dirs == Range(DirForType) \cup {BoundaryDir}
DirOf(path) == path.dir[Len(path.dir)]

\* A path that ClassifyPath accepts.
Classified(path) ==
    /\ Len(path.dir) >= 2 /\ DirOf(path) \in Dirs
    /\ path.dir[1] = "interregional" => DirOf(path) = "Kabel" /\ Len(path.dir) = 2
Duplicate(tree, path) ==
    \E other \in DOMAIN tree \ {path} : Classified(other) /\ other.id = path.id

BayEquipment(doc) == UNION {bay.equipments : bay \in doc.bays}

----------------------------------------------------------------------------
(* Check: a dry run over a tree, which stops at nothing. *)

\* Check as it would be if it left out what stands directly in a file.
BayErrors(doc) ==
    {<<"class", q.id>> : q \in {q \in BayEquipment(doc) : q.class = ""}}
    \cup {<<"connects", q.id>> : q \in {q \in BayEquipment(doc) : Len(q.connects) > 2}}

EquipmentErrors(doc) ==
    LET all == BayEquipment(doc) \cup doc.equipments
    IN  {<<"class", q.id>> : q \in {q \in all : q.class = ""}}
        \cup {<<"connects", q.id>> : q \in {q \in all : Len(q.connects) > 2}}

Findings(tree) ==
    LET good == {p \in DOMAIN tree : Classified(p)}
    IN  {<<"path", p.id>> : p \in DOMAIN tree \ good}
        \cup {<<"duplicate", p.id>> : p \in {p \in good : Duplicate(tree, p)}}
        \cup {<<"syntax", p.id>> : p \in {p \in good : ~tree[p].parses}}
        \cup UNION {EquipmentErrors(tree[p]) : p \in {p \in good : tree[p].parses}}

----------------------------------------------------------------------------
(* Emit: keys and values. *)

\* Short keys known to belong to another class than the object's own.
UniqueAttrClass ==
    [normallyInService |-> "Equipment", normalOpen |-> "Switch", open |-> "Switch",
     length |-> "Conductor", measurementLocationIdentifier |-> "Meter", mRID |-> "IdentifiedObject",
     disabled |-> "TimeSchedule", recurrencePeriod |-> "TimeSchedule", value |-> "DiscreteControlLimit"]
SvClasses == {"SvStatus", "SvSwitch"}

\* A short key as the object's own class would have it.
OwnClassKey(k, class) == IF k = Name THEN Lead ELSE IF k[1] # "" THEN k ELSE <<class, k[2]>>

DenormalizeAttrKey(k, class) ==
    IF k = Name THEN Lead
    ELSE IF k[1] # "" THEN k
    ELSE IF class \notin SvClasses /\ k[2] \in DOMAIN UniqueAttrClass THEN <<UniqueAttrClass[k[2]], k[2]>>
    ELSE <<class, k[2]>>

\* A number of a file becomes a string; kW becomes MW.
FormatAttrValue(k, v) ==
    IF v[1] = "float" THEN <<"num", v[2], IF k \in KwToMWKeys THEN v[3] - 1 ELSE v[3]>> ELSE v
Formatted(k, vals) == [i \in DOMAIN vals |-> FormatAttrValue(k, vals[i])]

ContainerLits(attrs) == [k \in DOMAIN attrs |-> Formatted(k, attrs[k])]
EntityLits(class, attrs) ==
    LET Source(k) == CHOOSE rk \in DOMAIN attrs : DenormalizeAttrKey(rk, class) = k
    IN  [k \in {DenormalizeAttrKey(rk, class) : rk \in DOMAIN attrs} |-> Formatted(k, attrs[Source(k)])]

\* The directories of a file stand for what its attributes do not say.
ApplyRegionPrecedence(path, attrs) ==
    LET subs == SubSeq(path.dir, 2, Len(path.dir) - 1)
        implied == (Region :> <<<<"text", path.dir[1]>>>>)
                   @@ (IF subs = <<>> THEN NoAttrs
                       ELSE (IF Len(subs) > 1 THEN SubRegionPath ELSE SubRegion) :> <<<<"path", subs>>>>)
    IN  attrs @@ implied

----------------------------------------------------------------------------
(* Emit: objects. *)

Object(id, class, lits, refs, ends) ==
    [id |-> id, class |-> class, lits |-> lits, refs |-> refs, ends |-> ends]

LocationOf(owner) == owner \o <<"LOC", 0>>

\* A route: one PositionPoint each, which name a Location that is no object itself.
PointObjects(owner, points) ==
    {Object(LocationOf(owner) \o <<"PP", i>>, "PositionPoint",
            (<<"PositionPoint", "sequenceNumber">> :> <<<<"num", i, 0>>>>)
            @@ (<<"PositionPoint", "at">> :> <<<<"point", points[i]>>>>),
            {<<"PositionPoint.Location", LocationOf(owner)>>}, <<>>) : i \in DOMAIN points}
LocationRefs(owner, points) ==
    IF points = <<>> THEN {} ELSE {<<"PowerSystemResource.Location", LocationOf(owner)>>}

SatelliteObjects(owner, sats) ==
    {Object(owner \o <<"SAT", i>>, sats[i].class,
            EntityLits(sats[i].class, sats[i].attributes), {<<"Satellite.Of", owner>>}, <<>>)
     : i \in DOMAIN sats}

\* measuring and transmission become schedules again, named after their meter if unnamed.
ScheduleSatellites(q) ==
    LET Named(a) == IF Name \in DOMAIN q.attributes THEN a @@ (Name :> q.attributes[Name]) ELSE a
    IN  [i \in 1..Cardinality({b \in {"measuring", "transmission"} : q[b] # NoAttrs}) |->
            [class |-> "TimeSchedule",
             attributes |-> Named(IF i = 1 /\ q.measuring # NoAttrs THEN q.measuring ELSE q.transmission)]]
LimitSatellites(id, steps) ==
    [i \in DOMAIN steps |->
        [class |-> "DiscreteControlLimit",
         attributes |-> (Lead :> <<<<"id", Append(id, ToString(i))>>>>)
                        @@ (<<"DiscreteControlLimit", "sequenceNumber">> :> <<<<"num", i, 0>>>>)
                        @@ (<<"DiscreteControlLimit", "value">> :> <<<<"num", steps[i][2], steps[i][3]>>>>)]]

PointSeq(geometry) == SetToSeq(geometry)
Wired(root, connects) == [i \in DOMAIN connects |-> ResolveID(root, connects[i].node)]

\* An equipment without a class is left out; one with too many connects has no terminals.
EquipmentObjects(root, q, container) ==
    IF q.class = "" THEN {}
    ELSE LET id == ResolveID(root, q.id)
             points == PointSeq(q.geometry)
         IN  {Object(id, q.class, EntityLits(q.class, q.attributes),
                     LocationRefs(id, points)
                     \cup (IF container = NoID THEN {} ELSE {<<"Equipment.EquipmentContainer", container>>}),
                     IF Len(q.connects) > 2 THEN <<>> ELSE Wired(root, q.connects))}
             \cup PointObjects(id, points)
             \cup SatelliteObjects(id, q.satellites \o ScheduleSatellites(q) \o LimitSatellites(id, q.steps))

SegmentObjects(root, q) ==
    LET id == ResolveID(root, q.id)
    IN  {Object(id, "ACLineSegment", EntityLits("ACLineSegment", q.attributes),
                LocationRefs(id, q.geometry), Wired(root, q.connects))}
        \cup PointObjects(id, q.geometry) \cup SatelliteObjects(id, q.satellites)

\* A busbar becomes a VoltageLevel; its sections end at its node.
BusbarObjects(root, b) ==
    LET node == ResolveID(root, b.id)
        level == Append(node, "VL")
        Section(t) == LET id == Append(node, t.id) IN
            {Object(id, "BusbarSection", EntityLits("BusbarSection", t.attributes @@ b.attributes),
                    LocationRefs(id, PointSeq(t.geometry)) \cup {<<"Equipment.EquipmentContainer", level>>},
                    <<node>>)}
            \cup PointObjects(id, PointSeq(t.geometry)) \cup SatelliteObjects(id, t.satellites)
    IN  {Object(level, "VoltageLevel", Lead :> <<<<"id", b.id>>>>, {<<"VoltageLevel.Substation", root>>}, <<>>)}
        \cup UNION {Section(t) : t \in Range(b.sections)}

BayObjects(root, bay) ==
    LET id == ResolveID(root, bay.id)
        name == At(bay.attributes, Name, <<<<"id", bay.id>>>>)
    IN  {Object(id, "Feeder", Lead :> name, {<<"Feeder.NormalEnergizingSubstation", root>>}, <<>>)}
        \cup UNION {EquipmentObjects(root, q, id) : q \in bay.equipments}

ContainerObjects(path, class, doc) ==
    LET id == path.id
        points == PointSeq(doc.geometry)
    IN  {Object(id, class,
                Over([k \in {Lead} |-> <<<<"id", id>>>>],
                     ContainerLits(ApplyRegionPrecedence(path, doc.attributes))),
                LocationRefs(id, points), <<>>)} \cup PointObjects(id, points)

FileObjects(path, doc) ==
    LET id == path.id
        Own(container) == UNION {EquipmentObjects(id, q, container) : q \in doc.equipments}
        segments == UNION {SegmentObjects(id, q) : q \in doc.segments}
    IN  CASE DirOf(path) \in {"ONS", "KVS"} ->
               ContainerObjects(path, "Substation", doc) \cup Own(id) \cup segments
               \cup (UNION {BusbarObjects(id, b) : b \in doc.busbars})
               \cup (UNION {BayObjects(id, bay) : bay \in doc.bays})
          [] DirOf(path) = "Kabel" -> segments
          [] DirOf(path) = "Haushalte" -> ContainerObjects(path, "Building", doc) \cup Own(id)
          [] DirOf(path) = BoundaryDir -> Own(NoID)

\* What a file's own equipment is refused for; bays count in stations only.
FileErrors(path, doc) ==
    LET seen == (IF DirOf(path) = "Kabel" THEN {} ELSE doc.equipments)
                \cup (IF DirOf(path) \in {"ONS", "KVS"} THEN BayEquipment(doc) ELSE {})
    IN  {<<"class", q.id>> : q \in {q \in seen : q.class = ""}}
        \cup {<<"connects", q.id>> : q \in {q \in seen : q.class # "" /\ Len(q.connects) > 2}}

\* One path that is not understood ends the import; all files of a duplicate ID are skipped.
Aborts(tree) == \E p \in DOMAIN tree : ~Classified(p)
Taken(tree) == {p \in DOMAIN tree : ~Duplicate(tree, p) /\ tree[p].parses}
Emit(tree) ==
    {o \in UNION {FileObjects(p, tree[p]) : p \in Taken(tree)} : o.lits # NoAttrs \/ o.refs # {}}
EmitErrors(tree) ==
    {<<"duplicate", p.id>> : p \in {p \in DOMAIN tree : Duplicate(tree, p)}}
    \cup {<<"syntax", p.id>> : p \in {p \in DOMAIN tree : ~Duplicate(tree, p) /\ ~tree[p].parses}}
    \cup UNION {FileErrors(p, tree[p]) : p \in Taken(tree)}
=============================================================================
