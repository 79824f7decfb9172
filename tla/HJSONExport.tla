---------------------------- MODULE HJSONExport ----------------------------
(***************************************************************************)
(* The HJSON exporter: Build turns the snapshot of a model into one file   *)
(* per top-level container, Write decides what of an attribute is written. *)
(*                                                                         *)
(* A snapshot s has                                                        *)
(*   containers  [ID -> [type, parent]]                                    *)
(*   equipment   [ID -> the ID of its container]                           *)
(*   edges       [equipment -> <<node, node>>], GND or NoID for no node    *)
(*   attrs       [owner -> [key -> sequence of values]]                    *)
(*   geometry    [owner -> point]                                          *)
(* A tree is a function from paths [dir, id] to files. Lists of a file     *)
(* whose order means nothing are sets; a point is a set of at most one.    *)
(***************************************************************************)
EXTENDS Fachmodell, FiniteSets, Tables

CONSTANT Rank  \* the place of IDs and <<region>>s in the string order

Default == "default"  \* defaultNetzregion of hjsonexport

----------------------------------------------------------------------------
(* Where equipment belongs and what it touches. *)

Roots(s) == {c \in DOMAIN s.containers : s.containers[c].type \in RootTypes}

\* Upwards until a root, or until there is no container; parents in a circle meet neither.
ContainerRootOf(s, c) ==
    LET parents == DOMAIN s.containers \ Roots(s)
        up[k \in 0..Cardinality(parents)] ==
            IF k = 0 THEN c
            ELSE LET d == up[k - 1] IN IF d \in parents THEN s.containers[d].parent ELSE d
        top == up[Cardinality(parents)]
    IN  IF top \in Roots(s) THEN top ELSE NoID

RootOf(s, e) == IF e \in DOMAIN s.equipment THEN ContainerRootOf(s, s.equipment[e]) ELSE NoID
EquipmentOf(s, c) == {e \in DOMAIN s.equipment : s.equipment[e] = c}
Children(s, c, type) ==
    {d \in DOMAIN s.containers : s.containers[d] = [type |-> type, parent |-> c]}

Ends(s, e) == Range(At(s.edges, e, <<>>)) \ {NoID, GND}
Touching(s, n) == {e \in DOMAIN s.edges : n \in Ends(s, e)}
Neighbours(s, c) ==
    (UNION {Touching(s, n) : n \in UNION {Ends(s, e) : e \in EquipmentOf(s, c)}}) \ EquipmentOf(s, c)

Hosts(s, c) == {RootOf(s, e) : e \in Neighbours(s, c)}

\* A cable all of whose neighbours are in one station is folded into its file.
IsFolded(s, c) ==
    /\ s.containers[c].type = "ACLine"
    /\ LET hosts == Hosts(s, c)
       IN  \E r \in hosts : hosts = {r} /\ r # NoID /\ s.containers[r].type \in StationTypes

EffRoot(s, r) == IF IsFolded(s, r) THEN CHOOSE h \in Hosts(s, r) : TRUE ELSE r

----------------------------------------------------------------------------
(* The place of a file: region, subregion directories, directory, ID. *)

Attr(s, o, key) == At(At(s.attrs, o, NoAttrs), key, <<>>)
Text(s, o, key, none) == IF Attr(s, o, key) = <<>> THEN none ELSE Attr(s, o, key)[1][2]

ResolvedSubregion(s, o) == Text(s, o, SubRegionPath, Text(s, o, SubRegion, <<>>))

\* A cable takes the region most of its stations have, and the directories they share.
Candidates(s, c) ==
    {r \in Hosts(s, c) \ {NoID, c} : s.containers[r].type # "ACLine" /\ Attr(s, r, Region) # <<>>}
Votes(s, c, region) == {r \in Candidates(s, c) : Text(s, r, Region, Default) = region}
StationRegion(s, c) ==
    LET regions == {Text(s, r, Region, Default) : r \in Candidates(s, c)}
        Wins(a, b) == \/ Cardinality(Votes(s, c, a)) > Cardinality(Votes(s, c, b))
                      \/ /\ Cardinality(Votes(s, c, a)) = Cardinality(Votes(s, c, b))
                         /\ Rank[<<a>>] <= Rank[<<b>>]
        chosen == CHOOSE a \in regions : \A b \in regions : Wins(a, b)
    IN  IF regions = {} THEN <<Default>>
        ELSE <<chosen>> \o LongestCommonPrefix({ResolvedSubregion(s, r) : r \in Votes(s, c, chosen)})

RegionPath(s, o) ==
    IF o \in DOMAIN s.containers /\ s.containers[o].type = "ACLine" THEN StationRegion(s, o)
    ELSE <<Text(s, o, Region, Default)>> \o ResolvedSubregion(s, o)

FileOf(s, r) ==
    LET type == s.containers[r].type IN
    [dir |-> Append(RegionPath(s, r), DirForType[type]),
     id |-> IF type = "ACLine" /\ r[1] = "acline:" THEN Tail(r) ELSE r]

\* The files as if a folded cable still had one of its own.
FilesOfRoots(s, n, kinds) ==
    {FileOf(s, r) : r \in {RootOf(s, e) : e \in Touching(s, n)}
                          \cap {r \in Roots(s) : s.containers[r].type \in kinds}}

\* The comments at a node: the files of the other kind that go on from there.
FilesAt(s, n, kinds) ==
    {FileOf(s, r) : r \in {EffRoot(s, q) : q \in {RootOf(s, e) : e \in Touching(s, n)} \ {NoID}}
                          \cap {r \in Roots(s) : s.containers[r].type \in kinds}}

RelativeFileRef(from, file) ==
    LET shared == Len(LongestCommonPrefix({from, file.dir}))
    IN  [ups |-> Len(from) - shared, down |-> SubSeq(file.dir, shared + 1, Len(file.dir)), id |-> file.id]

Connect(s, root, n, from, kinds) ==
    [node |-> Shorten(root, n), refs |-> {RelativeFileRef(from, f) : f \in FilesAt(s, n, kinds)}]

----------------------------------------------------------------------------
(* Attributes and satellites: what is read from the model, what is written. *)

Attributes(s, o, hidden) ==
    LET attrs == Without(At(s.attrs, o, NoAttrs), hidden \cup {Satellite, BusbarNode})
        Scaled(k, v) == IF k \in KwToMWKeys /\ v[1] = "float" THEN <<"float", v[2], v[3] + 1>> ELSE v
    IN  [k \in DOMAIN attrs |-> [i \in DOMAIN attrs[k] |-> Scaled(k, attrs[k][i])]]

Satellites(s, o) == Attr(s, o, Satellite)
OfClass(sats, class) == SelectSeq(sats, LAMBDA v : v[2] = class)
NotOfClass(sats, classes) == SelectSeq(sats, LAMBDA v : v[2] \notin classes)
BuildSatellites(s, o) == NotOfClass(Satellites(s, o), {"Location", "UsagePointLocation", "PositionPoint"})

SequenceNumber(v, class) == At(v[3], <<class, "sequenceNumber">>, <<<<"text", 0>>>>)[1][2]

\* The route of a segment: its folded points in the order of their numbers.
GeometryPath(s, o) ==
    LET points == OfClass(Satellites(s, o), "PositionPoint")
        Before(i, j) == LET a == SequenceNumber(points[i], "PositionPoint")
                            b == SequenceNumber(points[j], "PositionPoint")
                        IN  a < b \/ (a = b /\ i < j)
        order == SetToSortSeq(DOMAIN points, Before)
    IN  [i \in DOMAIN order |-> points[order[i]][3][<<"PositionPoint", "at">>][1][2]]

OwnerPoint(s, o) == IF o \in DOMAIN s.geometry THEN {s.geometry[o]} ELSE {}

\* Two attributes written without a word, and the keys whose strings become numbers.
DefaultOmit == (<<"Equipment", "normallyInService">> :> <<"text", "true">>)
            @@ (<<"TimeSchedule", "disabled">> :> <<"text", "false">>)
NumericAttrKeys ==
    {<<"EnergyConsumer", "p">>, <<"EnergyConsumer", "q">>, <<"Conductor", "length">>,
     <<"Switch", "ratedCurrent">>, <<"AnalogValue", "value">>, <<"DiscreteControlLimit", "value">>,
     <<"TimeSchedule", "recurrencePeriod">>, <<"PowerElectronicsConnection", "p">>}

Visible(attrs) ==
    {k \in DOMAIN attrs : ~(k \in DOMAIN DefaultOmit /\ attrs[k] = <<DefaultOmit[k]>>)}
Splittable(k) == k[1] \notin {"", "cim:Line"}
Collides(k, keys) ==
    \E j \in keys \ {Lead} : Splittable(j) /\ j[2] = k[2] /\ j[1] # k[1]
RenderKey(k, keys) ==
    IF k = Lead THEN Name
    ELSE IF Splittable(k) /\ ~Collides(k, keys) THEN <<"", k[2]>>
    ELSE k
RenderValue(k, v) ==
    IF v[1] = "num" /\ k \in NumericAttrKeys THEN <<"float", v[2], v[3]>> ELSE v

\* A block of attributes as it stands in a file.
Written(attrs) ==
    LET keys == Visible(attrs)
        Source(rk) == CHOOSE k \in keys : RenderKey(k, keys) = rk
        Rendered(k) == IF Len(attrs[k]) = 1 THEN <<RenderValue(k, attrs[k][1])>> ELSE attrs[k]
    IN  [rk \in {RenderKey(k, keys) : k \in keys} |-> Rendered(Source(rk))]
WrittenSatellites(sats) ==
    [i \in DOMAIN sats |-> [class |-> sats[i][2], attributes |-> Written(sats[i][3])]]

----------------------------------------------------------------------------
(* The parts of a file. *)

\* Limits numbered 1..N become a list of steps.
Steps(sats) ==
    LET limits == OfClass(sats, "DiscreteControlLimit")
        Number(i) == SequenceNumber(limits[i], "DiscreteControlLimit")
        Value(i) == At(limits[i][3], <<"DiscreteControlLimit", "value">>, <<<<"text", 0>>>>)[1]
        regular == /\ {Number(i) : i \in DOMAIN limits} = DOMAIN limits
                   /\ \A i \in DOMAIN limits : Value(i)[1] = "num"
    IN  IF regular
        THEN [n \in DOMAIN limits |->
                 LET i == CHOOSE j \in DOMAIN limits : Number(j) = n
                 IN  <<"float", Value(i)[2], Value(i)[3]>>]
        ELSE <<>>

\* The two schedules of a meter, without a name that is the meter's own.
Schedules(class, sats, attrs) ==
    LET two == OfClass(sats, "TimeSchedule")
        Own(a) == IF Lead \in DOMAIN a /\ Lead \in DOMAIN attrs /\ a[Lead] = attrs[Lead]
                  THEN Without(a, {Lead}) ELSE a
    IN  IF class = "Meter" /\ Len(two) = 2 THEN <<Own(two[1][3]), Own(two[2][3])>> ELSE <<>>

EquipmentEntry(s, root, e, from, kinds) ==
    LET class == Text(s, e, Class, "")
        attrs == Attributes(s, e, {Class})
        sats == BuildSatellites(s, e)
        schedules == Schedules(class, sats, attrs)
        edge == At(s.edges, e, <<>>)
        wired == IF Len(edge) = 2 /\ edge[2] = GND THEN <<edge[1]>> ELSE edge
        taken == (IF schedules # <<>> THEN {"TimeSchedule"} ELSE {})
                 \cup (IF Steps(sats) # <<>> THEN {"DiscreteControlLimit"} ELSE {})
    IN  [id |-> Shorten(root, e), class |-> class, attributes |-> Written(attrs),
         measuring |-> IF schedules = <<>> THEN NoAttrs ELSE Written(schedules[1]),
         transmission |-> IF schedules = <<>> THEN NoAttrs ELSE Written(schedules[2]),
         connects |-> [i \in DOMAIN wired |-> Connect(s, root, wired[i], from, kinds)],
         satellites |-> WrittenSatellites(NotOfClass(sats, taken)),
         steps |-> Steps(sats), geometry |-> OwnerPoint(s, e)]

SegmentEntry(s, root, e, from, kinds) ==
    LET edge == At(s.edges, e, <<NoID, NoID>>)
    IN  [id |-> Shorten(root, e), attributes |-> Written(Attributes(s, e, {Class})),
         connects |-> [i \in 1..2 |-> Connect(s, root, edge[i], from, kinds)],
         satellites |-> WrittenSatellites(BuildSatellites(s, e)), geometry |-> GeometryPath(s, e)]

\* A busbar is named after its node; its sections are numbered, and share its point.
BusbarEntry(s, root, b) ==
    LET sections == SetToSortSeq(EquipmentOf(s, b), LAMBDA d, e : Rank[d] < Rank[e])
        node == Text(s, SelectSeq(sections, LAMBDA e : Attr(s, e, BusbarNode) # <<>>)[1], BusbarNode, NoID)
        attrs == [i \in DOMAIN sections |-> Attributes(s, sections[i], {Class})]
        hoisted == /\ Len(sections) >= 2
                   /\ \A i \in DOMAIN sections : Lead \in DOMAIN attrs[i] /\ attrs[i][Lead] = attrs[1][Lead]
                   /\ Len(attrs[1][Lead]) = 1
    IN  [id |-> Shorten(root, node),
         attributes |-> IF hoisted THEN Written(Lead :> attrs[1][Lead]) ELSE NoAttrs,
         sections |-> [i \in DOMAIN sections |->
            [id |-> ToString(i),
             attributes |-> Written(Without(attrs[i], IF hoisted THEN {Lead} ELSE {})),
             satellites |-> WrittenSatellites(BuildSatellites(s, sections[i])),
             geometry |-> OwnerPoint(s, b)]]]
IsExportedBusbar(s, b) == \E e \in EquipmentOf(s, b) : Attr(s, e, BusbarNode) # <<>>

Empty == [attributes |-> NoAttrs, geometry |-> {}, equipments |-> {}, busbars |-> {},
          bays |-> {}, segments |-> {}, parses |-> TRUE]

StationFile(s, r, from) ==
    LET Entries(c) == {EquipmentEntry(s, r, e, from, {"ACLine"}) : e \in EquipmentOf(s, c)}
        folded == {c \in Roots(s) : IsFolded(s, c) /\ EffRoot(s, c) = r}
    IN  [Empty EXCEPT
         !.equipments = Entries(r),
         !.busbars = {BusbarEntry(s, r, b) : b \in {b \in Children(s, r, "Busbar") : IsExportedBusbar(s, b)}},
         !.bays = {[id |-> Shorten(r, b), attributes |-> Written(Attributes(s, b, {})), equipments |-> Entries(b)]
                   : b \in Children(s, r, "Bay")},
         !.segments = {SegmentEntry(s, r, e, from, {"ACLine"}) : e \in UNION {EquipmentOf(s, c) : c \in folded}}]

Document(s, r) ==
    LET from == FileOf(s, r).dir
        type == s.containers[r].type
        body == IF type \in StationTypes THEN StationFile(s, r, from)
                ELSE IF type = "House"
                THEN [Empty EXCEPT !.equipments =
                        {EquipmentEntry(s, r, e, from, {"ACLine"}) : e \in EquipmentOf(s, r)}]
                ELSE [Empty EXCEPT !.segments =
                        {SegmentEntry(s, r, e, from, RootTypes \ {"ACLine"}) : e \in EquipmentOf(s, r)}]
    IN  [body EXCEPT !.attributes = Written(Attributes(s, r, {})), !.geometry = OwnerPoint(s, r)]

\* Equipment with an edge and no container: one file per region.
Orphans(s) == DOMAIN s.edges \ DOMAIN s.equipment
BoundaryPath(s, e) == [dir |-> Append(RegionPath(s, e), BoundaryDir), id |-> <<"Boundary">>]
BoundaryFile(s, path) ==
    [Empty EXCEPT !.equipments =
        {EquipmentEntry(s, NoID, e, path.dir, {}) : e \in {e \in Orphans(s) : BoundaryPath(s, e) = path}}]

Build(s) ==
    LET own == {r \in Roots(s) : ~IsFolded(s, r)}
        Owner(path) == CHOOSE r \in own : FileOf(s, r) = path
        boundary == {BoundaryPath(s, e) : e \in Orphans(s)}
    IN  Over([path \in {FileOf(s, r) : r \in own} |-> Document(s, Owner(path))],
             [path \in boundary |-> BoundaryFile(s, path)])
=============================================================================
