-------------------------- MODULE MCModelExchange --------------------------
(* A station with a bay, a busbar of two sections, a meter with its two      *)
(* schedules, an inverter with steps and a cable that stays inside; a       *)
(* distribution box and a house, cables between them, and an injection at   *)
(* the border. The stores differ in regions and in what is there.           *)
EXTENDS ModelExchange

(* Rows: the key of a row that is no attribute names its table. *)
Row(t, o, v) == [owner |-> o, key |-> <<t, "">>, seq |-> 0, val |-> v]
Box(o, type, parent) == Row("containers", o, [type |-> type, parent |-> parent])
Attrib(o, key, v) == [Row("attributes", o, v) EXCEPT !.key = key]
Word(x) == <<"text", x>>
Num(n) == <<"num", n, 0>>
SatNo(o, i, class, attrs) == [Attrib(o, Satellite, <<"sat", class, attrs>>) EXCEPT !.seq = i]
Typed(o, class, name) == {Attrib(o, Class, Word(class)), Attrib(o, Lead, Word(name))}
Schedule(o, i, name) ==
    SatNo(o, i, "TimeSchedule", (Lead :> <<Word(name)>>)
        @@ (<<"TimeSchedule", "disabled">> :> <<Word("false")>>)
        @@ (<<"TimeSchedule", "recurrencePeriod">> :> <<Num(900)>>))
Limit(o, i, v) ==
    SatNo(o, i + 1, "DiscreteControlLimit", (Lead :> <<Word("limit")>>)
        @@ (<<"DiscreteControlLimit", "sequenceNumber">> :> <<Num(i)>>)
        @@ (<<"DiscreteControlLimit", "value">> :> <<Num(v)>>))
RoutePoint(o, i, at) ==
    SatNo(o, i, "PositionPoint", (<<"PositionPoint", "sequenceNumber">> :> <<Num(i)>>)
        @@ (<<"PositionPoint", "at">> :> <<<<"point", at>>>>))

----------------------------------------------------------------------------
(* IDs, in the order of strings. *)
S1 == <<"S1">>
K1 == <<"K1">>
H1 == <<"H1">>
S(part) == <<"S1", part>>
Cable(e) == <<"acline:">> \o e
C1 == <<"C1">>
C2 == <<"C2">>
J1 == <<"J1">>
I1 == <<"I1">>
Bar == <<"BB">>

MCOrder == <<Bar, C1, C2, H1, <<"H1", "N1">>, <<"H1", "V">>, I1, J1, K1, <<"K1", "F">>,
             <<"Nord">>, S1, S("B"), S("F1"), S("M"), S("N1"), <<"S1", "N1", "1">>, <<"S1", "N1", "2">>,
             S("V"), S("W"), S("X1"), S("X2"), <<"Sued">>, Cable(C1), Cable(C2), Cable(J1),
             <<"default">>>>
MCOwners == Range(MCOrder)
MCRank == [o \in MCOwners |-> CHOOSE i \in DOMAIN MCOrder : MCOrder[i] = o]

----------------------------------------------------------------------------
(* Parts of a store: sets of rows, table by table. *)
Part(c, eq, ed, at, geo) ==
    [containers |-> c,
     equipment |-> {Row("equipment", x[1], x[2]) : x \in eq},
     nodes |-> {Row("nodes", n, "node") : n \in {S("N1"), <<"H1", "N1">>}},
     edges |-> {Row("edges", x[1], <<x[2], x[3]>>) : x \in ed},
     geometry |-> {Row("geometry", x[1], x[2]) : x \in geo},
     attributes |-> at,
     groups |-> {[Row("groups", x[1], "group") EXCEPT !.seq = i] : x \in ed, i \in 1..2}]

Switching == <<"Switch", "normalOpen">>
StationPart == Part(
    {Box(S1, "Substation", NoID), Box(S("F1"), "Bay", S1), Box(Bar, "Busbar", S1)},
    {<<S("X1"), Bar>>, <<S("X2"), Bar>>, <<S("M"), S1>>, <<S("B"), S("F1")>>, <<S("W"), S("F1")>>},
    {<<S("M"), S("N1"), GND>>, <<S("B"), S("N2"), S("N1")>>, <<S("W"), S("N2"), GND>>},
    {Attrib(S1, Name, Word("Markt")), Attrib(S1, Region, Word("Nord")), Attrib(S1, SubRegion, <<"path", <<"West">>>>),
     Attrib(S("F1"), Name, Word("Feld 1"))}
    \cup Typed(S("X1"), "BusbarSection", "SS") \cup Typed(S("X2"), "BusbarSection", "SS")
    \cup {Attrib(x, BusbarNode, <<"id", S("N1")>>) : x \in {S("X1"), S("X2")}}
    \cup Typed(S("M"), "Meter", "Zaehler") \cup {Schedule(S("M"), 1, "Zaehler"), Schedule(S("M"), 2, "TAF 10")}
    \cup Typed(S("B"), "Breaker", "LS")
    \cup {Attrib(S("B"), Switching, Word("false")), Attrib(S("B"), <<"Equipment", "normallyInService">>, Word("true"))}
    \cup Typed(S("W"), "PowerElectronicsConnection", "WR")
    \cup {SatNo(S("W"), 1, "RegulatingControl", Lead :> <<Word("Regler")>>), Limit(S("W"), 1, 60), Limit(S("W"), 2, 30)},
    {<<S1, "p0">>, <<Bar, "pb">>, <<S("W"), "pw">>})

\* A consumer of the station behind a cable of the station.
InsidePart == Part(
    {Box(Cable(J1), "ACLine", NoID)}, {<<S("V"), S1>>, <<J1, Cable(J1)>>},
    {<<S("V"), S("N3"), GND>>, <<J1, S("N1"), S("N3")>>},
    Typed(S("V"), "EnergyConsumer", "Last") \cup {Attrib(Cable(J1), Name, Word("J1"))}
    \cup {Attrib(J1, Class, Word("ACLineSegment")), Attrib(J1, <<"Conductor", "length">>, Num(3))}, {})

HousePart == Part(
    {Box(H1, "House", NoID)}, {<<<<"H1", "V">>, H1>>}, {<<<<"H1", "V">>, <<"H1", "N1">>, GND>>},
    {Attrib(H1, Name, Word("Haus"))} \cup Typed(<<"H1", "V">>, "EnergyConsumer", "Haushalt"), {<<H1, "ph">>})

BoxPart(region) == Part(
    {Box(K1, "DistributionBox", NoID)}, {<<<<"K1", "F">>, K1>>},
    {<<<<"K1", "F">>, <<"K1", "N1">>, <<"K1", "N2">>>>},
    {Attrib(K1, Name, Word("KVS")), Attrib(K1, Region, Word(region)), Attrib(<<"K1", "F">>, Switching, Word("true"))}
    \cup Typed(<<"K1", "F">>, "Fuse", "Sicherung"), {})

CablePart(e, m, n) == Part(
    {Box(Cable(e), "ACLine", NoID)}, {<<e, Cable(e)>>}, {<<e, m, n>>},
    {Attrib(Cable(e), Name, Word("Kabel")), Attrib(e, Class, Word("ACLineSegment")),
     Attrib(e, <<"Conductor", "length">>, Num(40)), Attrib(e, <<"cim:Line", "mRID">>, Word("line")),
     RoutePoint(e, 1, "r1"), RoutePoint(e, 2, "r2")}, {<<e, "r1">>})

BorderPart == Part({}, {}, {<<I1, S("N2"), GND>>}, Typed(I1, "EquivalentInjection", "Netz"), {})
PowerPart == Part({}, {}, {}, {Attrib(<<"H1", "V">>, <<"EnergyConsumer", "p">>, Num(5))}, {})

Stored(parts) ==
    LET rows(t) == UNION {p[t] : p \in parts} IN [t \in Tables |-> InQueryOrder(rows(t))]
Town(region) ==
    Stored({StationPart, InsidePart, HousePart, BoxPart(region), BorderPart,
            CablePart(C1, S("N2"), <<"K1", "N1">>), CablePart(C2, <<"K1", "N2">>, <<"H1", "N1">>)})
Village == Stored({StationPart, HousePart, CablePart(C1, S("N2"), <<"H1", "N1">>)})

MCSources == {Town("Nord"), Town("Sued"), Village}
Nothing == [t \in Tables |-> {}]
\* An older state of the house, and a point that is no longer in any source.
Older == [Nothing EXCEPT
    !.attributes = {Attrib(H1, Name, Word("Neubau")), Attrib(H1, Region, Word("Sued"))},
    !.geometry = {Row("geometry", H1, "p0"), Row("geometry", S("M"), "p0")},
    !.groups = {[Row("groups", <<"H1", "V">>, "group") EXCEPT !.seq = 3]}]
MCTargets == {Nothing, Older}
MCRows == UNION {UNION {Range(s[t]) : t \in Tables} : s \in MCSources}
          \cup UNION {UNION {d[t] : t \in Tables} : d \in {Nothing, Older}}
MCEditDirs == {<<>>, <<"Nord", "Ort", "Teil">>, <<"interregional">>, <<"Sued">>}

\* One model for the second export: the village, whose consumer has a power.
MCPowered == {Stored({StationPart, HousePart, PowerPart, CablePart(C1, S("N2"), <<"H1", "N1">>)})}
MCPoweredRows == UNION {UNION {Range(s[t]) : t \in Tables} : s \in MCPowered}
MCNewTarget == {Nothing}
MCNested == {<<"Nord", "Ort", "Teil">>}
=============================================================================
