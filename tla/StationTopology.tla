-------------------------- MODULE StationTopology --------------------------
(***************************************************************************)
(* From staged objects to the physical and the electrical topology: the    *)
(* whole of ProcessStationBatch (pkg/impl/common) but for attributes and   *)
(* geometry, and the Node/Edge rows Pass B adds for the cables.            *)
(*                                                                         *)
(* Equipment is numbered in the order of the IDs, as are ConnectivityNodes *)
(* (from FirstNode on), because the code sorts by ID and picks the         *)
(* smallest. To the fields of ContainerResolution an equipment adds nodes, *)
(* the node of each Terminal in sequence. A switch' class says whether it  *)
(* is open: the import keeps only that.                                    *)
(***************************************************************************)
EXTENDS ContainerResolution

CONSTANT Sources      \* the sources an import may read

GND == 0              \* the one virtual ground node (GNDNodeID)
NoNode == -1          \* "no second Terminal"
FirstNode == 11       \* no equipment has the ID of a node
StrayNode == 10       \* a staged ConnectivityNode that no Terminal names
PassBOwner == "__pass_b__"
Classes == {"closed", "open", "transformer", "cable", "device", "busbar", "unit", "generating"}

\* A ConnectivityNode belongs to one VoltageLevel: it carries sections of one
\* busbar. A section with several Terminals has their nodes to itself.
NodesIn(s, I) == UNION {ToSet(s.equip[i].nodes) : i \in I}
OneBusbarPerNode(s) ==
    LET of == BuildContainers(s).of
        sections == {i \in DOMAIN of : Class(s, i) = "busbar"}
    IN  \A i, j \in sections : NodesIn(s, {i}) \cap NodesIn(s, {j}) # {} =>
           \/ i = j
           \/ of[i] = of[j] /\ Len(s.equip[i].nodes) = 1 /\ Len(s.equip[j].nodes) = 1

\* The root above an object of the tree, if it hangs on one.
RootAbove(s, x) ==
    LET subs == OfClass(s, {"Substation", "DistributionBox"})
        up(y) == s.tree[y].up
    IN  CASE x \in OfClass(s, RootClasses) -> x
          [] x \in OfClass(s, {"VoltageLevel", "Feeder"}) /\ up(x) \in subs -> up(x)
          [] x \in OfClass(s, {"Bay"}) /\ up(x) \in OfClass(s, {"VoltageLevel"}) /\ up(up(x)) \in subs
               -> up(up(x))
          [] OTHER -> NoRef

\* Satellites are of a connection in their own station and agree on its container;
\* the sections split from one base are in one place; what a cable refers to is a
\* Line, never a container of a station.
SatellitesAgree(s) ==
    \A i, j \in DOMAIN s.equip : Class(s, i) = "unit" =>
       /\ s.equip[i].of \in DOMAIN s.equip /\ Class(s, s.equip[i].of) = "device"
       /\ Class(s, j) = "unit" /\ s.equip[i].of = s.equip[j].of => s.equip[i].in = s.equip[j].in
       /\ s.equip[i].of = j => RootAbove(s, s.equip[j].in) \in {RootAbove(s, s.equip[i].in), NoRef}
                                  \/ RootAbove(s, s.equip[i].in) = NoRef
SplitsTogether(s) ==
    \A i, j \in DOMAIN s.equip : Class(s, i) = "busbar" =>
       /\ s.equip[i].of \in DOMAIN BusbarOfBase
       /\ Class(s, j) = "busbar" /\ s.equip[i].of = s.equip[j].of => s.equip[i].in = s.equip[j].in
CablesOutside(s) == \A i \in DOMAIN s.equip : Class(s, i) = "cable" => s.equip[i].in = NoRef

ASSUME SourceAssumption ==
    \A s \in Sources :
       /\ IsFiniteSet(DOMAIN s.tree) /\ IsFiniteSet(DOMAIN s.equip)
       /\ \A x \in DOMAIN s.tree : s.tree[x].class \in TreeClasses
       /\ \A i \in DOMAIN s.equip : i \in Nat /\ Class(s, i) \in Classes /\ s.equip[i].nodes \in Seq(Nat)
       /\ \A n \in NodesIn(s, DOMAIN s.equip) : n >= FirstNode /\ Len(s.equip) < FirstNode
       /\ OneBusbarPerNode(s) /\ SatellitesAgree(s) /\ SplitsTogether(s) /\ CablesOutside(s)

\* IDs of containers that are made up are different, and nothing else has them.
ASSUME NameAssumption ==
    /\ IsInjective(BusbarOfBase)
    /\ \A s \in Sources : DOMAIN s.tree \cap (Range(BusbarOfBase) \cup {NoRef, PassBOwner}) = {}
    /\ NoRef \notin Range(BusbarOfBase)

VARIABLES src,     \* the staged source
          todo,    \* roots whose batch has not been processed
          lines,   \* Pass B has run
          placed,  \* model_container and model_equipment: [containers, of]
          edges,   \* model_edge: [id, t1, t2]
          nodes,   \* model_node
          groups,  \* model_electrical_group: groups[station][node]
          reports, \* the Violations of all batches
          flags    \* import_flag: [installed, contained, referenced]

vars == <<src, todo, lines, placed, edges, nodes, groups, reports, flags>>

ClassOf(i) == src.equip[i].class
NodesOf(i) == src.equip[i].nodes

-----------------------------------------------------------------------------
(* terminals.go: one entry [first, second, extra] per resolved equipment;   *)
(* anything else is an anomaly and builds nothing. Equipment in a busbar    *)
(* container has the role of a node.                                        *)

Classified(i, roles) == IF i \in roles THEN Len(NodesOf(i)) >= 1 ELSE Len(NodesOf(i)) \in {1, 2}
Ends(i, roles) ==
    IF i \in roles
    THEN [first |-> Min(ToSet(NodesOf(i))), second |-> NoNode,
          extra |-> ToSet(NodesOf(i)) \ {Min(ToSet(NodesOf(i)))}]
    ELSE [first |-> NodesOf(i)[1], second |-> IF Len(NodesOf(i)) = 2 THEN NodesOf(i)[2] ELSE NoNode,
          extra |-> {}]
ResolveTerminals(I, roles) == [i \in {i \in I : Classified(i, roles)} |-> Ends(i, roles)]

\* The nodes of r through a renaming (apply in junctionmerge.go, busbarmerge.go).
Renamed(r, remap) ==
    LET to(n) == IF n \in DOMAIN remap THEN remap[n] ELSE n
    IN  [i \in DOMAIN r |-> [first |-> to(r[i].first), second |-> to(r[i].second),
                             extra |-> {to(n) : n \in r[i].extra}]]
\* All nodes of a set become the smallest of it; no node is in two of the sets.
ToSmallest(sets) == [n \in UNION {N \ {Min(N)} : N \in sets} |-> Min(CHOOSE N \in sets : n \in N)]

JunctionRemap(r, roles) ==
    ToSmallest({{r[i].first} \cup r[i].extra : i \in {i \in roles \cap DOMAIN r : r[i].extra # {}}})
MergeJunctionNodes(r, roles) == Renamed(r, JunctionRemap(r, roles))

\* The union-find of busbarmerge.go and electrical.go, over a sequence of pairs: what
\* find returns for each node. A union gives all that had the root of a the root of b;
\* the path halving changes no root.
HangsNode(root, a, b) == [root EXCEPT ![a] = root[b]]
Union(root, a, b) == [n \in DOMAIN root |-> IF root[n] = root[a] THEN root[b] ELSE root[n]]
UnionFind(N, pairs) ==
    LET root[k \in 0 .. Len(pairs)] ==
            IF k = 0 THEN [n \in N |-> n] ELSE Union(root[k - 1], pairs[k][1], pairs[k][2])
    IN  root[Len(pairs)]

\* The topology BuildNodesAndEdges will produce, as pairs: a single Terminal that
\* is not a section's leads to GND.
Pairs(r, roles) ==
    LET at(i) == IF r[i].second # NoNode THEN <<r[i].first, r[i].second>> ELSE <<r[i].first, GND>>
        ids == SetToSeq({i \in DOMAIN r : r[i].second # NoNode \/ i \notin roles})
    IN  [k \in 1 .. Len(ids) |-> at(ids[k])]

\* Sections of one busbar container in several components go to its smallest node.
BarOfStation(c, i) == StationOwnerOf(c.containers, c.of[i])
BarOf(c, i) == c.of[i]
BarRemap(r, roles, bar) ==
    LET at(b) == {r[i].first : i \in {i \in DOMAIN bar : bar[i] = b}}
        N == {GND} \cup UNION {{r[i].first, r[i].second} : i \in DOMAIN r}
        root == UnionFind(N, Pairs(r, roles))
        split == {b \in Range(bar) : Cardinality({root[n] : n \in at(b)}) > 1}
    IN  ToSmallest({at(b) : b \in split})
MergeBusbarSectionNodes(r, c, roles) ==
    Renamed(r, BarRemap(r, roles, [i \in roles \cap DOMAIN r |-> BarOf(c, i)]))

\* nodeedge.go. Sections give nodes and no edge; one Terminal means an edge to GND.
BuildEdges(r, roles) ==
    {[id |-> i, t1 |-> r[i].first, t2 |-> IF r[i].second = NoNode THEN GND ELSE r[i].second] :
        i \in {i \in DOMAIN r : r[i].second # NoNode \/ i \notin roles}}
BuildNodes(r, roles) == (UNION {{r[i].first} \cup r[i].extra : i \in DOMAIN r})
                           \cup UNION {{e.t1, e.t2} : e \in BuildEdges(r, roles)}

\* The pairs of the edges, in some order: none shows in what is connected.
PairsOf(E) == LET order == SetToSeq(E) IN [k \in 1 .. Len(order) |-> <<order[k].t1, order[k].t2>>]

\* Closed switches join their two nodes, nothing else does.
Conducts(e) == ClassOf(e.id) = "closed"
BuildElectricalGroups(N, E) == UnionFind(N, PairsOf({e \in E : Conducts(e)}))

-----------------------------------------------------------------------------
(* consistency.go: what a batch checks, and what the flags are for.          *)

\* A node counts for the container its own ID is assigned to; every other station
\* whose nodes then form several components, GND left out, is reported.
CheckStationConnectivity(N, E, c) ==
    LET owner(k) == StationOwnerOf(c.containers, c.of[k])
        own == [n \in N \cap DOMAIN c.of |-> owner(n)]
        within == {e \in E : {e.t1, e.t2} \subseteq DOMAIN own
                             /\ own[e.t1] = owner(e.id) /\ own[e.t2] = owner(e.id)}
        root == UnionFind(DOMAIN own, PairsOf(within))
        parts(r) == {root[n] : n \in {n \in DOMAIN own : own[n] = r}}
    IN  {<<"station-connectivity", r>> : r \in {r \in Range(own) : Cardinality(parts(r)) > 1}}

\* A node or an equipment counts as seen when some batch marked it, in raw names.
NoFlags == [installed |-> {}, contained |-> {}, referenced |-> {}]
ForgetsExtra(r) == UNION {{r[i].first, r[i].second} : i \in DOMAIN r}
RawNodes(r) == UNION {{r[i].first, r[i].second} \cup r[i].extra : i \in DOMAIN r}
FlagsOf(I, r) == [installed |-> I, contained |-> I, referenced |-> RawNodes(r) \ {NoNode, GND}]
MarkFlags(f) == [k \in DOMAIN flags |-> flags[k] \cup f[k]]

\* CheckInvariantsFlagged, after both passes.
ConnectivityNodes == NodesIn(src, DOMAIN src.equip) \cup {StrayNode}
CheckInvariantsFlagged ==
    {<<"unreferenced-node", n>> : n \in ConnectivityNodes \ flags.referenced}
      \cup {<<"equipment-without-container", i>> : i \in flags.installed \ flags.contained}

-----------------------------------------------------------------------------
(* The import.                                                              *)

Stations == OfClass(src, RootClasses)
Roles(c) == LET bars == {k.id : k \in {k \in c.containers : k.type = "busbar"}}
            IN  {i \in DOMAIN c.of : c.of[i] \in bars}
EquipmentOf(c, r) == {i \in DOMAIN c.of : StationOwnerOf(c.containers, c.of[i]) = r}

Topology(c, I) ==
    LET roles == I \cap Roles(c)
        r == MergeBusbarSectionNodes(MergeJunctionNodes(ResolveTerminals(I, roles), roles), c, roles)
    IN  [nodes |-> BuildNodes(r, roles), edges |-> BuildEdges(r, roles)]
StationTopologyOf(c, r) == Topology(c, EquipmentOf(c, r))

Init == /\ src \in Sources
        /\ todo = Stations /\ lines = FALSE
        /\ placed = [containers |-> {}, of |-> NoRow]
        /\ edges = {} /\ nodes = {} /\ reports = {}
        /\ groups = NoRow /\ flags = NoFlags

\* The rows and flags of a batch, upserted, and what its checks report.
Persist(c, N, E, G) ==
    /\ placed' = [containers |-> placed.containers \cup c.containers, of |-> Over(c.of, placed.of)]
    /\ nodes' = nodes \cup N /\ edges' = edges \cup E
    /\ groups' = Over(G, groups)
    /\ reports' = reports \cup CheckStationConnectivity(N, E, c) \cup CheckContainerPaths(c.containers)
                         \cup KVSTransformers(src, c)
    /\ flags' = MarkFlags(FlagsOf(DOMAIN c.of, ResolveTerminals(DOMAIN c.of, Roles(c))))

\* ProcessStationBatch: containers for the whole batch, the graph station by station.
PooledBatch(B) ==
    /\ B # {} /\ B \subseteq todo
    /\ todo' = todo \ B
    /\ LET c == ResolveBatchContainers(src, B)
           t == Topology(c, DOMAIN c.of)
       IN  Persist(c, t.nodes, t.edges, [r \in B |-> BuildElectricalGroups(t.nodes, t.edges)])
    /\ UNCHANGED <<src, lines>>
ProcessStationBatch(B) ==
    /\ B # {} /\ B \subseteq todo
    /\ todo' = todo \ B
    /\ LET c == ResolveBatchContainers(src, B)
           t == [r \in B |-> StationTopologyOf(c, r)]
       IN  Persist(c, UNION {t[r].nodes : r \in B}, UNION {t[r].edges : r \in B},
                   [r \in B |-> BuildElectricalGroups(t[r].nodes, t[r].edges)])
    /\ UNCHANGED <<src, lines>>

\* Pass B: the cables, on the nodes their Terminals name. No merge is applied, and
\* as no cable is a switch, each node is a group of its own.
Cables == {i \in DOMAIN src.equip : ClassOf(i) = "cable"}
TrustsPassANodes ==
    /\ todo = {} /\ ~lines /\ lines' = TRUE
    /\ edges' = edges \cup BuildEdges(ResolveTerminals(Cables, {}), {})
    /\ UNCHANGED <<src, todo, placed, nodes, groups, reports, flags>>
RunPassB ==
    /\ todo = {} /\ ~lines /\ lines' = TRUE
    /\ LET r == ResolveTerminals(Cables, {})
           N == BuildNodes(r, {})
       IN  /\ edges' = edges \cup BuildEdges(r, {}) /\ nodes' = nodes \cup N
           /\ groups' = Put(PassBOwner, BuildElectricalGroups(N, BuildEdges(r, {})), groups)
           /\ flags' = MarkFlags(FlagsOf(DOMAIN r, r))
    /\ UNCHANGED <<src, todo, placed, reports>>

Next == (\E B \in SUBSET todo : ProcessStationBatch(B)) \/ RunPassB

Spec == Init /\ [][Next]_vars

-----------------------------------------------------------------------------
(* Properties.                                                              *)

\* Reference: what a path over the pairs P reaches from x.
EndsOf(P) == {p[1] : p \in P} \cup {p[2] : p \in P}
Across(P, S) == S \cup {p[2] : p \in {p \in P : p[1] \in S}} \cup {p[1] : p \in {p \in P : p[2] \in S}}
Reach(P, x) ==
    LET steps == Cardinality(EndsOf(P) \cup {x})
        within[k \in 0 .. steps] == IF k = 0 THEN {x} ELSE Across(P, within[k - 1])
    IN  within[steps]
Connected(P, x, y) == y \in Reach(P, x)
EndPairs(E) == {<<e.t1, e.t2>> : e \in E}

\* Rows are well-formed: an edge ends on stored nodes, one edge per equipment; a
\* container's parent is a stored root, and equipment is in a stored container.
TypeOK == /\ \A e \in edges : {e.t1, e.t2} \subseteq nodes /\ e.t1 # GND
          /\ \A e, f \in edges : e.id = f.id => e = f
          /\ NoNode \notin nodes
          /\ LET ids == {k.id : k \in placed.containers}
             IN  /\ Range(placed.of) \subseteq ids
                 /\ \A k \in placed.containers : k.type \in {"bay", "busbar"} =>
                       Cont(k.parent, "substation", NoRef) \in placed.containers
                       \/ Cont(k.parent, "distribution-box", NoRef) \in placed.containers

\* What ResolveBatchContainers finds batch by batch is what BuildContainers finds in
\* the whole model ("must produce EXACTLY the same"), with one addition: a section in
\* a Bay or a Building, an anomaly to the whole scan, is placed there. The rules about
\* containers report the same, batch by batch, as they do of the whole.
ContainersMatchWhole ==
    LET whole == BuildContainers(src)
    IN  todo = {} =>
           /\ placed.containers = whole.containers
           /\ \A i \in DOMAIN whole.of : i \in DOMAIN placed.of /\ placed.of[i] = whole.of[i]
           /\ \A i \in DOMAIN placed.of \ DOMAIN whole.of : ClassOf(i) = "busbar" /\ i \in whole.unplaced
           /\ {v \in reports : v[1] # "station-connectivity"}
                = KVSTransformers(src, whole) \cup CheckContainerPaths(whole.containers)

\* The flagged checks against the whole scans they replace (checkUnreferencedNodes,
\* checkEquipmentWithoutContainer). They miss none of the nodes the scan reports, in
\* spite of all merging, and report besides only nodes of which nothing is built.
\* What they miss is equipment that no batch reached: to them it does not exist.
Sections == {i \in DOMAIN src.equip : ClassOf(i) = "busbar"}
CheckInvariants ==
    LET resolved == DOMAIN ResolveTerminals(DOMAIN src.equip, Sections)
    IN  {<<"unreferenced-node", n>> : n \in ConnectivityNodes \ NodesIn(src, DOMAIN src.equip)}
          \cup {<<"equipment-without-container", i>> :
                    i \in resolved \ (DOMAIN BuildContainers(src).of \cup Cables)}
FlagsSeeWhatIsBuilt ==
    LET built == {e.id : e \in edges} \cup Roles(placed)
        unreached == {<<"equipment-without-container", i>> : i \in DOMAIN src.equip \ DOMAIN placed.of}
        strayed == {<<"equipment-without-container", i>> : i \in DOMAIN placed.of \ DOMAIN BuildContainers(src).of}
    IN  lines =>
           /\ CheckInvariants \subseteq CheckInvariantsFlagged \cup unreached \cup strayed
           /\ CheckInvariantsFlagged \ CheckInvariants
                \subseteq {<<"unreferenced-node", n>> : n \in ConnectivityNodes \ NodesIn(src, built)}

\* How the stations are batched does not show in the model: the rows of a station
\* are what it yields alone, whatever its batch held besides it.
BatchingInvariant ==
    LET alone == [r \in Stations |-> StationTopologyOf(ResolveBatchContainers(src, {r}), r)]
    IN  todo = {} =>
           /\ {e \in edges : e.id \notin Cables} = UNION {alone[r].edges : r \in Stations}
           /\ \A r \in Stations : groups[r] = BuildElectricalGroups(alone[r].nodes, alone[r].edges)

\* The merges join exactly the busbars. Two Terminals end up on different nodes
\* although they shared one, or on one node although they did not, only where a
\* busbar was unified: all the nodes renamed to one carry sections of one busbar. And
\* all that touches one busbar is physically connected afterwards, without counting
\* the ground node as a connection, in a station where nothing hangs on that node.
NodeOf(i, k) == LET e == CHOOSE e \in edges : e.id = i IN IF k = 1 THEN e.t1 ELSE e.t2
TermsOf(I) == {t \in I \X {1, 2} : Classified(t[1], {}) /\ t[2] <= Len(NodesOf(t[1]))}
Terms(s) == TermsOf(EquipmentOf(placed, s) \ Roles(placed))
RawNode(t) == NodesOf(t[1])[t[2]]
BarsAt(n) == {placed.of[i] : i \in {i \in Roles(placed) : n \in ToSet(NodesOf(i))}}
MergesOnlyBars(s) == \A t, u \in Terms(s) :
    /\ RawNode(t) = RawNode(u) => NodeOf(t[1], t[2]) = NodeOf(u[1], u[2])
    /\ NodeOf(t[1], t[2]) = NodeOf(u[1], u[2]) =>
          RawNode(t) = RawNode(u) \/ BarsAt(RawNode(t)) \cap BarsAt(RawNode(u)) # {}
OnBar(s, b) == {t \in Terms(s) : b \in BarsAt(RawNode(t))}
BarConnected(s, b) ==
    LET P == EndPairs({e \in edges : GND \notin {e.t1, e.t2}})
    IN  \A t, u \in OnBar(s, b) : Connected(P, NodeOf(t[1], t[2]), NodeOf(u[1], u[2]))
BarsOf(s) == {placed.of[i] : i \in Roles(placed) \cap EquipmentOf(placed, s)}
Grounded(s) == \E t \in Terms(s) : Len(NodesOf(t[1])) = 1
BarsUnified == \A s \in Stations \ todo :
    MergesOnlyBars(s) /\ (~Grounded(s) => \A b \in BarsOf(s) : BarConnected(s, b))
=============================================================================
