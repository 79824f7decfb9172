------------------------------ MODULE UseCases ------------------------------
(***************************************************************************)
(* The queries of pkg/impl/usecase on the finished model: what is switched *)
(* together (ElectricallyConnected), the circuits of a switching state     *)
(* given as overrides of the imported one (GetSchaltkreis, GetSchaltkreise)*)
(* and the parts of a station (StationSubgraph). They read the rows that   *)
(* StationTopology stored and nothing of the staged source. Where they     *)
(* find nothing they fail: NoResult. BuildCircuits and GetCircuitElements  *)
(* of pkg/impl/common are the same computations: they have no models of    *)
(* their own. Geometry, counts and paging are left out.                    *)
(***************************************************************************)
EXTENDS StationTopology

NoResult == {}   \* the code reports an error where nothing is found

-----------------------------------------------------------------------------
(* circuits.go                                                              *)

IsSwitch(i) == ClassOf(i) \in {"open", "closed"}
IgnoresOverrides(ov, i) == ClassOf(i) = "open"
EffectiveOpen(ov, i) == IF i \in DOMAIN ov THEN ov[i] ELSE ClassOf(i) = "open"

\* A transformer separates, an open switch interrupts, nothing passes through GND.
JoinsCircuit(ov, e) == /\ ClassOf(e.id) # "transformer"
                       /\ ~(IsSwitch(e.id) /\ EffectiveOpen(ov, e.id))
                       /\ GND \notin {e.t1, e.t2}
BuildCircuits(N, E, ov) ==
    UnionFind(N \ {GND}, PairsOf({e \in E : JoinsCircuit(ov, e)}))

\* The circuits an equipment touches.
GetSchaltkreis(i, ov) ==
    LET circuit == BuildCircuits(nodes, edges, ov)
        touched == UNION {{circuit[n] : n \in {e.t1, e.t2} \ {GND}} : e \in {e \in edges : e.id = i}}
    IN  touched

\* Node rows of the given equipment: the query compares node IDs with equipment IDs.
GetNodesByIDs(I) == nodes \cap I
InContainers(C) == {i \in DOMAIN placed.of : placed.of[i] \in C}

\* The circuits of a busbar.
GetSchaltkreise(bars, ov) ==
    LET circuit == BuildCircuits(nodes, edges, ov)
        found == GetNodesByIDs(InContainers(bars)) \ {GND}
    IN  {circuit[n] : n \in found}

-----------------------------------------------------------------------------
(* usecase.go                                                               *)

\* The subtree of a station, its equipment and the rows of that equipment.
StationSubgraph(s) ==
    LET under == {s} \cup {k.id : k \in {k \in placed.containers : k.parent = s}}
        equipment == InContainers(under)
    IN  [containers |-> {k \in placed.containers : k.id \in under}, equipment |-> equipment,
         nodes |-> GetNodesByIDs(equipment), edges |-> {e \in edges : e.id \in equipment}]

\* Group rows are per owner; a node in the rows of several owners joins their groups.
GetElectricalGroup(n) == {groups[o][n] : o \in {o \in DOMAIN groups : n \in DOMAIN groups[o]}}
GetGroupMembers(G) ==
    UNION {{n \in DOMAIN groups[o] : groups[o][n] \in G} : o \in DOMAIN groups}
OneRound(G) == G \cup UNION {GetElectricalGroup(n) : n \in GetGroupMembers(G)}
ExpandElectricalGroups(seed) ==
    LET round[k \in 0 .. Cardinality(nodes)] == IF k = 0 THEN seed ELSE OneRound(round[k - 1])
    IN  round[Cardinality(nodes)]
ElectricallyConnected(a, b) ==
    ExpandElectricalGroups(GetElectricalGroup(a)) \cap GetElectricalGroup(b) # {}

-----------------------------------------------------------------------------
(* Properties.                                                              *)

\* Whichever switches are thrown, two nodes are in one circuit exactly when a path
\* joins them that crosses no transformer and no switch open now, and never passes
\* through the shared ground node; and only a transformer or an open switch touches
\* two circuits, every other edge with a node of its own touches one.
Switches == {e.id : e \in {e \in edges : IsSwitch(e.id)}}
Thrown(S) == [i \in S |-> ClassOf(i) = "closed"]
CircuitsFollowSwitches ==
    lines => \A S \in SUBSET Switches :
       LET open == {i \in Switches : (ClassOf(i) = "open") # (i \in S)}
           separates(e) == e.id \in open \/ ClassOf(e.id) = "transformer"
           P == EndPairs({e \in edges : ~separates(e) /\ GND \notin {e.t1, e.t2}})
           circuit == BuildCircuits(nodes, edges, Thrown(S))
       IN  /\ \A n \in DOMAIN circuit : {m \in DOMAIN circuit : circuit[m] = circuit[n]} = Reach(P, n)
           /\ \A e \in edges : LET touched == GetSchaltkreis(e.id, Thrown(S)) IN
                 /\ touched # NoResult
                 /\ Cardinality(touched) = 2 => separates(e)

\* ElectricallyConnected holds of two nodes exactly when a path of closed switches
\* joins them, through however many stations and through the ground node as well: the
\* groups each station computed alone meet in the nodes they share, and the order the
\* union-finds met the edges in, or the root that names a group, does not show.
ElectricalConnectionIsPath ==
    lines => LET P == EndPairs({e \in edges : ClassOf(e.id) = "closed"})
             IN  \A n \in nodes : {m \in nodes : ElectricallyConnected(n, m)} = Reach(P, n)

\* A station whose nodes form two components with nothing between them, and which has
\* a busbar, is seen by one at least of those who say they look at its nodes: the
\* connectivity check reports it ("remains ENABLED and covers the practically relevant
\* case"), GetSchaltkreise finds a circuit of a busbar, or StationSubgraph has nodes.
StationNodesSeen ==
    \A s \in Stations \ todo :
       LET E == {e \in edges : e.id \in EquipmentOf(placed, s) /\ GND \notin {e.t1, e.t2}}
           N == DOMAIN groups[s] \ {GND}
           inPieces == \E n \in N : ~(N \subseteq Reach(EndPairs(E), n))
       IN  inPieces /\ BarsOf(s) # {} =>
              \/ <<"station-connectivity", s>> \in reports
              \/ \E b \in BarsOf(s) : GetSchaltkreise({b}, << >>) # NoResult
              \/ StationSubgraph(s).nodes # {}
=============================================================================
