---------------------------- MODULE ACLineChains ----------------------------
(***************************************************************************)
(* Pass B of the import (RunPassB in pass_b.go, acline_streaming.go):      *)
(* ACLineSegments are gathered into cable routes, one container each, in a *)
(* sequential search; a pool of workers builds the rows of each route;     *)
(* the routes go to the caller batch by batch; boundary equivalents and    *)
(* standalone Junctions follow, and are persisted when RunPassB is done.   *)
(*                                                                         *)
(* Segments are numbered in the order of their IDs. A container is named   *)
(* by its route's first segment. A source gives each segment, Junction and *)
(* boundary equivalent the nodes of its Terminals, and each node the       *)
(* container its ConnectivityNode names (NoContainer if none).             *)
(***************************************************************************)
EXTENDS Integers, Sequences, FiniteSets, SequencesExt, FiniteSetsExt, Functions, Tables

CONSTANTS Sources,      \* [terms, junctions, boundary, home], functions to node sequences
          Workers,      \* the goroutines of buildACLineComponentResultsParallel
          BatchSizes    \* batchSize; 0 stands for onBatch = nil, everything at once

GND == 0
NoContainer == 0
PassBOwnerID == << >>
OneOwner(k) == PassBOwnerID
BatchOwner(k) == <<k>>      \* PassBOwnerID "#" k
Free == 0                   \* worker: between two routes
Left == -1                  \* worker: has returned

ASSUME PoolAssumption == Workers # {} /\ BatchSizes \subseteq Nat

\* An ID belongs to one object, and no node has the reserved one.
NodeLists(f) == \A x \in DOMAIN f : f[x] \in Seq(Nat \ {GND})
ASSUME SourceAssumption ==
    \A s \in Sources :
       /\ DOMAIN s.terms \subseteq Nat \ {NoContainer}
       /\ NodeLists(s.terms) /\ NodeLists(s.junctions) /\ NodeLists(s.boundary)
       /\ DOMAIN s.terms \cap (DOMAIN s.junctions \cup DOMAIN s.boundary) = {}

VARIABLES src, batchSize,
          pc,              \* where RunPassB's own goroutine is
          claimed,         \* segments some route has
          route,           \* the route being searched: [members, frontier, queried]
          raws,            \* rawComponents: the member sets found
          start, nextIdx, worker, results,   \* the batch being built
          nodeToContainer, \* combined.NodeToContainer
          batchIndex,
          res,             \* PassBResult: what is persisted at the end
          db,              \* the model: [equip, nodes, edges, groups]
          flags,           \* [installed, contained, referenced]
          anomalies        \* Junctions reported as having no container

search == <<claimed, route, raws>>
pool == <<start, nextIdx, worker, results>>
vars == <<src, batchSize, pc, search, pool, nodeToContainer, batchIndex, res, db, flags, anomalies>>

Segments == DOMAIN src.terms
NoRoute == [members |-> {}, frontier |-> {}, queried |-> {}]
NoRows == [equip |-> NoRow, nodes |-> {}, edges |-> {}]

-----------------------------------------------------------------------------
(* What the code derives from the Terminals.                                *)

Resolves(t) == Len(t) \in {1, 2}
EndsOf(S) == UNION {ToSet(src.terms[s]) : s \in {s \in S : Resolves(src.terms[s])}}

\* A node continues a route when exactly two Terminals of segments name it.
Inline(n) == Cardinality({st \in Segments \X (1 .. 3) :
                 st[2] <= Len(src.terms[st[1]]) /\ src.terms[st[1]][st[2]] = n}) = 2
BranchesToo(N) == {s \in Segments : N \cap ToSet(src.terms[s]) # {}}
Touching(N) == {s \in Segments : \E n \in N : Inline(n) /\ n \in ToSet(src.terms[s])}

\* BuildNodesAndEdges: the nodes of equipment with these Terminals; a single one is
\* joined to GND unless the equipment is only a node.
NodesOf(t) == ToSet(t) \cup (IF Len(t) = 1 THEN {GND} ELSE {})

\* buildACLineComponentResult
BuildRoute(M) ==
    LET built == {s \in M : Resolves(src.terms[s])}
    IN  [container |-> Min(M), members |-> M, edges |-> built,
         nodes |-> UNION {NodesOf(src.terms[s]) : s \in built},
         nodeToCont |-> EndsOf(M)]

\* mergeACLineComponentResults: on a branch node the smallest container wins.
LastRouteWins(f, R) ==
    [n \in DOMAIN f \cup UNION {r.nodeToCont : r \in R} |->
       IF \E r \in R : n \in r.nodeToCont
       THEN Max({r.container : r \in {r \in R : n \in r.nodeToCont}}) ELSE f[n]]
MergeNodeToContainer(f, R) ==
    [n \in DOMAIN f \cup UNION {r.nodeToCont : r \in R} |->
       Min({r.container : r \in {r \in R : n \in r.nodeToCont}}
             \cup (IF n \in DOMAIN f THEN {f[n]} ELSE {}))]
MergeRows(R) == [equip |-> [s \in UNION {r.members : r \in R} |-> (CHOOSE r \in R : s \in r.members).container],
                 nodes |-> UNION {r.nodes : r \in R},
                 edges |-> UNION {r.edges : r \in R}]
Plus(a, b) == [equip |-> Over(b.equip, a.equip), nodes |-> a.nodes \cup b.nodes, edges |-> a.edges \cup b.edges]

\* onBatchResult writes the tables in this order, in transactions of their own, so a
\* failure leaves the first k; UpsertElectricalGroups replaces the owner's rows.
Write(k, rows, owner) ==
    [equip  |-> IF k >= 1 THEN Over(rows.equip, db.equip) ELSE db.equip,
     nodes  |-> IF k >= 2 THEN db.nodes \cup rows.nodes ELSE db.nodes,
     edges  |-> IF k >= 3 THEN db.edges \cup rows.edges ELSE db.edges,
     groups |-> IF k >= 4 THEN Put(owner, rows.nodes, db.groups) ELSE db.groups]
AllTables == 4

-----------------------------------------------------------------------------
Init == /\ src \in Sources /\ batchSize \in BatchSizes
        /\ pc = "search"
        /\ claimed = {} /\ route = NoRoute /\ raws = << >>
        /\ start = 0 /\ nextIdx = 0 /\ worker = [w \in Workers |-> Left] /\ results = NoRow
        /\ nodeToContainer = NoRow /\ batchIndex = 0
        /\ res = NoRows /\ anomalies = {}
        /\ db = [equip |-> NoRow, nodes |-> {}, edges |-> {}, groups |-> NoRow]
        /\ flags = [installed |-> {}, contained |-> {}, referenced |-> {}]

\* Phase 1: the next unclaimed segment starts a route.
Seed ==
    /\ pc = "search" /\ claimed # Segments
    /\ LET s == Min(Segments \ claimed)
       IN  /\ claimed' = claimed \cup {s}
           /\ route' = [members |-> {s}, frontier |-> EndsOf({s}), queried |-> {}]
    /\ pc' = "expand"
    /\ UNCHANGED <<src, batchSize, raws, pool, nodeToContainer, batchIndex, res, db, flags, anomalies>>

\* One round of discoverRawACLineComponent: claim what the frontier leads to.
IgnoresClaims ==
    /\ pc = "expand" /\ route.frontier # {}
    /\ LET new == Touching(route.frontier)
           queried == route.queried \cup route.frontier
       IN  /\ claimed' = claimed \cup new
           /\ route' = [members |-> route.members \cup new, queried |-> queried,
                        frontier |-> EndsOf(new) \ queried]
    /\ UNCHANGED <<src, batchSize, pc, raws, pool, nodeToContainer, batchIndex, res, db, flags, anomalies>>
Requeries ==
    /\ pc = "expand" /\ route.frontier # {}
    /\ LET new == Touching(route.frontier) \ claimed
       IN  /\ claimed' = claimed \cup new
           /\ route' = [members |-> route.members \cup new, queried |-> {},
                        frontier |-> EndsOf(route.members \cup new)]
    /\ UNCHANGED <<src, batchSize, pc, raws, pool, nodeToContainer, batchIndex, res, db, flags, anomalies>>
Expand ==
    /\ pc = "expand" /\ route.frontier # {}
    /\ LET new == Touching(route.frontier) \ claimed
           queried == route.queried \cup route.frontier
       IN  /\ claimed' = claimed \cup new
           /\ route' = [members |-> route.members \cup new, queried |-> queried,
                        frontier |-> EndsOf(new) \ queried]
    /\ UNCHANGED <<src, batchSize, pc, raws, pool, nodeToContainer, batchIndex, res, db, flags, anomalies>>

EndRoute ==
    /\ pc = "expand" /\ route.frontier = {}
    /\ raws' = Append(raws, route.members) /\ route' = NoRoute
    /\ pc' = "search"
    /\ UNCHANGED <<src, batchSize, claimed, pool, nodeToContainer, batchIndex, res, db, flags, anomalies>>

End == IF batchSize = 0 \/ start + batchSize > Len(raws) THEN Len(raws) ELSE start + batchSize

\* Phase 2: start the workers on the next batch, or go on when there is none.
StartBatch ==
    /\ \/ pc = "search" /\ claimed = Segments
       \/ pc = "next"
    /\ IF start < Len(raws)
       THEN /\ pc' = "build"
            /\ worker' = [w \in Workers |-> Free] /\ nextIdx' = start /\ results' = NoRow
       ELSE pc' = "boundary" /\ UNCHANGED <<worker, nextIdx, results>>
    /\ UNCHANGED <<src, batchSize, search, start, nodeToContainer, batchIndex, res, db, flags, anomalies>>

\* A worker takes the next index under idxMu, or returns.
Claim(w) ==
    /\ worker[w] = Free
    /\ IF nextIdx < End
       THEN worker' = [worker EXCEPT ![w] = nextIdx + 1] /\ nextIdx' = nextIdx + 1
       ELSE worker' = [worker EXCEPT ![w] = Left] /\ UNCHANGED nextIdx
    /\ UNCHANGED <<src, batchSize, pc, search, start, results, nodeToContainer, batchIndex, res, db, flags, anomalies>>

Build(w) ==
    /\ worker[w] > 0
    /\ results' = Put(worker[w], BuildRoute(raws[worker[w]]), results)
    /\ worker' = [worker EXCEPT ![w] = Free]
    /\ UNCHANGED <<src, batchSize, pc, search, start, nextIdx, nodeToContainer, batchIndex, res, db, flags, anomalies>>

\* wg.Wait, then sort, merge, and hand the batch over.
AllLeft == \A w \in Workers : worker[w] = Left
Marked(installed, contained, nodes) ==
    [installed |-> flags.installed \cup installed, contained |-> flags.contained \cup contained,
     referenced |-> flags.referenced \cup (nodes \ {GND})]

Emit(k) ==
    /\ pc = "build" /\ AllLeft
    /\ LET R == Range(results)
           rows == MergeRows(R)
       IN  /\ nodeToContainer' = MergeNodeToContainer(nodeToContainer, R)
           /\ flags' = Marked(rows.edges, rows.edges, rows.nodes)
           /\ IF batchSize = 0
              THEN k = AllTables /\ res' = Plus(res, rows) /\ UNCHANGED <<db, batchIndex>>
              ELSE /\ db' = Write(k, rows, BatchOwner(batchIndex))
                   /\ batchIndex' = batchIndex + 1 /\ UNCHANGED res
    /\ start' = End
    /\ pc' = IF k = AllTables THEN "next" ELSE "failed"
    /\ UNCHANGED <<src, batchSize, search, nextIdx, worker, results, anomalies>>

ResolveBoundaryEquivalents ==
    /\ pc = "boundary"
    /\ LET T == {t \in Range(src.boundary) : Resolves(t)}
       IN  res' = Plus(res, [equip |-> NoRow, nodes |-> UNION {NodesOf(t) : t \in T},
                             edges |-> {b \in DOMAIN src.boundary : Resolves(src.boundary[b])}])
    /\ pc' = "junctions"
    /\ UNCHANGED <<src, batchSize, search, pool, nodeToContainer, batchIndex, db, flags, anomalies>>

\* The container of a route at one of the Junction's nodes, else the one a node names
\* itself. classifyNodeRoleTerminals sorts the nodes, so the first hit is the smallest.
FirstOf(N, f) == LET hit == {n \in N : n \in DOMAIN f /\ f[n] # NoContainer}
                 IN  IF hit = {} THEN NoContainer ELSE f[Min(hit)]
ContainerOf(N) ==
    LET joined == FirstOf(N, nodeToContainer)
    IN  IF joined # NoContainer THEN joined ELSE FirstOf(N, src.home)

ResolveStandaloneJunctions ==
    /\ pc = "junctions"
    /\ LET J == {j \in DOMAIN src.junctions : Len(src.junctions[j]) > 0}
           at(j) == ToSet(src.junctions[j])
           contained == {j \in J : ContainerOf(at(j)) # NoContainer}
           nodes == UNION {ToSet(src.junctions[j]) : j \in J}
       IN  /\ res' = Plus(res, [equip |-> [j \in contained |-> ContainerOf(at(j))],
                                nodes |-> nodes, edges |-> {}])
           /\ anomalies' = J \ contained
           /\ flags' = Marked(J, contained, nodes)
    /\ pc' = "persist"
    /\ UNCHANGED <<src, batchSize, search, pool, nodeToContainer, batchIndex, db>>

\* RunPassB returns its result, hjsonimport.Run writes it.
PersistRest(k) ==
    /\ pc = "persist"
    /\ db' = Write(k, res, PassBOwnerID)
    /\ pc' = IF k = AllTables THEN "done" ELSE "failed"
    /\ UNCHANGED <<src, batchSize, search, pool, nodeToContainer, batchIndex, res, flags, anomalies>>

\* A read of the staging store or a write of flags, attributes or geometry fails.
Fail ==
    /\ pc \in {"search", "expand", "boundary", "junctions"} \/ (pc = "build" /\ AllLeft)
    /\ pc' = "failed"
    /\ UNCHANGED <<src, batchSize, search, pool, nodeToContainer, batchIndex, res, db, flags, anomalies>>

Main == \/ Seed \/ Expand \/ EndRoute \/ StartBatch \/ Emit(AllTables)
        \/ ResolveBoundaryEquivalents \/ ResolveStandaloneJunctions \/ PersistRest(AllTables)
Errs == Fail \/ \E k \in 0 .. AllTables - 1 : Emit(k) \/ PersistRest(k)
Work(w) == Claim(w) \/ Build(w)
Next == Main \/ Errs \/ \E w \in Workers : Work(w)

\* Every goroutine that can run is eventually scheduled; nothing has to fail.
Spec == Init /\ [][Next]_vars /\ WF_vars(Main) /\ \A w \in Workers : WF_vars(Work(w))

-----------------------------------------------------------------------------
(* Properties.                                                              *)

\* Rows are well-formed at every moment, after a failure too: an edge's equipment
\* has been stored, routes are disjoint, indexes stay inside the batch.
TypeOK ==
    /\ \A s \in db.edges \cap Segments : s \in DOMAIN db.equip /\ NodesOf(src.terms[s]) \subseteq db.nodes
    /\ \A i, j \in DOMAIN raws : i # j => raws[i] \cap raws[j] = {}
    /\ (UNION Range(raws)) \cup route.members = claimed
    /\ DOMAIN results \subseteq start + 1 .. End \/ pc # "build"
    /\ \A w \in Workers : worker[w] \in {Left, Free} \cup 1 .. Len(raws)

\* Reference: two segments belong together when a chain of nodes joins them, each
\* with exactly two Terminals.
Usable == {u \in Segments : Resolves(src.terms[u])}
Neighbours(S) == {u \in Usable : \E n \in EndsOf(S) \cap EndsOf({u}) : Inline(n)}
Component(s) == {u \in Usable : \A S \in SUBSET Usable :
                                  s \in S /\ Neighbours(S) \subseteq S => u \in S}
RouteOf(s) == CHOOSE i \in DOMAIN raws : s \in raws[i]

\* The sequential search finds the routes whatever segment it starts from: two
\* segments with usable Terminals are in one route exactly when they belong together.
RoutesAreComponents ==
    pc \notin {"search", "expand", "failed"} =>
       \A s \in Usable : raws[RouteOf(s)] \cap Usable = Component(s)

\* Neither the batch size nor the order in which workers finish shows in the model:
\* every segment is stored with its route, every usable one has its edge, and every
\* node leads to the smallest container of a route that touches it.
BatchingDoesNotShow ==
    pc = "done" =>
       /\ \A s \in Segments : s \in DOMAIN db.equip /\ db.equip[s] = Min(raws[RouteOf(s)])
       /\ db.edges \cap Segments = Usable
       /\ nodeToContainer = [n \in EndsOf(Segments) |->
             Min({Min(raws[RouteOf(s)]) : s \in {s \in Segments : n \in EndsOf({s})}})]

\* Nothing is dropped in silence. UpsertElectricalGroups replaces what its owner had, and
\* Pass B writes under several owners: when it is done every stored node still has a group.
\* A Junction joins a route whenever one touches any of its nodes; and the flags tell
\* exactly the equipment that is without a container and the nodes that a segment or a
\* Junction uses.
NothingDropped ==
    pc = "done" =>
       /\ db.nodes \subseteq UNION Range(db.groups)
       /\ \A j \in DOMAIN src.junctions :
             /\ ToSet(src.junctions[j]) \cap EndsOf(Segments) # {} =>
                   j \in DOMAIN db.equip /\ db.equip[j] \in {Min(M) : M \in Range(raws)}
             /\ Len(src.junctions[j]) > 0 => (j \in DOMAIN db.equip <=> j \notin anomalies)
       /\ flags.installed \ flags.contained = anomalies
       /\ flags.referenced = EndsOf(Segments) \cup UNION {ToSet(t) : t \in Range(src.junctions)}

\* RunPassB returns: the search, the workers and the batches all come to an end.
Ends == <>(pc \in {"done", "failed"})
=============================================================================
