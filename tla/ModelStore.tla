----------------------------- MODULE ModelStore -----------------------------
(***************************************************************************)
(* The final-model tables of pkg/sqlite (model.go, entity_id.go,           *)
(* container_delete.go) under the writes of an import and of a prune.      *)
(*                                                                         *)
(* A unit is what one batch persists: a station, or the components of one  *)
(* Pass B batch. It has a container, the owner under which its electrical  *)
(* groups are stored (the station itself, but a sentinel for Pass B), and  *)
(* one view per version of its source. Every Upsert* is one transaction    *)
(* under writeMu, so a transaction is one step; it commits or rolls back.  *)
(* What a rollback does not undo is the entity-ID cache, which lives in    *)
(* the process. Batches of different units interleave between              *)
(* transactions, a process may end at any point, and DeleteContainers runs *)
(* in a process of its own (hjsonimport.PruneRemoved).                     *)
(*                                                                         *)
(* Attribute keys, values and geometry are left out: a row of attr says    *)
(* that some value is stored under an owner's key.                         *)
(***************************************************************************)
EXTENDS Integers, Sequences, FiniteSets, Functions, Tables

CONSTANTS Units,        \* what is imported as one batch
          ContainerOf,  \* [Units -> container id]
          OwnerOf,      \* [Units -> owner id of the unit's electrical groups]
          ViewsOf,      \* [Units -> set of views, one per version of its source]
          MaxBatches    \* bound: batches started

\* A view is [edges |-> set of [id, t1, t2], group |-> the group its nodes share].
EquipmentOf(v) == {e.id : e \in v.edges}
NodesOf(v) == UNION {{e.t1, e.t2} : e \in v.edges}
AllViews == UNION {ViewsOf[u] : u \in Units}
AllNodes == UNION {NodesOf(v) : v \in AllViews}
NoView == [edges |-> {}, group |-> "none"]

ASSUME StoreAssumption ==
    /\ MaxBatches \in Nat
    /\ \A u, v \in Units : u # v => ContainerOf[u] # ContainerOf[v] /\ OwnerOf[u] # OwnerOf[v]
    \* A batch is finite and has one edge per piece of equipment.
    /\ \A v \in AllViews : IsFiniteSet(v.edges) /\ \A e, f \in v.edges : e.id = f.id => e = f

VARIABLES db,        \* the committed tables
          cache,     \* entityIDCache.byID of the process' ModelStore
          stage,     \* stage[u]: the next transaction of u's batch, or "idle"
          view,      \* view[u]: what u's batch persists
          ran,       \* the units this process has batched: a run batches each once
          starts,    \* batches started
          txFailed   \* some transaction has been rolled back (history)

vars == <<db, cache, stage, view, ran, starts, txFailed>>

\* The transactions of one batch, in the order of ProcessStationBatch and onBatchResult.
Stages == <<"attributes", "containers", "equipment", "nodes", "edges", "groups">>

EmptyDB == [container |-> {}, equipment |-> NoRow, node |-> {}, edge |-> NoRow,
            endpoint |-> {}, group |-> {}, attr |-> {}, entity |-> NoRow, seq |-> 0]

\* SELECT id FROM entity_id ... at the first use of the cache.
LoadCache(d) == d.entity

Init == /\ db = EmptyDB /\ cache = LoadCache(EmptyDB)
        /\ stage = [u \in Units |-> "idle"] /\ view = [u \in Units |-> NoView]
        /\ ran = {} /\ starts = 0 /\ txFailed = FALSE

-----------------------------------------------------------------------------
(* One transaction's statements, on a record [db, cache].                   *)

\* resolve for each of X: the cached id, else the row's, else that of a new row. New rows
\* are numbered from seq on (AUTOINCREMENT); in which order, no property tells apart.
Numbers(X) == CHOOSE f \in [X -> 1 .. Cardinality(X)] : IsInjective(f)
New(s, X) == X \ (DOMAIN s.cache \cup DOMAIN s.db.entity)
IssuesBeforeInsert(s, X) ==
    LET n == New(s, X)
        rows == [x \in n |-> s.db.seq + Numbers(n)[x] - 1]
        entity == Over(rows, s.db.entity)
    IN  [db |-> [s.db EXCEPT !.entity = entity, !.seq = @ + Cardinality(n)],
         cache |-> Over([x \in X \ DOMAIN s.cache |-> entity[x]], s.cache)]
Resolve(s, X) ==
    LET n == New(s, X)
        rows == [x \in n |-> s.db.seq + Numbers(n)[x]]
        entity == Over(rows, s.db.entity)
    IN  [db |-> [s.db EXCEPT !.entity = entity, !.seq = @ + Cardinality(n)],
         cache |-> Over([x \in X \ DOMAIN s.cache |-> entity[x]], s.cache)]

\* lookup: the same without creating a row; the key of x, if it has one.
Lookup(d, c, x) == IF x \in DOMAIN c THEN {c[x]}
                   ELSE IF x \in DOMAIN d.entity THEN {d.entity[x]} ELSE {}
LookupAll(d, c, xs) == UNION {Lookup(d, c, x) : x \in xs}

UpsertAttributesTx(s, v) ==
    LET r == Resolve(s, EquipmentOf(v))
    IN  [r EXCEPT !.db.attr = @ \cup {r.cache[x] : x \in EquipmentOf(v)}]

UpsertContainersTx(s, u) == [s EXCEPT !.db.container = @ \cup {ContainerOf[u]}]

UpsertEquipmentTx(s, u, v) ==
    [s EXCEPT !.db.equipment = Over([x \in EquipmentOf(v) |-> ContainerOf[u]], @)]

UpsertNodesTx(s, v) == [s EXCEPT !.db.node = @ \cup NodesOf(v)]

\* The rows, and for each its endpoint rows: those of the edge's key go, two new ones come.
EdgeRows(v) == [x \in EquipmentOf(v) |-> LET e == CHOOSE e \in v.edges : e.id = x IN <<e.t1, e.t2>>]
EndpointRows(v, key) == UNION {{<<key[e.t1], key[e.id]>>, <<key[e.t2], key[e.id]>>} : e \in v.edges}
KeepsOldEndpoints(s, v) ==
    LET r == Resolve(s, EquipmentOf(v) \cup NodesOf(v))
    IN  [r EXCEPT !.db.edge = Over(EdgeRows(v), @),
                  !.db.endpoint = @ \cup EndpointRows(v, r.cache)]
UpsertEdgesTx(s, v) ==
    LET r == Resolve(s, EquipmentOf(v) \cup NodesOf(v))
    IN  [r EXCEPT !.db.edge = Over(EdgeRows(v), @),
                  !.db.endpoint = {p \in @ : \A x \in EquipmentOf(v) : p[2] # r.cache[x]}
                                     \cup EndpointRows(v, r.cache)]

\* An owner's rows are replaced; PRIMARY KEY (node_id, owner_id).
UpsertElectricalGroupsTx(s, u, v) ==
    [s EXCEPT !.db.group = {g \in @ : g[2] # OwnerOf[u]}
                              \cup (NodesOf(v) \X {OwnerOf[u]} \X {v.group})]

\* The statements of u's next transaction.
StageTx(s, u, st) ==
    CASE st = "attributes" -> UpsertAttributesTx(s, view[u])
      [] st = "containers" -> UpsertContainersTx(s, u)
      [] st = "equipment"  -> UpsertEquipmentTx(s, u, view[u])
      [] st = "nodes"      -> UpsertNodesTx(s, view[u])
      [] st = "edges"      -> UpsertEdgesTx(s, view[u])
      [] st = "groups"     -> UpsertElectricalGroupsTx(s, u, view[u])

\* The IDs it may have resolved when it fails: those of some edges, and of one the first
\* one or two; attributes come by equipment.
EdgeIDs(v) ==
    LET begun == {{}} \cup UNION {{{e.id}, {e.id, e.t1}} : e \in v.edges}
    IN  {b \cup UNION {{e.id, e.t1, e.t2} : e \in done} : b \in begun, done \in SUBSET v.edges}
ResolvedIDs(u, st) == CASE st = "attributes" -> SUBSET EquipmentOf(view[u])
                        [] st = "edges"      -> EdgeIDs(view[u])
                        [] OTHER             -> {{}}

\* PersistBatch: every statement of the batch in one transaction.
PersistBatchTx(s, u, v) ==
    LET s1 == UpsertContainersTx(s, u)
        s2 == UpsertEquipmentTx(s1, u, v)
        s3 == UpsertNodesTx(s2, v)
        s4 == UpsertEdgesTx(s3, v)
        s5 == UpsertAttributesTx(s4, v)
    IN  UpsertElectricalGroupsTx(s5, u, v)

\* DeleteContainers' statements: the equipment, edges and groups of the
\* containers go, then the candidate nodes nothing refers to any more.
Referenced(d, n) == \/ \E e \in DOMAIN d.edge : n \in {d.edge[e][1], d.edge[e][2]}
                    \/ \E g \in d.group : g[1] = n
                    \/ n \in DOMAIN d.equipment
ChecksGroupsOnly(d, n) == \E g \in d.group : g[1] = n
StillReferenced(d, n) == Referenced(d, n)

OwnedByNode(d, S) == {g \in d.group : \E h \in d.group : h[1] = g[1] /\ h[2] \in S}
OwnedGroups(d, S) == {g \in d.group : g[2] \in S}

DeleteContainersTx(d, c, S) ==
    LET eqs == {x \in DOMAIN d.equipment : d.equipment[x] \in S}
        deadEdges == DOMAIN d.edge \cap eqs
        candidates == eqs \cup {d.edge[e][i] : e \in deadEdges, i \in {1, 2}}
                          \cup {g[1] : g \in OwnedGroups(d, S)}
        d1 == [d EXCEPT !.edge = [e \in DOMAIN @ \ eqs |-> @[e]],
                        !.equipment = [x \in DOMAIN @ \ eqs |-> @[x]],
                        !.group = @ \ OwnedGroups(d, S),
                        !.container = @ \ S]
        gone == {n \in candidates : ~StillReferenced(d1, n)}
    IN  [d1 EXCEPT !.node = @ \ gone,
                   !.attr = @ \ LookupAll(d, c, S \cup eqs \cup gone),
                   !.endpoint = {p \in @ : p[1] \notin LookupAll(d, c, gone)}]

-----------------------------------------------------------------------------
(* Actions.                                                                 *)

\* A unit's batch begins; a process batches a unit once.
Begin(u) == /\ stage[u] = "idle" /\ u \notin ran /\ starts < MaxBatches
            /\ ran' = ran \cup {u}
            /\ starts' = starts + 1

StartBatch(u) == /\ Begin(u)
                 /\ \E v \in ViewsOf[u] : view' = [view EXCEPT ![u] = v]
                 /\ stage' = [stage EXCEPT ![u] = Stages[1]]
                 /\ UNCHANGED <<db, cache, txFailed>>

After(st) == LET i == CHOOSE i \in 1 .. Len(Stages) : Stages[i] = st
             IN  IF i = Len(Stages) THEN "idle" ELSE Stages[i + 1]

\* withTx: fn succeeds and the transaction commits.
Commit(u) == /\ stage[u] # "idle"
             /\ LET s == StageTx([db |-> db, cache |-> cache], u, stage[u])
                IN  db' = s.db /\ cache' = s.cache
             /\ stage' = [stage EXCEPT ![u] = After(@)]
             /\ UNCHANGED <<view, ran, starts, txFailed>>

\* withTx: some statement or the commit fails and the tables are rolled back;
\* the IDs resolved so far stay in the cache. The unit's batch is abandoned, the
\* other batches of the process go on.
KeepResolved(XS) == \E X \in XS : cache' = Resolve([db |-> db, cache |-> cache], X).cache

Rollback(u) == /\ stage[u] # "idle"
               /\ KeepResolved(ResolvedIDs(u, stage[u]))
               /\ stage' = [stage EXCEPT ![u] = "idle"]
               /\ txFailed' = TRUE
               /\ UNCHANGED <<db, view, ran, starts>>

\* The other way to persist a batch (cmd/phase2check): all or nothing.
PersistBatch(u) ==
    /\ Begin(u)
    /\ \E v \in ViewsOf[u] :
          LET s == PersistBatchTx([db |-> db, cache |-> cache], u, v)
          IN  db' = s.db /\ cache' = s.cache
    /\ UNCHANGED <<stage, view, txFailed>>

\* Its edges resolve every ID it needs, so its attributes resolve none.
PersistBatchFails(u) ==
    /\ Begin(u)
    /\ \E v \in ViewsOf[u] : KeepResolved(EdgeIDs(v))
    /\ txFailed' = TRUE
    /\ UNCHANGED <<db, stage, view>>

\* The process ends, done or killed, and another one opens the database.
Reopen == /\ stage' = [u \in Units |-> "idle"]
          /\ cache' = LoadCache(db)
          /\ ran' = {}
          /\ UNCHANGED <<db, view, starts, txFailed>>

\* PruneRemoved: a process of its own deletes some of the containers. (A failure
\* rolls everything back and caches only rows that exist.)
DeleteContainers(S) ==
    /\ ran = {}
    /\ S # {} /\ S \subseteq db.container
    /\ db' = DeleteContainersTx(db, LoadCache(db), S)
    /\ cache' = LoadCache(db')
    /\ UNCHANGED <<stage, view, ran, starts, txFailed>>
Prune == \E S \in SUBSET db.container : DeleteContainers(S)

Next == \/ \E u \in Units : StartBatch(u) \/ Commit(u) \/ Rollback(u)
                            \/ PersistBatch(u) \/ PersistBatchFails(u)
        \/ Reopen
        \/ Prune

Spec == Init /\ [][Next]_vars

-----------------------------------------------------------------------------
(* What the readers see.                                                    *)

GetEdgesByNodeIDs(d, n) ==
    {e \in DOMAIN d.edge : n \in DOMAIN d.entity /\ e \in DOMAIN d.entity
                              /\ <<d.entity[n], d.entity[e]>> \in d.endpoint}

\* The recursive query, the least fixpoint along endpoint rows that share an edge key.
Along(d, K) == {p[1] : p \in {p \in d.endpoint : \E q \in d.endpoint : q[1] \in K /\ q[2] = p[2]}}
GetReachableNodes(d, n) ==
    LET start == {d.entity[x] : x \in DOMAIN d.entity \cap {n}}
        keys == start \cup {p[1] : p \in d.endpoint}
        closed == {K \in SUBSET keys : start \cup Along(d, K) \subseteq K}
    IN  {x \in DOMAIN d.entity : \A K \in closed : d.entity[x] \in K}

GetElectricalGroup(d, n) == {g[3] : g \in {g \in d.group : g[1] = n}}

-----------------------------------------------------------------------------
(* Properties.                                                              *)

\* Tables hold rows of the known units; ids in entity_id are distinct and were issued.
TypeOK == /\ db.container \subseteq {ContainerOf[u] : u \in Units}
          /\ db.node \subseteq AllNodes
          /\ DOMAIN db.edge \subseteq UNION {EquipmentOf(v) : v \in AllViews}
          /\ \A x, y \in DOMAIN db.entity : x # y => db.entity[x] # db.entity[y]
          /\ \A x \in DOMAIN db.entity : db.entity[x] \in 1 .. db.seq
          /\ \A u \in Units : stage[u] = "idle" \/ view[u] \in ViewsOf[u]

\* No stored edge and no stored group refers to a node that is not there,
\* whatever was rolled back, killed or pruned in between: a node goes only when
\* its last reference goes (DeleteContainers' orphan check, nodes before edges).
ReferencedNodesExist ==
    /\ \A e \in DOMAIN db.edge : {db.edge[e][1], db.edge[e][2]} \subseteq db.node
    /\ \A g \in db.group : g[1] \in db.node

\* The nodes that stored edges connect with n: those in every set that is closed under them.
Ends(d, e) == {d.edge[e][1], d.edge[e][2]}
StoredReach(d, n) ==
    LET closed == {S \in SUBSET AllNodes : n \in S /\
                     \A e \in DOMAIN d.edge : Ends(d, e) \cap S # {} => Ends(d, e) \subseteq S}
    IN  {x \in AllNodes : \A S \in closed : x \in S}

\* An edge is found from each of its nodes and from no other node, and what is
\* connected is reached, also after its terminals moved and after a prune, as long as
\* no transaction was rolled back (model_edge_endpoint is kept in step with model_edge).
EdgesFoundByNode == ~txFailed => \A n \in AllNodes :
    LET at == {e \in DOMAIN db.edge : n \in Ends(db, e)}
    IN  /\ GetEdgesByNodeIDs(db, n) = at
        /\ at # {} => StoredReach(db, n) \subseteq GetReachableNodes(db, n)

\* A prune leaves the rows of the containers it was not given alone: their
\* equipment, edges, groups and every node these use.
OthersKept(S) ==
    LET kept == {x \in DOMAIN db.equipment : db.equipment[x] \notin S}
    IN  /\ kept = DOMAIN db'.equipment
        /\ \A x \in kept \cap DOMAIN db.edge :
              x \in DOMAIN db'.edge /\ db'.edge[x] = db.edge[x]
        /\ \A n \in AllNodes :
              GetElectricalGroup(db', n) = {g[3] : g \in {g \in db.group : g[1] = n /\ g[2] \notin S}}
PruneKeepsOthers == [][\A S \in SUBSET db.container : DeleteContainers(S) => OthersKept(S)]_vars

=============================================================================
