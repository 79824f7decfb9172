---------------------------- MODULE PostgresStore ----------------------------
(***************************************************************************)
(* The final-model tables of pkg/postgres under the concurrent workers of  *)
(* an import (cmd/phase2check, hjsonimport.Run). There is no writeMu: the  *)
(* transactions of two workers overlap, and what orders them is what       *)
(* PostgreSQL does. A worker's batch is a sequence of transactions, a      *)
(* transaction a sequence of statements, and a statement is one step:      *)
(*                                                                         *)
(*  - a row locked or inserted by an open transaction makes another writer *)
(*    of that row wait until it ends; a cycle of waits aborts one of them; *)
(*  - a foreign key sees the committed rows and those of its own           *)
(*    transaction; it does not wait for the row of another one;            *)
(*  - a rollback takes the rows back, but neither the numbers drawn from a *)
(*    sequence nor the ids that entityIDCache and attributeKeyCache hold.  *)
(*                                                                         *)
(* The rows of a batch (container, equipment, edges, attributes, groups)   *)
(* are its own, so their writes take effect at the commit. Shared are the  *)
(* nodes, the flags and the two dictionaries, entity_id and attribute_key, *)
(* which are one here: their code is the same and their names differ. A    *)
(* name is inserted at most once in a run, so the run's number is its id.  *)
(***************************************************************************)
EXTENDS Integers, Sequences, FiniteSets, SequencesExt, Tables

CONSTANTS Workers,    \* the goroutines of the pool
          Batches,    \* what is persisted as one batch
          PassB,      \* the batches of Pass B: persisted one by one, after Pass A
          VersionsOf, \* [Batches -> its views, one per version of the source]
          Modes,      \* "batch": PersistBatch; "tables": a transaction per table
          MaxRuns,    \* bound: imports into the same tables
          MaxFaults   \* bound: statements that fail for an outside reason

\* A view: [nodes |-> the order of its model_node rows, edges |-> sequence of
\* [id, t1, t2], attrs |-> [owner -> [key -> sequence of values]], group |-> id,
\* shared |-> the nodes (before any merge) whose flags other batches mark too].
EdgesOf(v) == ToSet(v.edges)
EdgeIDs(v) == {e.id : e \in EdgesOf(v)}
TerminalsOf(v) == UNION {{e.t1, e.t2} : e \in EdgesOf(v)}
OwnersOf(v) == DOMAIN v.attrs
KeysOf(v) == UNION {DOMAIN v.attrs[o] : o \in OwnersOf(v)}
ViewsOf(b) == ToSet(VersionsOf[b])
AllViews == UNION {ViewsOf(b) : b \in Batches}
AllNodes == UNION {ToSet(v.nodes) : v \in AllViews}
AllEdges == UNION {EdgeIDs(v) : v \in AllViews}

ASSUME PostgresAssumption ==
    /\ PassB \subseteq Batches /\ Modes \subseteq {"batch", "tables"}
    /\ Workers # {} /\ {"none", "gone"} \cap Batches = {}
    /\ MaxRuns \in Nat \ {0} /\ MaxFaults \in Nat
    /\ \A b \in Batches : VersionsOf[b] \in Seq(ViewsOf(b)) /\ VersionsOf[b] # <<>>

\* A batch is finite, has one edge per piece of equipment and lists every node it uses.
ASSUME ViewAssumption ==
    \A v \in AllViews :
       /\ v.nodes \in Seq(AllNodes) /\ v.edges \in Seq(EdgesOf(v))
       /\ \A e, f \in EdgesOf(v) : e.id = f.id => e = f
       /\ TerminalsOf(v) \subseteq ToSet(v.nodes)
       /\ IsFiniteSet(v.shared) /\ IsFiniteSet(OwnersOf(v)) /\ IsFiniteSet(KeysOf(v))
       /\ v.group \notin {"absent", "partial"}

\* A node is a ConnectivityNode or GND, an owner of attributes is equipment or a container,
\* a key is in a dictionary of its own. No two batches have equipment or owners in common.
ASSUME NameAssumption ==
    /\ \A v, w \in AllViews :
          /\ ToSet(v.nodes) \cap (EdgeIDs(w) \cup OwnersOf(w)) = {}
          /\ KeysOf(v) \cap (ToSet(w.nodes) \cup EdgeIDs(w) \cup OwnersOf(w)) = {}
    /\ \A a, b \in Batches : a # b =>
          \A v \in ViewsOf(a), w \in ViewsOf(b) :
             ({a} \cup EdgeIDs(v) \cup OwnersOf(v)) \cap (EdgeIDs(w) \cup OwnersOf(w)) = {}

VARIABLES db,      \* the committed rows
          cache,   \* both caches of the process' ModelStore
          phase,   \* "idle" | "running" | "done" | "failed"
          run,     \* imports started since the tables were created
          mode,    \* how this run persists a batch
          taken, finished,    \* the batches handed out, and those persisted
          job,     \* job[w]: w's batch, "none", or "gone" after an error
          left,    \* left[w]: the transactions w has yet to run; the first is open
          tx,      \* tx[w]: what w's open transaction has done
          failed,  \* some worker of this run reported an error
          lost,    \* some transaction of this run was rolled back (history)
          faults,  \* outside faults so far
          shown    \* shown[b]: the views b's rows and attributes were last stored from (history)

vars == <<db, cache, phase, run, mode, taken, finished, job, left, tx, failed,
          lost, faults, shown>>

EmptyDB == [dict |-> NoRow, container |-> {}, equipment |-> NoRow, node |-> {},
            edge |-> NoRow, endpoint |-> {}, attr |-> {}, group |-> {}, flag |-> {}]
NoTx == [own |-> NoRow, ids |-> NoRow, locks |-> {}, wrote |-> {}]
NoView(g) == [nodes |-> <<>>, edges |-> <<>>, attrs |-> NoRow, group |-> g, shared |-> {}]
Absent == NoView("absent")
Partial == NoView("partial")
\* What run number run imports.
View(b) == VersionsOf[b][IF run < Len(VersionsOf[b]) THEN run ELSE Len(VersionsOf[b])]
NothingShown == [b \in Batches |-> [rows |-> Absent, attrs |-> Absent]]

Init == /\ db = EmptyDB /\ cache = NoRow
        /\ phase = "idle" /\ run = 0 /\ mode \in Modes
        /\ taken = {} /\ finished = {}
        /\ job = [w \in Workers |-> "none"] /\ left = [w \in Workers |-> <<>>]
        /\ tx = [w \in Workers |-> NoTx]
        /\ failed = FALSE /\ lost = FALSE /\ faults = 0
        /\ shown = NothingShown

-----------------------------------------------------------------------------
(* The transactions of a batch.                                             *)

Do(op, x) == [op |-> op, name |-> x]
Each(op, s) == [i \in 1 .. Len(s) |-> Do(op, s[i])]
EdgeNames(v) == [i \in 1 .. 3 * Len(v.edges) |->
                   LET e == v.edges[(i + 2) \div 3] IN (<<e.id, e.t1, e.t2>>)[((i + 2) % 3) + 1]]

\* Pass 0 resolves the keys and the owners; then the pairs go and the rows come.
UpsertAttributesTx(v) == IF OwnersOf(v) = {} THEN <<>>
                         ELSE Each("resolve", SetToSeq(KeysOf(v))) \o
                              Each("resolve", SetToSeq(OwnersOf(v))) \o <<Do("write", "attributes")>>
UpsertContainersTx == <<Do("write", "containers")>>
UpsertEquipmentTx == <<Do("write", "equipment")>>
UpsertNodesTx(v) == Each("node", v.nodes)
\* The edge rows, the ids, then the endpoint rows.
UpsertEdgesTx(v) == Each("resolve", EdgeNames(v)) \o <<Do("write", "edges")>>
UpsertElectricalGroupsTx == <<Do("write", "groups")>>

\* (The edges before the nodes.)
EdgesFirst(v, attributes) ==
    UpsertContainersTx \o UpsertEquipmentTx \o UpsertEdgesTx(v) \o UpsertNodesTx(v)
       \o attributes \o UpsertElectricalGroupsTx

\* All tables of a batch in one transaction, attributes only from Pass B.
PersistBatchTx(v, attributes) ==
    UpsertContainersTx \o UpsertEquipmentTx \o UpsertNodesTx(v) \o UpsertEdgesTx(v)
       \o attributes \o UpsertElectricalGroupsTx

\* MarkFlags gets the node IDs in the order of a Go map: any.
MarkFlagsTx(order) == Each("flag", order)

\* An Upsert of nothing begins no transaction.
Tx(t) == IF t = <<>> THEN <<>> ELSE <<t>>

\* A Pass A batch streams its attributes and marks its flags before it is
\* persisted; a Pass B batch has its attributes persisted with it.
Transactions(b, v, order) ==
    LET attrs == UpsertAttributesTx(v)
        flags == MarkFlagsTx(order)
        tables == <<UpsertContainersTx, UpsertEquipmentTx>> \o Tx(UpsertNodesTx(v))
                     \o <<UpsertEdgesTx(v)>>
    IN  IF b \in PassB
        THEN Tx(flags) \o (IF mode = "batch" THEN <<PersistBatchTx(v, attrs)>>
                           ELSE tables \o Tx(attrs) \o <<UpsertElectricalGroupsTx>>)
        ELSE Tx(attrs) \o Tx(flags) \o (IF mode = "batch" THEN <<PersistBatchTx(v, <<>>)>>
                                        ELSE tables \o <<UpsertElectricalGroupsTx>>)

-----------------------------------------------------------------------------
(* What the written tables look like once the transaction commits.          *)

Key(ids, x) == <<x, ids[x]>>

\* The rows of every (owner, key) pair go before any row comes.
AttributesWritten(rows, v, ids) ==
    LET pairs == UNION {{o} \X DOMAIN v.attrs[o] : o \in OwnersOf(v)}
        touched == {<<Key(ids, p[1]), Key(ids, p[2])>> : p \in pairs}
        new(p) == LET vals == v.attrs[p[1]][p[2]]
                  IN  {<<Key(ids, p[1]), Key(ids, p[2]), i, vals[i]>> : i \in DOMAIN vals}
    IN  {r \in rows : <<r[1], r[2]>> \notin touched} \cup UNION {new(p) : p \in pairs}

\* An edge has a row, and two endpoint rows (alike if both ends are one node).
EndpointsOf(v, ids) == UNION {{Key(ids, e.t1), Key(ids, e.t2)} \X {Key(ids, e.id)} : e \in EdgesOf(v)}
EdgeRows(v) == [x \in EdgeIDs(v) |->
                  LET e == CHOOSE e \in EdgesOf(v) : e.id = x IN <<e.t1, e.t2>>]

AddsEndpoints(rows, v, ids) == rows \cup EndpointsOf(v, ids)

\* The endpoint rows of the edges' keys go, the new ones come.
EndpointsWritten(rows, v, ids) ==
    {p \in rows : p[2] \notin {Key(ids, x) : x \in EdgeIDs(v)}} \cup EndpointsOf(v, ids)

\* A station owns its groups under its own ID, a Pass B batch under a sentinel.
GroupOwner(b) == IF b \in PassB THEN <<"pass_b", b>> ELSE <<"station", b>>
GroupsOf(b, v) == TerminalsOf(v) \X {GroupOwner(b)} \X {v.group}

\* The rows that w's transaction locks are the nodes and flags it wrote.
CommittedBy(w) ==
    LET b == job[w]
        v == View(b)
        ids == tx[w].ids
        locked(op) == {l.name : l \in {l \in tx[w].locks : l.op = op}}
        in(t) == t \in tx[w].wrote
    IN  [dict |-> Over(tx[w].own, db.dict),
         node |-> db.node \cup locked("node"),
         flag |-> db.flag \cup locked("flag"),
         container |-> IF in("containers") THEN db.container \cup {b} ELSE db.container,
         equipment |-> IF in("equipment") THEN Over([x \in EdgeIDs(v) |-> b], db.equipment)
                       ELSE db.equipment,
         edge |-> IF in("edges") THEN Over(EdgeRows(v), db.edge) ELSE db.edge,
         endpoint |-> IF in("edges") THEN EndpointsWritten(db.endpoint, v, ids) ELSE db.endpoint,
         attr |-> IF in("attributes") THEN AttributesWritten(db.attr, v, ids) ELSE db.attr,
         group |-> IF in("groups") THEN {g \in db.group : g[2] # GroupOwner(b)} \cup GroupsOf(b, v)
                   ELSE db.group]

-----------------------------------------------------------------------------
(* A worker's statements.                                                   *)

Working(w) == job[w] \notin {"none", "gone"}
Open(w) == Working(w) /\ left[w] # <<>> /\ Head(left[w]) # <<>>
Stmt(w) == Head(Head(left[w]))
Step(w) == left' = [left EXCEPT ![w] = <<Tail(Head(@))>> \o Tail(@)]

\* The row is locked, or inserted but not committed, by another transaction.
\* (An already committed flag is not inserted again, and nothing is locked.)
HeldBy(w, u) == /\ w # u /\ Open(w) /\ Stmt(w).op \in {"node", "flag"}
                /\ Stmt(w) \in tx[u].locks
Waits(w) == \E u \in Workers : HeldBy(w, u)
Deadlocked(w) == \E S \in SUBSET Workers :
                    w \in S /\ \A x \in S : \E y \in S : HeldBy(x, y)

\* The foreign keys of a table: the resolved ids are rows that this transaction sees.
Visible(w, x) == LET id == tx[w].ids[x]
                 IN  \/ x \in DOMAIN db.dict /\ db.dict[x] = id
                     \/ x \in DOMAIN tx[w].own /\ tx[w].own[x] = id
ReferredBy(t, v) == CASE t = "edges"      -> EdgeIDs(v) \cup TerminalsOf(v)
                      [] t = "attributes" -> KeysOf(v) \cup OwnersOf(v)
                      [] OTHER            -> {}
ForeignKeysHold(w) == \A x \in ReferredBy(Stmt(w).name, View(job[w])) : Visible(w, x)

UpsertNode(w) == /\ Open(w) /\ Stmt(w).op = "node" /\ ~Waits(w)
                 /\ tx' = [tx EXCEPT ![w].locks = @ \cup {Stmt(w)}]
                 /\ Step(w)
                 /\ UNCHANGED <<db, cache, phase, run, mode, taken, finished, job,
                                failed, lost, faults, shown>>

MarkFlag(w) == /\ Open(w) /\ Stmt(w).op = "flag" /\ ~Waits(w)
               /\ tx' = IF Stmt(w).name \in db.flag THEN tx
                        ELSE [tx EXCEPT ![w].locks = @ \cup {Stmt(w)}]
               /\ Step(w)
               /\ UNCHANGED <<db, cache, phase, run, mode, taken, finished, job,
                              failed, lost, faults, shown>>

\* resolve, under the cache's mutex: the cached id, else the row's, else a new row's.
Resolve(w) ==
    /\ Open(w) /\ Stmt(w).op = "resolve"
    /\ LET x == Stmt(w).name
           new == x \notin DOMAIN cache /\ x \notin DOMAIN db.dict
           id == IF x \in DOMAIN cache THEN cache[x] ELSE IF new THEN run ELSE db.dict[x]
       IN  /\ cache' = Put(x, id, cache)
           /\ tx' = [tx EXCEPT ![w].ids = Put(x, id, @),
                               ![w].own = IF new THEN Put(x, run, @) ELSE @]
    /\ Step(w)
    /\ UNCHANGED <<db, phase, run, mode, taken, finished, job, failed, lost, faults, shown>>

Write(w) == /\ Open(w) /\ Stmt(w).op = "write" /\ ForeignKeysHold(w)
            /\ tx' = [tx EXCEPT ![w].wrote = @ \cup {Stmt(w).name}]
            /\ Step(w)
            /\ UNCHANGED <<db, cache, phase, run, mode, taken, finished, job,
                           failed, lost, faults, shown>>

-----------------------------------------------------------------------------
(* Its transactions end.                                                    *)

\* What a reader can expect of b once w's transaction is in.
ShownAfter(b, w) ==
    LET wrote == tx[w].wrote
        rows == IF wrote \cap {"containers", "equipment", "edges", "groups"} = {}
                THEN shown[b].rows
                ELSE IF "groups" \in wrote THEN View(b) ELSE Partial
    IN  [rows |-> rows,
         attrs |-> IF "attributes" \in wrote THEN View(b) ELSE shown[b].attrs]

Commit(w) == /\ Working(w) /\ left[w] # <<>> /\ Head(left[w]) = <<>>
             /\ db' = CommittedBy(w)
             /\ shown' = [shown EXCEPT ![job[w]] = ShownAfter(job[w], w)]
             /\ tx' = [tx EXCEPT ![w] = NoTx]
             /\ left' = [left EXCEPT ![w] = Tail(@)]
             /\ UNCHANGED <<cache, phase, run, mode, taken, finished, job, failed,
                            lost, faults>>

EndBatch(w) == /\ Working(w) /\ left[w] = <<>>
               /\ finished' = finished \cup {job[w]}
               /\ job' = [job EXCEPT ![w] = "none"]
               /\ UNCHANGED <<db, cache, phase, run, mode, taken, left, tx, failed,
                              lost, faults, shown>>

\* (A failed batch is tried again by whoever is free.)
RetriesBatch(w) == /\ tx' = [tx EXCEPT ![w] = NoTx]
                   /\ left' = [left EXCEPT ![w] = <<>>]
                   /\ job' = [job EXCEPT ![w] = "none"]
                   /\ taken' = taken \ {job[w]}
                   /\ lost' = TRUE
                   /\ UNCHANGED <<db, cache, phase, run, mode, finished, failed, shown>>

\* withTx: the statement's error rolls the transaction back, the batch's callback
\* returns it and the worker reports it and leaves; the others go on.
RollBack(w) == /\ tx' = [tx EXCEPT ![w] = NoTx]
               /\ left' = [left EXCEPT ![w] = <<>>]
               /\ job' = [job EXCEPT ![w] = "gone"]
               /\ failed' = TRUE /\ lost' = TRUE
               /\ UNCHANGED <<db, cache, phase, run, mode, taken, finished, shown>>

ForeignKeyError(w) == /\ Open(w) /\ Stmt(w).op = "write" /\ ~ForeignKeysHold(w)
                      /\ RollBack(w) /\ UNCHANGED faults

\* PostgreSQL's detector aborts one transaction of the cycle.
DeadlockError(w) == Deadlocked(w) /\ RollBack(w) /\ UNCHANGED faults

\* Any other reason: a lost connection, a full disk.
Fault(w) == /\ Working(w) /\ left[w] # <<>> /\ ~Waits(w) /\ faults < MaxFaults
            /\ RollBack(w) /\ faults' = faults + 1

-----------------------------------------------------------------------------
(* The pool and the process.                                                *)

PassA == Batches \ PassB

\* Pass B starts when Pass A has returned nil, and persists from one goroutine.
MayTake(b) == b \notin taken /\ (b \in PassB => /\ ~failed /\ PassA \subseteq finished
                                               /\ taken \cap PassB \subseteq finished)
TakeBatch(w) ==
    /\ phase = "running" /\ job[w] = "none"
    /\ \E b \in Batches :
          /\ MayTake(b)
          /\ \E order \in SetToSeqs(View(b).shared) :
                left' = [left EXCEPT ![w] = Transactions(b, View(b), order)]
          /\ job' = [job EXCEPT ![w] = b]
          /\ taken' = taken \cup {b}
    /\ UNCHANGED <<db, cache, phase, run, mode, finished, tx, failed, lost, faults, shown>>

PoolDrained == /\ \A w \in Workers : ~Working(w)
               /\ \/ \A w \in Workers : job[w] = "gone"
                  \/ \A b \in Batches : ~MayTake(b)

\* (The next run's ModelStore shares the caches of this one.)
KeepsCache(p) == /\ phase' = p
                 /\ UNCHANGED cache
                 /\ taken' = {} /\ finished' = {}
                 /\ job' = [w \in Workers |-> "none"] /\ left' = [w \in Workers |-> <<>>]
                 /\ tx' = [w \in Workers |-> NoTx]
                 /\ failed' = FALSE /\ lost' = FALSE

EndProcess(p) == /\ phase' = p
                 /\ cache' = NoRow
                 /\ taken' = {} /\ finished' = {}
                 /\ job' = [w \in Workers |-> "none"] /\ left' = [w \in Workers |-> <<>>]
                 /\ tx' = [w \in Workers |-> NoTx]
                 /\ failed' = FALSE /\ lost' = FALSE

\* The process ends when its pool has drained: with the flags of its version
\* cleared if nothing failed (FinalizeImport).
FinishRun == /\ phase = "running" /\ PoolDrained
             /\ EndProcess(IF failed THEN "failed" ELSE "done")
             /\ db' = IF failed THEN db ELSE [db EXCEPT !.flag = {}]
             /\ UNCHANGED <<run, mode, faults, shown>>

\* A kill: the server rolls the open transactions back.
Kill == /\ phase = "running" /\ faults < MaxFaults
        /\ faults' = faults + 1
        /\ EndProcess("failed")
        /\ UNCHANGED <<db, run, mode, shown>>

\* Open, after a Reset or not: it drops the sequences too. The
\* flags of a failed run belong to its own version.
StartRun == /\ phase # "running"
            /\ phase' = "running"
            /\ mode' \in Modes
            /\ \/ /\ run' = 1 /\ db' = EmptyDB /\ shown' = NothingShown
               \/ /\ run < MaxRuns /\ run' = run + 1
                  /\ db' = [db EXCEPT !.flag = {}] /\ UNCHANGED shown
            /\ cache' = db'.dict
            /\ UNCHANGED <<taken, finished, job, left, tx, failed, lost, faults>>

\* DeleteContainers in a process of its own (hjsonimport.PruneRemoved), once after a run.
OwnedRows(d, owners) == {r \in d.attr : r[1][1] \in owners /\ r[1][1] \in DOMAIN d.dict
                                           /\ r[1] = Key(d.dict, r[1][1])}

\* (Edges and equipment are not asked.)
NoEdgeRefers(d, n) == \E g \in d.group : g[1] = n

StillReferenced(d, n) == \/ \E e \in DOMAIN d.edge : n \in ToSet(d.edge[e])
                         \/ \E g \in d.group : g[1] = n
                         \/ n \in DOMAIN d.equipment

DeleteContainersTx(d, b) ==
    LET eqs == {x \in DOMAIN d.equipment : d.equipment[x] = b}
        ownGroups == {g \in d.group : g[2] = <<"station", b>>}
        candidates == eqs \cup {g[1] : g \in ownGroups}
                          \cup UNION {ToSet(d.edge[e]) : e \in DOMAIN d.edge \cap eqs}
        d1 == [d EXCEPT !.edge = [e \in DOMAIN @ \ eqs |-> @[e]],
                        !.equipment = [x \in DOMAIN @ \ eqs |-> @[x]],
                        !.group = @ \ ownGroups,
                        !.container = @ \ {b}]
        gone == {n \in candidates : ~StillReferenced(d1, n)}
    IN  [d1 EXCEPT !.node = @ \ gone,
                   !.attr = @ \ OwnedRows(d, {b} \cup eqs \cup gone),
                   !.endpoint = {p \in @ : ~(p[1][1] \in gone /\ p[1] = Key(d.dict, p[1][1]))}]
DeleteContainers(b) ==
    /\ phase \in {"done", "failed"} /\ b \in db.container
    /\ db' = DeleteContainersTx(db, b)
    /\ shown' = [shown EXCEPT ![b] = IF b \in PassA /\ @.rows # Partial
                                     THEN [rows |-> Absent, attrs |-> Absent]
                                     ELSE [rows |-> Partial, attrs |-> Partial]]
    /\ phase' = "idle"
    /\ UNCHANGED <<cache, run, mode, taken, finished, job, left, tx, failed, lost, faults>>

WorkerStep(w) == \/ TakeBatch(w) \/ UpsertNode(w) \/ MarkFlag(w) \/ Resolve(w) \/ Write(w)
                 \/ Commit(w) \/ EndBatch(w) \/ ForeignKeyError(w)
Next == \/ StartRun \/ FinishRun \/ Kill
        \/ \E b \in Batches : DeleteContainers(b)
        \/ \E w \in Workers : WorkerStep(w) \/ DeadlockError(w) \/ Fault(w)

Spec == Init /\ [][Next]_vars

\* Some goroutine that can run does run, the process returns when its pool has
\* drained, and the server looks for deadlocks (deadlock_timeout). One worker may
\* be starved while another has work: a run's steps are finitely many.
Progress == FinishRun \/ \E w \in Workers : WorkerStep(w) \/ DeadlockError(w)
FairSpec == Spec /\ WF_vars(Progress)

-----------------------------------------------------------------------------
(* What the readers see.                                                    *)

GetEdgesByNodeIDs(d, n) == {e \in DOMAIN d.edge :
    /\ {n, e} \subseteq DOMAIN d.dict
    /\ <<Key(d.dict, n), Key(d.dict, e)>> \in d.endpoint}

\* The values of owner o, as [key, position, value].
GetByOwnerIDs(d, o) == {<<r[2][1], r[3], r[4]>> : r \in
    {r \in d.attr : /\ {o, r[2][1]} \subseteq DOMAIN d.dict
                    /\ r[1] = Key(d.dict, o) /\ r[2] = Key(d.dict, r[2][1])}}

-----------------------------------------------------------------------------
(* Properties.                                                              *)

\* Every variable keeps its kind; ids were issued by runs that took place.
TypeOK ==
    /\ db.container \subseteq Batches /\ db.node \subseteq AllNodes
    /\ db.flag \subseteq UNION {v.shared : v \in AllViews} /\ DOMAIN db.edge \subseteq AllEdges
    /\ \A x \in DOMAIN db.dict : db.dict[x] \in 1 .. run
    /\ phase \in {"idle", "running", "done", "failed"} /\ run \in 0 .. MaxRuns
    /\ finished \subseteq taken /\ taken \subseteq Batches
    /\ \A w \in Workers : /\ job[w] \in Batches \cup {"none", "gone"}
                          /\ \A l \in tx[w].locks : \A u \in Workers \ {w} : l \notin tx[u].locks
    /\ phase # "running" => cache = NoRow

\* The rows of a batch are those of one view, the one stored last, as every reader sees
\* them: container, equipment, edges from exactly their nodes, groups. (What an earlier
\* version of its source had besides stays until a prune or a reset.)
RowsOf(d, b, v) ==
    LET own == EdgeIDs(v)
        rows == {x \in DOMAIN d.equipment : d.equipment[x] = b}
    IN  /\ b \in d.container <=> v # Absent
        /\ own \subseteq rows
        /\ rows \subseteq (IF v = Absent THEN {} ELSE UNION {EdgeIDs(u) : u \in ViewsOf(b)})
        /\ TerminalsOf(v) \subseteq d.node
        /\ \A e \in own : e \in DOMAIN d.edge /\ d.edge[e] = EdgeRows(v)[e]
        /\ \A e \in own, n \in AllNodes :
              e \in GetEdgesByNodeIDs(d, n) <=> n \in ToSet(d.edge[e])
        /\ {g \in d.group : g[2] = GroupOwner(b)} = GroupsOf(b, v)

\* Its owners have the values of one view, for each key of it.
ValuesOf(v, o) == UNION {{<<k, i, v.attrs[o][k][i]>> : i \in DOMAIN v.attrs[o][k]}
                           : k \in DOMAIN v.attrs[o]}
AttributesOf(d, v) == \A o \in OwnersOf(v) :
    {r \in GetByOwnerIDs(d, o) : r[1] \in DOMAIN v.attrs[o]} = ValuesOf(v, o)

\* Whatever overlapped, failed, was killed, pruned or imported again: a batch shows
\* the readers exactly the view that was stored last, of its rows and of its
\* attributes, and none of another one (with a transaction per table, once the
\* last of them is in). After a run that succeeded it is the view of that run.
StoreExact ==
    /\ \A b \in Batches :
          /\ shown[b].rows # Partial => RowsOf(db, b, shown[b].rows)
          /\ shown[b].attrs \notin {Partial, Absent} => AttributesOf(db, shown[b].attrs)
    /\ phase = "done" => \A b \in Batches :
          shown[b].rows = View(b) /\ (OwnersOf(View(b)) # {} => shown[b].attrs = View(b))

\* PersistBatch writes the node rows first, and their locks order the batches that
\* share a node: when its edge rows are due, no id it resolved is in a transaction
\* that is still open (unless one was rolled back before), so its foreign keys hold.
LocksCoverIds == \A w \in Workers :
    (mode = "batch" /\ ~lost /\ Open(w)) =>
       (Stmt(w).op = "write" /\ Stmt(w).name = "edges" => ForeignKeysHold(w))

\* A run ends, with or without success, also when its workers wait for each other.
RunEnds == (phase = "running") ~> (phase # "running")

\* model.go: writes are "safe without the mutex as long as Pass A/B callers never
\* concurrently touch the same owner/key across two workers", which
\* PostgresAssumption says of the batches: without an outside fault nothing fails.
NoWorkerFails == failed => faults > 0
=============================================================================
