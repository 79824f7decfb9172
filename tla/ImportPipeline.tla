--------------------------- MODULE ImportPipeline ---------------------------
(***************************************************************************)
(* The life of one database under whole imports: hjsonimport.Run from the  *)
(* reset of the store to the metadata record, and PruneRemoved before an   *)
(* incremental run. A run may fail or be killed at every step, and the     *)
(* tree of documents may change at any moment.                             *)
(*                                                                         *)
(* A tree is a set of items [id, kind, in, nodes], the stations whose      *)
(* document does not parse, and the number in its metadata.hjson (0: no    *)
(* such file). What Pass A makes of a station and Pass B of a cable is     *)
(* reduced to the rows they are stored in; PassAPool, StationTopology and  *)
(* ACLineChains model how. Emit reads the tree at one moment (HJSONWatch   *)
(* has files that change while an import reads). IDs are numbers in the    *)
(* order of the ID strings. MaxRuns bounds the runs and the prunes.        *)
(***************************************************************************)
EXTENDS Integers, Sequences, FiniteSets, SequencesExt, FiniteSetsExt, Functions, Tables

CONSTANTS Trees,     \* the trees of documents there may be
          Size,      \* batch.Writer's size
          MaxRuns

ASSUME WriterAssumption == Size \in Nat \ {0} /\ MaxRuns \in Nat

\* A tree has finitely many items, and an ID names one of them.
AllItems == UNION {t.items : t \in Trees}
AllIds == {i.id : i \in AllItems}
ASSUME TreeAssumption ==
    /\ AllIds \subseteq Nat
    /\ Trees \subseteq [items : SUBSET AllItems, bad : SUBSET AllIds, meta : Nat]
    /\ \A t \in Trees : IsFiniteSet(t.items) /\ \A i, j \in t.items : i.id = j.id => i = j
    \* The documents of stations and cables are in no other.
    /\ \A t \in Trees : \A i, j \in t.items : i.kind \in {"station", "cable"} => i.in # j.id

NoTree == [items |-> {}, bad |-> {}, meta |-> 0]

VARIABLES tree,      \* what is on disk
          store,     \* the database: [last, staged, errors, flags, number]
          model,     \* its model tables
          run,       \* the run under way: [pc, keep, keepStaging, read, version, sent, todo, batch]
          starts,    \* runs and prunes started
          hist       \* history: [read, mixed, wins, base, pruned: none or one tree]

vars == <<tree, store, model, run, starts, hist>>

EmptyStore == [last |-> 0, staged |-> {}, errors |-> {}, flags |-> {}, number |-> 0]
EmptyModel == [container |-> {}, equipment |-> NoRow, node |-> {}, edge |-> NoRow, group |-> {}]
Fresh == [read |-> NoTree, mixed |-> FALSE, wins |-> 0, base |-> 0, pruned |-> {}]

-----------------------------------------------------------------------------
(* What an import makes of the items it finds.                              *)

OfKind(I, kinds) == {i \in I : i.kind \in kinds}
Ids(I) == {i.id : i \in I}

\* The items of one root: a station with its bays and what is in them; a cable.
Under(I, r) == LET bays == {i \in OfKind(I, {"bay"}) : i.in = r}
               IN  {i \in I : i.id = r \/ i.in \in {r} \cup Ids(bays)}

\* The documents that parse; the records of a tree, in the order Emit returns them.
Parsed(t) == t.items \ UNION {Under(t.items, r) : r \in t.bad}
Records(t) == SetToSeq(Parsed(t))

\* The rows of one root, under the owner of its electrical groups.
RowsOf(I, owner) ==
    LET E == OfKind(I, {"equipment", "cable"})
        N == UNION {e.nodes : e \in E}
        at(x) == CHOOSE e \in E : e.id = x
    IN  [container |-> Ids(OfKind(I, {"station", "bay", "cable"})),
         equipment |-> [x \in Ids(E) |-> IF at(x).kind = "cable" THEN x ELSE at(x).in],
         node |-> N,
         edge |-> [x \in Ids(E) |-> at(x).nodes],
         group |-> N \X {owner}]
StationOwner(s) == <<"station", s>>
PassBOwner(k) == <<"passB", k>>

\* onBatchResult: the first k tables, each in a transaction of its own.
AllTables == 5
EquipmentFirst(k, m, r) ==
    [container |-> IF k >= 2 THEN m.container \cup r.container ELSE m.container,
     equipment |-> IF k >= 1 THEN Over(r.equipment, m.equipment) ELSE m.equipment,
     node      |-> IF k >= 3 THEN m.node \cup r.node ELSE m.node,
     edge      |-> IF k >= 4 THEN Over(r.edge, m.edge) ELSE m.edge,
     group     |-> IF k >= 5 THEN {g \in m.group : \A h \in r.group : g[2] # h[2]} \cup r.group
                   ELSE m.group]
Write(k, m, r) ==
    [container |-> IF k >= 1 THEN m.container \cup r.container ELSE m.container,
     equipment |-> IF k >= 2 THEN Over(r.equipment, m.equipment) ELSE m.equipment,
     node      |-> IF k >= 3 THEN m.node \cup r.node ELSE m.node,
     edge      |-> IF k >= 4 THEN Over(r.edge, m.edge) ELSE m.edge,
     group     |-> IF k >= 5 THEN {g \in m.group : \A h \in r.group : g[2] # h[2]} \cup r.group
                   ELSE m.group]

\* DeleteContainers (ModelStore has it statement by statement).
DeleteContainers(m, S) ==
    LET gone == {x \in DOMAIN m.equipment : m.equipment[x] \in S}
        owned == {g \in m.group : \E c \in S : g[2] = StationOwner(c)}
        edge == Restrict(m.edge, DOMAIN m.edge \ gone)
        candidates == (UNION {m.edge[x] : x \in gone \cap DOMAIN m.edge}) \cup {g[1] : g \in owned}
        used == (UNION Range(edge)) \cup {g[1] : g \in m.group \ owned}
    IN  [container |-> m.container \ S, node |-> m.node \ (candidates \ used),
         equipment |-> Restrict(m.equipment, DOMAIN m.equipment \ gone),
         edge |-> edge, group |-> m.group \ owned]

-----------------------------------------------------------------------------
Idle == [pc |-> "idle", keep |-> FALSE, keepStaging |-> FALSE, read |-> NoTree,
         version |-> 0, sent |-> 0, todo |-> {}, batch |-> 0]

Init == /\ tree \in Trees
        /\ store = EmptyStore /\ model = EmptyModel
        /\ run = Idle /\ starts = 0 /\ hist = Fresh

\* Users edit the documents whenever they like.
EditTree == /\ tree' \in Trees \ {tree}
            /\ UNCHANGED <<store, model, run, starts, hist>>

Between == run.pc \in {"idle", "ok", "error"} /\ starts < MaxRuns /\ starts' = starts + 1

\* ResetBackend unless KeepExistingFile, then OpenBackend.
WipesModelOnly == store' = [EmptyStore EXCEPT !.number = store.number] /\ model' = EmptyModel
WipesStaging == store' = EmptyStore /\ model' = model
ResetBackend == store' = EmptyStore /\ model' = EmptyModel

StartRun(keep) ==
    /\ Between
    /\ run' = [Idle EXCEPT !.pc = "version", !.keep = keep]
    /\ IF keep
       THEN UNCHANGED <<store, model>> /\ hist' = [hist EXCEPT !.mixed = TRUE]
       ELSE ResetBackend /\ hist' = Fresh
    /\ UNCHANGED tree

\* phase1.RunHJSONFiles
NextVersion == /\ run.pc = "version"
               /\ store' = [store EXCEPT !.last = @ + 1]
               /\ run' = [run EXCEPT !.pc = "emit", !.version = store.last + 1]
               /\ UNCHANGED <<tree, model, starts, hist>>

Emit == /\ run.pc = "emit"
        /\ run' = [run EXCEPT !.pc = "stage", !.read = tree]
        /\ hist' = [hist EXCEPT !.pruned = @ \cap {tree}]
        /\ UNCHANGED <<tree, store, model, starts>>

Left == Len(Records(run.read)) - run.sent
Insert(n) == store' = [store EXCEPT !.staged = @ \cup
                {<<run.version, i>> : i \in ToSet(SubSeq(Records(run.read), run.sent + 1, run.sent + n))}]

\* Writer.Emit until the buffer is full; Flush writes the rest.
InsertBatch == /\ run.pc = "stage" /\ Left >= Size
               /\ Insert(Size)
               /\ run' = [run EXCEPT !.sent = @ + Size]
               /\ UNCHANGED <<tree, model, starts, hist>>
ForgetsRest == /\ run.pc = "stage" /\ Left < Size
               /\ run' = [run EXCEPT !.pc = "errors"]
               /\ UNCHANGED <<tree, store, model, starts, hist>>
Flush == /\ run.pc = "stage" /\ Left < Size
         /\ Insert(Left)
         /\ run' = [run EXCEPT !.pc = "errors"]
         /\ UNCHANGED <<tree, model, starts, hist>>

\* What phase 2 finds under the run's version.
Staged == {r[2] : r \in {r \in store.staged : r[1] = run.version}}
Roots(kind) == Ids(OfKind(Staged, {kind}))

\* InsertErrors; with an error Run stops before phase 2.
InsertErrors == /\ run.pc = "errors" /\ run.read.bad # {}
                /\ store' = [store EXCEPT !.errors = @ \cup {run.version}]
                /\ run' = [run EXCEPT !.pc = "error"]
                /\ UNCHANGED <<tree, model, starts, hist>>
SkipsKnown == /\ run.pc = "errors" /\ run.read.bad = {}
              /\ run' = [run EXCEPT !.pc = "passA", !.todo = Roots("station") \ model.container]
              /\ UNCHANGED <<tree, store, model, starts, hist>>
StartPassA == /\ run.pc = "errors" /\ run.read.bad = {}
              /\ run' = [run EXCEPT !.pc = "passA", !.todo = Roots("station")]
              /\ UNCHANGED <<tree, store, model, starts, hist>>

Mark(I) == store' = [store EXCEPT !.flags = @ \cup {<<run.version, x>> : x \in Ids(I)}]

\* One station's flags and rows; fewer than all tables when a write fails.
PersistStation(s, k) ==
    /\ run.pc = "passA" /\ s \in run.todo
    /\ Mark(Under(Staged, s))
    /\ model' = Write(k, model, RowsOf(Under(Staged, s), StationOwner(s)))
    /\ run' = IF k = AllTables THEN [run EXCEPT !.todo = @ \ {s}] ELSE [run EXCEPT !.pc = "error"]
    /\ UNCHANGED <<tree, starts, hist>>
StartPassB == /\ run.pc = "passA" /\ run.todo = {}
              /\ run' = [run EXCEPT !.pc = "passB", !.todo = Roots("cable")]
              /\ UNCHANGED <<tree, store, model, starts, hist>>

\* Pass B goes through the routes in ID order, a batch under its own owner each.
PersistCable(c, k) ==
    /\ run.pc = "passB" /\ c \in run.todo /\ \A d \in run.todo : c <= d
    /\ Mark(Under(Staged, c))
    /\ model' = Write(k, model, RowsOf(Under(Staged, c), PassBOwner(run.batch)))
    /\ run' = IF k = AllTables THEN [run EXCEPT !.todo = @ \ {c}, !.batch = @ + 1]
              ELSE [run EXCEPT !.pc = "error"]
    /\ UNCHANGED <<tree, starts, hist>>
EndPassB == /\ run.pc = "passB" /\ run.todo = {}
            /\ run' = [run EXCEPT !.pc = "flags"]
            /\ UNCHANGED <<tree, store, model, starts, hist>>

\* FinalizeImport. Vacuum changes no row; it may fail, as every step. The option
\* KeepStaging matters here only.
ClearFlags == /\ run.pc = "flags"
              /\ store' = [store EXCEPT !.flags = {f \in @ : f[1] # run.version}]
              /\ run' = [run EXCEPT !.pc = "delete"]
              /\ UNCHANGED <<tree, model, starts, hist>>
DeleteVersion(keepStaging) ==
    /\ run.pc = "delete"
    /\ store' = IF keepStaging THEN store
                ELSE [store EXCEPT !.staged = {r \in @ : r[1] # run.version},
                                   !.errors = @ \ {run.version}]
    /\ run' = [run EXCEPT !.pc = "metadata", !.keepStaging = keepStaging]
    /\ UNCHANGED <<tree, model, starts, hist>>

\* recordOrAdoptMetadata
NextNumber(n) == IF n = 0 /\ tree.meta # 0 THEN tree.meta ELSE n + 1
RecordMetadata ==
    /\ run.pc = "metadata"
    /\ store' = [store EXCEPT !.number = NextNumber(@)]
    /\ run' = [run EXCEPT !.pc = "ok"]
    /\ hist' = [hist EXCEPT !.wins = @ + 1, !.read = run.read,
                            !.base = IF store.number = 0 THEN store'.number - 1 ELSE @]
    /\ UNCHANGED <<tree, model, starts>>

\* A step fails or the process is killed: what is committed stays.
Stops == /\ run.pc \notin {"idle", "ok", "error"}
         /\ run' = [run EXCEPT !.pc = "error"]
         /\ UNCHANGED <<tree, store, model, starts, hist>>

\* PruneRemoved: all containers that are not a station with a document of its own.
Stale == model.container \ Ids(OfKind(tree.items, {"station"}))
PruneRemoved == /\ Between
                /\ model' = DeleteContainers(model, Stale)
                /\ run' = Idle
                /\ hist' = [hist EXCEPT !.mixed = TRUE, !.pruned = {tree}]
                /\ UNCHANGED <<tree, store>>

RunStep == \/ NextVersion \/ Emit \/ InsertBatch \/ Flush \/ InsertErrors
           \/ StartPassA \/ StartPassB \/ EndPassB
           \/ (\E k \in 0 .. AllTables, r \in run.todo : PersistStation(r, k) \/ PersistCable(r, k))
           \/ ClearFlags \/ (\E keepStaging \in BOOLEAN : DeleteVersion(keepStaging)) \/ RecordMetadata
Next == \/ EditTree \/ RunStep \/ Stops \/ PruneRemoved
        \/ \E keep \in BOOLEAN : StartRun(keep)

Spec == Init /\ [][Next]_vars

-----------------------------------------------------------------------------
(* Properties.                                                              *)

\* Rows are whole at every moment, after a failure, a kill or a prune too: what a
\* row refers to is stored, and no staged row or flag has a version not yet issued.
RowsWhole(m) ==
    /\ Range(m.equipment) \subseteq m.container
    /\ DOMAIN m.edge \subseteq DOMAIN m.equipment
    /\ UNION Range(m.edge) \subseteq m.node
    /\ {g[1] : g \in m.group} \subseteq m.node
TypeOK ==
    /\ RowsWhole(model)
    /\ {r[1] : r \in store.staged} \cup {f[1] : f \in store.flags} \subseteq 1 .. store.last

InPhase2 == run.pc \in {"passA", "passB", "flags", "delete"}

\* Phase 2 reads exactly the documents this run has read, all of which parsed: the
\* last partial batch is not lost, and no row of an aborted run shares the version
\* (NextVersion, Writer.Flush, "aborting before phase 2").
StagedIsWhatWasRead ==
    InPhase2 => run.read.bad = {} /\ Staged = run.read.items

\* The model a first import of these items yields: the rows of every root, no two of
\* which have equipment in common.
Stations(I) == Ids(OfKind(I, {"station"}))
Cables(I) == Ids(OfKind(I, {"cable"}))
OwnerOf(I, r) == IF r \in Stations(I) THEN StationOwner(r)
                 ELSE PassBOwner(Cardinality({d \in Cables(I) : d < r}))
PartOf(I, r) == RowsOf(Under(I, r), OwnerOf(I, r))
Expected(I) ==
    LET P == {PartOf(I, r) : r \in Stations(I) \cup Cables(I)}
        one(x) == CHOOSE p \in P : x \in DOMAIN p.equipment
        E == UNION {DOMAIN p.equipment : p \in P}
    IN  [container |-> UNION {p.container : p \in P},
         equipment |-> [x \in E |-> one(x).equipment[x]],
         node |-> UNION {p.node : p \in P},
         edge |-> [x \in E |-> one(x).edge[x]],
         group |-> UNION {p.group : p \in P}]

\* A rebuild that succeeds leaves the model of the documents it read and nothing
\* else, whatever failed and whatever the database held before: no row of an
\* earlier tree, no flag, no staged row unless these were to be kept.
RebuildIsExact ==
    run.pc = "ok" /\ ~run.keep =>
       /\ model = Expected(run.read.items)
       /\ store.flags = {} /\ (store.staged = {} \/ run.keepStaging)

\* An incremental run over a database that was pruned for the same documents ends
\* with their containers and no others - the nested ones the prune always deletes
\* are back - and with every station and cable as a rebuild would have stored it.
ApplyRestores ==
    run.pc = "ok" /\ run.keep /\ run.read \in hist.pruned =>
       LET e == Expected(run.read.items)
       IN  /\ model.container = e.container
           /\ \A x \in DOMAIN e.equipment :
                 /\ x \in DOMAIN model.equipment /\ model.equipment[x] = e.equipment[x]
                 /\ x \in DOMAIN model.edge /\ model.edge[x] = e.edge[x]
           /\ e.group \subseteq model.group

\* "The last successful import that produced the current overall model" (package
\* metadata). The number advances once per successful import and never otherwise,
\* starting from the one the first import may adopt; and in a database that only
\* rebuilds have written, a metadata record means that the model is the whole one of
\* that import, never a part of a failed one.
MetadataIsTrue ==
    /\ store.number = IF hist.wins = 0 THEN 0 ELSE hist.base + hist.wins
    /\ store.number # 0 /\ ~hist.mixed => model = Expected(hist.read.items)

-----------------------------------------------------------------------------
(* The strengthening of TypeOK and StagedIsWhatWasRead that is inductive.   *)

Runs == [pc : {"idle", "version", "emit", "stage", "errors", "passA", "passB",
               "flags", "delete", "metadata", "ok", "error"},
         keep : BOOLEAN, keepStaging : BOOLEAN, read : Trees \cup {NoTree},
         version : Nat, sent : Nat, todo : SUBSET AllIds, batch : Nat]
Stores == [last : Nat, staged : SUBSET (Nat \X AllItems), errors : SUBSET Nat,
           flags : SUBSET (Nat \X AllIds), number : Nat]
Kinds == run \in Runs /\ store \in Stores /\ tree \in Trees /\ RowsWhole(model)

\* The run has a version of its own, which no earlier row has.
VersionsIssued ==
    /\ \A r \in store.staged : r[1] \in 1 .. store.last
    /\ \A f \in store.flags : f[1] \in 1 .. store.last
    /\ run.pc \notin {"idle", "version", "ok", "error"} => run.version \in 1 .. store.last

\* What is staged under it: nothing, then the records sent, then all that parsed.
StagedSoFar ==
    /\ run.pc \in {"version", "emit"} => run.sent = 0
    /\ run.pc = "emit" => Staged = {}
    /\ run.pc = "stage" => /\ run.sent <= Len(Records(run.read))
                           /\ Staged = ToSet(SubSeq(Records(run.read), 1, run.sent))
    /\ run.pc = "errors" \/ InPhase2 => Staged = Parsed(run.read)
    /\ InPhase2 => run.read.bad = {}

\* Phase 2 works on roots that are staged.
RootsStaged == /\ run.pc = "passA" => run.todo \subseteq Roots("station")
               /\ run.pc = "passB" => run.todo \subseteq Roots("cable")

PipelineInv == Kinds /\ VersionsIssued /\ StagedSoFar /\ RootsStaged
=============================================================================
