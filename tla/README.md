# JAG in TLA+

JAG reads a tree of `*.hjson` documents that describe an electrical grid, resolves them into
equipment, containers, nodes and edges, and keeps the result in a SQLite (or PostgreSQL) database.
This directory holds a TLA+ model of the parts of it where order, failure and sharing matter, the
TLC configurations that check it on small instances, and proofs of the core for every instance.

All source paths below are relative to the repository.

## 1. The system and its components

An import runs through these stages; each one hands its result to the next through the database.

    *.hjson tree --phase 1--> staging tables --Pass A (stations, parallel)--> model tables
                                           \--Pass B (cables, streaming)---/      |
                                                                    finalize, metadata
    hjsonwatch: watches the tree, runs all of it again        readers: export, circuits, checks

| component | state | operations | what is hard | what makes it correct |
|---|---|---|---|---|
| Pass A pipeline (`pkg/impl/common/pass_a_pipeline.go`) | cursor, pending list, channel of batches, error channels, workers | page, emit, receive, write table by table, fail, return | interleaving of feeder and workers, a feeder blocked on a full channel when workers die, page boundaries | each root handed out once; nil only if everything is committed; rows in dependency order; it returns |
| Station topology (`terminals.go`, `junctionmerge.go`, `busbarmerge.go`, `nodeedge.go`, `electrical.go`) | Terminals, renamed nodes, edges, groups | resolve, merge, build, group | chained renames, union-find order, the shared ground node, batches that share nodes | groups and circuits are the connected components; merges join busbars only; batching does not show |
| Cable routes and Pass B (`pass_b.go`, `acline_streaming.go`) | claimed segments, frontier, batch results, merge maps, flags | search, parallel build, merge, write | batches that overlap on a branch node, sentinel owners, workers | routes are components; batching does not show; no Junction is dropped |
| Model store (`pkg/sqlite/model.go`, `entity_id.go`, `container_delete.go`) | model tables, entity ids, in-memory id cache | one transaction per upsert, prune, graph queries | shared nodes, rollback against the cache, prune against later imports | no dangling reference; owners keep their groups; an edge is found from its nodes |
| Import pipeline (`pkg/impl/hjsonimport`) | store file, version, metadata | reset, phase 1, A, B, finalize, metadata, prune | crash between any two steps, keep mode over an old store | a rerun repairs; the number advances once per success |
| hjsonwatch (`cmd/hjsonwatch`) | watched directories, event queue, debounce timer, trigger channel | register, handle, fire, import | users editing during walks and imports | no noticed change is lost; it comes to rest |
| Container resolution (`container.go`, `pass_a.go`) | container of every equipment | walk parents, classify | satellites, boundary switches, ambiguous parents | every installed equipment has one container or an anomaly |
| Consistency checks and flags (`consistency.go`, `flags.go`) | reports, flags per version | check a batch, mark, check the rest, clear | the flagged checks know only what was marked; maps keyed by two kinds of ID | flagged and full checks agree; a station in pieces is reported |
| PostgreSQL store (`pkg/postgres`) | as the SQLite store, with transactions that overlap; caches of ids shared by the workers | one statement after the other | row locks, deadlocks, foreign keys against uncommitted rows, ids cached too early | readers see whole batches of one version; every run ends |
| Use cases (`pkg/impl/usecase`) | none; switching states given as overrides | circuits, electrical connection, parts of a station | the ground node, overrides against the imported state, two kinds of ID | circuits are the paths through closed switches; a station has its nodes |
| Migration (`internal/dbmigrate`, `model_export.go`) | cursor, target tables | read a page, upsert it, go on, be killed, start over | owners that straddle pages, a target that is partly filled or older | a finished copy has every row of the source and no trace of a half one |
| HJSON exporter (`pkg/exporter/hjson`) | a snapshot, a tree of files | load, build, write | folding cables and satellites, comments at shared nodes, local names | files lead to one another; an import yields the model again |
| HJSON importer (`pkg/importer/hjson`) | staged objects, errors | classify paths, check, emit | the exporter's inverse, edited trees, duplicates | what Check accepts is imported without an error |
| jag2nsc (`internal/jag2nsc`) | terminals, connections | walk from every busbar, write all rows | recursion without visited set, ways found from both ends | each way once, with the cables on it; the walk ends |

The remaining components (catalogue, MaStR, CGMES and NSC parsers, tools) are
listed in `PROJECT.json` with the reason each is left out.

They interact through three things: the staging store (phase 1 writes a version, Pass A and B read
pages of it), the callbacks `onBatchResult` and `onACLineBatch` (Pass A and B hand results to
`hjsonimport.Run`, which persists them), and the model tables, in particular nodes that two
stations, or a station and a cable, both name.

## 2. Modules

| module | models | role |
|---|---|---|
| `StationImport` | what `RunPassA` promises | abstract specification |
| `PassAPool` | `RunPassA`, its feeder and workers, and the writes of `onBatchResult` | state machine; implements `StationImport` |
| `PassAPoolProofs` | - | theorems about `PassAPool` |
| `ModelStore` | the SQLite tables, the id cache, `PersistBatch`, `DeleteContainers`, the readers | state machine |
| `ContainerResolution` | the container of every equipment, by the batch walk and by the whole scan; the KVS rule | operators over a staged source |
| `StationTopology` | `ProcessStationBatch`: containers, Terminals to groups, the checks of a batch, flags; the cables' rows | state machine over every small source, in every batching; uses `ContainerResolution` |
| `StationTopologyProofs` | - | theorems about `StationTopology` and `UseCases` |
| `Tables` | rows put over rows of the same keys | operators shared by the stores, the topology and the exporter |
| `UseCases` | `ElectricallyConnected`, `GetSchaltkreis(e)`, `StationSubgraph` on the stored model | operators; extends `StationTopology` |
| `ModelStoreProofs` | - | theorems about `ModelStore`, `ModelCopy` and `ModelExchange` |
| `ACLineChains` | Pass B | state machine with a pool of build workers |
| `ACLineChainsProofs` | - | theorems about `ACLineChains` |
| `HJSONWatch` | the watch loop and the users of the tree | state machine |
| `HJSONWatchProofs` | - | theorems about `HJSONWatch` |
| `ImportPipeline` | `hjsonimport.Run`, phase 1, `FinalizeImport`, the metadata record, `PruneRemoved` | state machine over many runs of one database |
| `ImportPipelineProofs` | - | theorems about `ImportPipeline` |
| `PostgresStore` | the PostgreSQL tables under concurrent workers | state machine, a statement per step |
| `PostgresStoreProofs` | - | theorems about `PostgresStore` |
| `ModelCopy` | the paged readers and `dbmigrate.CopyModel` | state machine |
| `Fachmodell` | names, keys and local forms that exporter and importer share | operators |
| `HJSONExport`, `HJSONImport`, `ModelResolve` | `Build` and the rules of `Write`; `Check` and `Emit`; what Pass A and B make of the staged objects | operators |
| `ModelExchange` | copy, export, edit by hand, check, import, second export | state machine; composes the five modules above |
| `NSCTopology` | `BuildTopology` of jag2nsc | state machine, the recursion as an explicit stack |
| `NSCTopologyProofs` | - | theorems about `NSCTopology` |
| `MC...` | instances for TLC | |

### PassAPool

The feeder's program counter `feed` runs through `feedRootBatches` for the two classes: `GetPage`
(one call of `GetByClass`: the next `ChunkSize` ids after the cursor), `EmitFull` (a send while
`BatchSize` ids are pending), `NextPage`, `EmitRest`, `EndClass`, `CloseBatches`; `PageFails` is the
error return. `pending` is the interval `sent+1 .. afterID`, ids being numbered in cursor order. A
worker receives a batch, makes the writes of `ProcessStationBatch` and of `onBatchResult` one
after the other (each a transaction of its own, or several: a failing write may have committed part
of the batch) and, on an error, reports it and leaves. `Return` is `wg.Wait` and the two reads of the
error channels. What is computed for a root is abstracted to "its rows of table t".

### ModelStore

`db` has one field per table. A transaction is a function on `[db, cache]`; `Commit(u)` applies the
next one of a unit's batch, `Rollback(u)` drops its table changes but keeps what it put in
`entityIDCache.byID`. SQLite's `writeMu` makes a transaction atomic, so steps of different units
interleave between transactions only. `Reopen` is a process ending at any point. `DeleteContainers`
follows `container_delete.go` statement by statement and is enabled only before the process has
batched anything, as `PruneRemoved` is. `PersistBatch` is the alternative used by `cmd/phase2check`.
Attribute values and geometry are left out.

### ContainerResolution and StationTopology

A source `src` is what phase 1 has staged: a tree of objects that may become containers
(`Substation`, `DistributionBox` - a Substation with that PSRType -, `Building`, `VoltageLevel`, `Bay`,
`Feeder`, each with the one reference that places it) and a sequence of equipment with its class, its
`EquipmentContainer`, what it is a satellite of, and the nodes of its Terminals. Equipment and nodes
are numbered in ID order because the code sorts and takes minima. References may dangle.

`ResolveBatchContainers` walks backward from a batch of roots as `pass_a.go` does: VoltageLevels,
Feeders, Bays, what is installed in them, busbar sections into a busbar container (one per
VoltageLevel, or one per base ID where there is none), satellites to their connection, then the rest.
`BuildContainers` is the forward scan of `container.go` that the comments name as the reference.
`ProcessStationBatch(B)` does the walk for a batch, gives the sections their role, splits the batch by
`StationOwnerOf` and runs `ResolveTerminals`, `MergeJunctionNodes`, `MergeBusbarSectionNodes`,
`BuildNodesAndEdges` and `BuildElectricalGroups` station by station; it persists and appends what
`checkStationConnectivity` and `checkKVSNoTransformer` report. `RunPassB` adds the cables without any
renaming. A switch is open or closed as the import leaves it. The union-find is modelled by what `find`
returns for each node: a union gives all that had one root the other's, and path halving, which moves
parents but no root, does not show. Both merges rename with `ToSmallest`: the code lets a later group overwrite an
earlier one, but no node is in two groups, by `SourceAssumption`.

`SourceAssumption` states what the checks assume of a source: it is finite; a ConnectivityNode carries sections of
one busbar; satellites of one connection agree on their container, which is in the station of the
connection (the code takes the first in map order, so a source in which they disagree has no defined
result); the sections split from one busbar are where it is (they are copies of it); cables name a Line,
never a station; no node has the ID of an equipment, since the IDs of CIM objects are unique.
`NameAssumption` says the same of the IDs the code makes up (`busbar:` and a base, `__pass_b__`).

The batch walk and the whole scan differ in one place, which `ContainersMatchWhole` allows by name: a
busbar section drawn in a Bay or a Building. The whole scan reports an anomaly and places it nowhere;
the batch places it there like any equipment, so it is not a node and gets edges, although a comment
of `pass_a_pipeline.go` says the sections of a batch are exactly its nodes. Equipment that names a
container that does not exist is missing from both; only the whole scan, which no import runs, tells.
Where a busbar merge renamed a node, a cable keeps the old one: this is in the model, as in the code,
and no property says otherwise.

`MarkFlags` is part of `ProcessStationBatch`; `CheckInvariantsFlagged` is what is reported from the flags
at the end, `CheckInvariants` the scan it replaced. Pass A marks every equipment of its batch as
installed and as contained, so the flagged check for equipment without a container has nothing to
report of Pass A; equipment of a container that no batch reaches is not marked at all.
`FlagsSeeWhatIsBuilt` names these exemptions. The flagged check also reports nodes that only Terminals
of equipment of which nothing is built name; the scan does not. That includes a section of three Terminals
in a Bay: as it is no node there, it is an anomaly and none of its Terminals is marked. One of the trees has it.

### UseCases

The queries read the rows that `StationTopology` stored, and a function `ov` of overridden switches.
`GetSchaltkreise` and `StationSubgraph` ask for nodes by equipment ID, as the code does, and find none:
the run `islands` is about that. `BuildCircuits` names a circuit by its union-find root, as the code does;
comments (`electrical.go:89`, `Circuit.ID`) say the smallest node ID. No property speaks of names.

### ACLineChains

`Seed`, `Expand`, `EndRoute` are `discoverACLineChainsStreaming` and `discoverRawACLineComponent`;
`StartBatch`, `Claim`, `Build` are the parallel build with its shared index; `Emit` merges, marks
flags and persists a batch under the owner `__pass_b__#k`, or adds to the result when there is no
callback (`batchSize = 0`); then boundary equivalents, standalone Junctions and the rest. A failing
write leaves the tables written before it. Container IDs are segment numbers; 0 is none.

### HJSONWatch

Users write, remove and move; the kernel queues an event when the directory is registered and the
queue has room; the loop walks, handles one event or one tick at a time, and imports file by file.
A directory holds at most one file, whose content is the number of the edit. `missed` and `blind`
record that the kernel could not tell the loop about a change, or that a walk was cut short.

### ImportPipeline

One database over many runs. `run.pc` goes through `Run` in its order: reset (or keep), a new
version, one reading of the tree (`Emit`), batches into the staging tables, the parse errors that
abort before phase 2, Pass A station by station in any order, Pass B cable by cable, flags, staged
version, metadata. `Stops` is a failing step or a killed process at any of these points, and
`PersistStation(s, k)` with `k` below `AllTables` is a station whose write of table `k + 1` failed;
the next `StartRun` is the rerun. `EditTree` changes the documents at any time, so the tree a prune
looked at and the tree the next run reads may differ; `hist.pruned` holds the tree the database was last
pruned for, or none once a run read another one.
The variable `hist` is history only: no action reads it. What Pass A and B compute is reduced to the
rows of an item, because the other modules model it. `Vacuum` changes no row and is a point where
`Stops` may occur.

### PostgresStore

A worker's batch is a sequence of transactions (one with `PersistBatch`, the mode `"batch"`; one per table
as in `hjsonimport.Run`, the mode `"tables"`), a transaction a sequence of statements, and a statement is
one step. What PostgreSQL does is modelled from the statements in `pkg/postgres` and
marked external in the map: a row that an open transaction wrote makes another writer wait; a cycle of
waits aborts one of its transactions; a foreign key sees committed rows and those of its own
transaction. The rows of a batch are its own; nodes, flags and the two dictionaries of ids are shared.
`entityIDCache` and `attributeKeyCache` keep an id when the transaction that drew it is rolled back, and give
it to other workers before it is committed. Kills, outside faults, prunes and second imports of a changed
source occur at any statement. `shown` (what the last successful write of a batch stored) and `lost`
(a rollback has happened) are history.

### ModelCopy

A page is `BatchSize` rows of a table in owner order and the rest of its last owner's rows; the next one
starts after that owner. `CopyModel` goes through seven tables and writes each page with the store's
upsert, whose key differs by table (`Slot`). A kill loses the cursor and keeps the rows; the next copy
starts at the first table.

### Fachmodell, HJSONExport, HJSONImport, ModelResolve and ModelExchange

An ID is the sequence of its parts between dashes, so shortening a name to its local form and resolving
it are sequence operations and can go wrong as in the code. Values carry a tag that tells what they are
in Go (a string, a string that reads as a number, a float, ...), because conversions depend on it, and a
number is `n * 1000^e`. A tree is a function from paths to files. `Build` gives each root
container a file; folds a cable whose ends lie in one station into the station's file; turns satellites
back into the fields they came from; and writes at each node which files meet there. `Emit` is its inverse
by way of staged objects; `Resolved` is phase 2 in short: every busbar has one node and every cable one
segment here, because merges and routes are the subject of `StationTopology` and `ACLineChains`. A
cable container has the ID of one end of its segment behind `acline:`, which stands for the hash of the code.
No more than ten satellites of a kind occur: from the eleventh on their order is that of strings.

`Essence` is what of a model must survive. It leaves out what the code loses or renames: a
`Switch.ratedCurrent` comes back under the class of the switch, `AnalogValue.value` as a
`DiscreteControlLimit`; a schedule without a name gets one; a Junction in a cable container is written
as a segment without ends; a measuring block without content vanishes; bays of a house, and equipment
that sits in a cable without being a segment, are left out without a message; a segment without
attributes vanishes; a distribution box becomes a Substation, which a comment admits; a
second `Boundary.hjson` counts as a duplicate. The sources of the run contain none of these but the box.

### NSCTopology

`todo` is the stack of the recursion: a step takes its first branch and puts what the call of `step` would
do, in that order, in its place. A branch carries the cables and named Terminals so far, as
`branchState` does. A Terminal is an equipment and its number; the number 0 is the row a switch or a joint has for
the whole equipment. In a network with a ring of cables, switches and joints that passes no busbar, transformer or house
the recursion never ends (`RingFree` excludes these networks, and `RingFreeSpec` is the walk of the others).

The package comment makes two claims that the code does not keep. "A busbar-to-busbar walk that would be discovered a
second time from the opposite direction is only counted once" (`topology.go:31-33`): a way from a busbar back to
itself is recorded from both its ends, because `complete` skips only what ends at a busbar that was done before. "Every
ACLineSegment encountered along a walk contributes one line_segment row" (`topology.go:24-25`): a branch that ends at
equipment with one Terminal outside a house is dropped with its cables. `ConnectionsAreWays` takes neither as right: it counts
only ways between different equipment (`Ways`), asks that a way back is not missed (`Loop`), and expects
nothing, neither a row nor its absence, at equipment with one Terminal outside a house. The claims are stated as `CountedOnce` and
`EveryCableContributes`, and section 4 proves in which networks each fails.

## 3. What TLC checks

Each run asks one question. Model sizes are distinct states.

| run | shows | bounds, and why they are enough |
|---|---|---|
| `pass_a` (1.28M) | each root once, rows in dependency order, `RunPassA` implements `StationImport`, it returns whatever fails, the feeder ends unless all workers failed | 5 substations and 7 buildings, pages of 5, batches of 2, two workers: the first class ends with a full page and an empty one, the second with a short page, a batch straddles pages; seven batches are more than the channel (four) and two failed workers can hold, so that the feeder can block for good; any write and any page fails |
| `model_store` (535k) | no dangling reference, every edge found from its nodes, a prune takes nothing of others | three units (two stations that share a boundary node, a Pass B line on a node of the second; the first station's source has two versions), three batches, prunes, rollbacks and reopens between |
| `station_topology` (7448 sources, 42k) | the batch walk finds the containers of the whole scan; the flags see what is built; groups and circuits are the paths of a switching state; merges join exactly the busbars; a batch of two stations gives what two batches give | two families of sources. Graphs: two stations that share two nodes, two sections (of one busbar or two, with one to three nodes each), two further pieces of equipment of any class at any nodes, one cable, so that chained renames, overlapping merges and the ground node all occur; every override of the switches. Trees: a station, a KVS, a house, a VoltageLevel that dangles, split sections, a connection with two satellites and a transformer in each place, and in none |
| `islands` (violation) | the connectivity check, `GetSchaltkreise` and `StationSubgraph` find no node | the graphs above |
| `acline_chains` (73k) | routes are components, batching and workers do not show, nothing is dropped, it ends | two build workers, batch sizes 0 (collect), 1 and 2; four segments on six nodes with chains, rings, a self loop, branches, segments with no, one or three Terminals, two Junctions on, between and off the cables, a boundary equivalent |
| `hjson_watch` (444k) | a change the loop was told of is imported at last, directories stay watched, it comes to rest | a root, a directory in it and two in that one; three edits, a queue of two so that it overflows |
| `import_pipeline` (1.3M) | a rebuild leaves exactly its documents, prune and incremental run restore them, the metadata means a complete model and counts the successes | three runs or prunes, four trees with a bay, moved equipment, cables that come and go, a document that does not parse, an adopted number; records do not divide by the batch size |
| `postgres_store` (231k) | what readers see of a batch is one view of it, whole; the ids an edge needs are committed; every run ends | two workers; two stations that write two shared nodes in opposite orders, a Pass B line; the first station's source has two versions; two runs, both modes, a prune, one outside fault or kill at any statement. Two workers and two rows are what a deadlock and a stale id need |
| `pg_uncommitted` (violation) | a worker takes an uncommitted id out of the cache | the same |
| `model_exchange` (9270) | a copy that was killed and started over is exact; export and import yield the model again; a checked tree imports without an error, edited or not; the comments in the files lead to the files they name | pages of two rows, so that owners straddle them; a new and an older target; one kill; three models with a bay, a busbar of two sections, a meter with two schedules, an inverter with steps, a cable folded into its station, a distribution box, a house, cables between them and an injection at the border; one edit of each kind (move, copy, spoil, drop a class, add connections) |
| `second_export` (violation) | the second export differs from the first | one model with a route, busbar points, a power, and a file moved two directories deeper |
| `nsc_topology` (127k) | the walk ends, finds each way between different equipment once and from one side, misses none from a busbar to itself, and names the cables, switches and joints on it in order | two busbars with one or two Terminals, a cable, and every choice of two pieces of equipment out of cable, switch, fuse, joint, transformer, consumer and what is in a house, on four nodes, without rings: taps, dead ends, ways from a busbar to itself and between the two |

`CHECK_DEADLOCK FALSE` stands where the system may stop: when the bound on runs or edits is used up
(`ImportPipeline`, `HJSONWatch`), and when the algorithm has ended (`ACLineChains`,
`StationTopology`, `ModelExchange`). The others are checked
for deadlock; a returned `RunPassA` is the stuttering action `Returned`.

### Fairness

- `PassAPool`: weak fairness of the feeder's, each worker's and the caller's steps. Each is a
  goroutine whose next step, once enabled, stays enabled, and the Go scheduler runs it. A blocked send
  or receive is not enabled. Whether a write fails or succeeds is not subject to fairness.
- `ACLineChains`: weak fairness of the main goroutine and of each build worker, for the same reason.
- `HJSONWatch`: weak fairness of the loop, of the timer and of the goroutine that sends the tick.
  Nothing is assumed of the users; `SettlesDown` is about the time after their last edit.
- `PostgresStore`: weak fairness of `Progress`, the steps of the workers, the server's abort of a deadlocked
  transaction and the end of the run, taken together: as long as one of them can go on, one does. That is
  less than fairness of each worker and enough, because nothing is retried. Faults and kills are not in it.
- The other modules: safety only.

### Where the code and its documentation disagree

Three runs end in a violation, each of one statement that comments or tests make of the code.
`PROJECT.json` quotes them with their lines; ten findings in all, two of them proved and not from a violation.

- `islands` (`StationNodesSeen`): node rows have ConnectivityNode IDs, and three places ask for them by
  equipment ID. The connectivity check of a station never reports anything, `GetSchaltkreise` fails for
  every busbar, and `StationSubgraph` has no nodes. Unit tests store nodes under equipment IDs and pass.
- `pg_uncommitted` (`NoWorkerFails`): the caches of ids are shared by the workers and filled before the
  commit, so on an empty database another worker's insert can fail on its foreign key although the
  batches share no owner. A deadlock over shared nodes has the same end: nothing is retried.
- `second_export` (`SecondExportSame`): what a second export loses after an import - the points of a route,
  the points of busbar sections, the directories below a region, and a factor 1000 of each power.
- `CountedOnce` and `EveryCableContributes` (`NSCTopology`): a way from a busbar back to itself is recorded from both
  ends, and a cable that leads only to equipment with one Terminal outside a house has no row. The run `nsc_topology`
  reaches both; `CountedOnceUnlessLoop` and `CablesContributeBetween` say exactly in which networks.

Smaller ones, without a run of their own, are hazards in `PROJECT.json` or notes in section 2: an id cached
in a rolled-back transaction; traversal over endpoints of deleted edges; busbar sections that stay
apart when each carries a load; files that were in a new directory before its watch; names of groups and
circuits. Three more: `resolveBoundaryEquivalents` (`pass_b.go:458`) writes the edge of an
EquivalentInjection with the node as staged and calls it identical to Pass A's, which a busbar merge may
have renamed; `checkBayCableCount` is called batch by batch (`consistency.go:150`), and no batch of Pass A holds a
cable to count; `loadRawTerminals` of jag2nsc reads only the highest staged version, which after
a failed incremental run is a part of the grid (`hjsonimport.go:172`).

## 4. What is proved

Ten components have proofs, in eight modules. Each finds a strengthening that is inductive; TLC checked it first, as
an invariant of the component's run. A theorem holds for every value of the constants that satisfies the
named assumptions; the assumptions are evaluated by the component's run as well.

### PassAPoolProofs

For every finite set of workers, any number of substations and buildings, and any page and batch size,
assuming only `PoolAssumption` (the counts are naturals, there is a worker, the sizes are positive; the
code replaces other values by defaults):

- `TypeCorrect`: the type invariant, with the cursor's bounds;
- `RootsOnce`: no root is in two batches, with two workers, or handed out again;
- `OrderKept`: a later table holds a root only if the earlier ones do;
- `PassAImplementsImport`: `Spec => ImplementsImport`, the refinement of `StationImport`;
- `EveryStepCounts` and `AheadIsFinite`: everything the goroutines can still do (`Ahead`: the feeder's pages and sends,
  the roots to take, the writes to make, the workers to fail, report or exit, the answer) is finite, and every step
  leaves strictly less of it;
- `SomebodyCanAlwaysGo`: unless `RunPassA` has ended as `PoolEnds` asks, the feeder, a worker or `RunPassA` itself is
  free to take its next step.

The last three are what `PoolEnds` says without fairness: the steps are finitely many, and nobody waits on everybody.
`BatchesFull` carries them (a batch has a root, and a worker's roots are in no table it has still to write), so that
every `Receive` takes a new root and every `Persist` makes a new write.

The argument goes bottom up: `TypeOK`;
`FeederInv` (a class is left at the end of the cursor only, so a close without an error means that all
was sent); `WorkerInv` (a worker that left normally saw the channel closed and empty, its error is in
the channel exactly when it failed); `SentIsKept /\ EachRootOnce` (a root sent is persisted, in a
worker's hands or in the channel, and in one place only); `WritesDone` (a worker
at write k has made the earlier ones), from which `RowsInOrder`. With these each step maps to a commit, a
return or a stutter of `StationImport`. The lemmas `EmitSends` and `TailShifts` hold the facts about the
channel's sequence.

### ACLineChainsProofs

For any networks, finite or not, any batch sizes and any set of workers, assuming `PoolAssumption` (there is a
worker, batch sizes are naturals) and `SourceAssumption` (the ID of a segment is no Junction's and no
boundary equivalent's; no node has the reserved IDs):

- `ACLineTypeCorrect`: a stored edge has its equipment and its nodes stored, routes are disjoint;
- `RoutesFound`: two segments with usable Terminals are in one route exactly when nodes join them;
- `BatchesDoNotShow`: batching, the number of workers and the order of their results do not show;
- `NothingIsDropped`: groups, containers and flags are complete when Pass B is done;
- `EveryStepCounts`: every step of `RunPassB` and of its workers leaves strictly less ahead (`AllAhead`: segments to
  claim, to place, to hand out, to build and to store, nodes a route has still to query, workers to leave, the last
  stages), and a failure leaves nothing; `AheadIsFinite`: for finitely many segments and workers that is finite, so the
  steps are finitely many. The invariant added for it is `Fresh`: a route queries no node twice, and no two
  workers have the same route nor one that is built.

`Inv` says of the search (`Searched`) that what was found is closed and undivided: no segment outside a route
touches it, and no set of nodes cuts it in two (`Closed`, `Undivided`). The second is what
makes the proof possible: reachability would need an induction over paths, a cut does not. `Pooled` relates
the shared index to the results; `Stored` says that exactly the first `start` routes are in the
store or in the result, `Named` which container a node leads to, and `Grouped` and `Told` the same of groups
and flags. The subtle part is `MergeNames`: merging the node maps of the batches in any order gives each node
the least container, because the least of a union is the least of the leasts (`MinOfUnion`).

### ModelStoreProofs

For any units, views and number of batches, assuming `StoreAssumption` (units have containers
and group owners of their own; a view has finitely many edges and one for each piece of equipment):

- `TypesHold`, `ReferencesHold`: keys are unique, and no edge or group refers to a node that is not stored;
- `EdgesAreFound`: until a rollback, an edge is found from each of its nodes and no other, and
  what edges connect is reached;
- `OthersAreKept`: a prune changes nothing of the containers it was not given (an action property).

`StoreInv` has the tables (`Sound`), the references (`Refs`), what a unit under way has written (`Batches`: its
nodes before its edges), and, until a rollback, that the cache and the endpoint rows tell the truth
(`CacheTrue`, `EndpointsTrue`). That last restriction is the code's: `entityIDCache` keeps ids that a rollback
took away, a hazard of its own in `PROJECT.json`. `ResolveIs` says what `resolveMany` adds, `DeleteIs` what the
statements of `DeleteContainers` leave, one after the other.

`ModelCopy` is a state machine of its own. For any tables whose pages come sorted by owner, any page size, any content of the
target and any number of kills, assuming `CopyAssumption` (the owners' order is strict):

- `CopyIsExact`: a finished copy holds each row of the source, nothing else under the same keys, and
  has changed nothing else.

`CopyInv` says what an unfinished copy has done: the target holds rows it had and rows of the source; what
has no counterpart in the source is untouched; and every row up to the cursor is settled, which means it is
there and only rows of the source share its key. The core is that a page ends with an owner
(`PageReachesItsLast`, `ShortPageIsLast`), because an upsert of half an owner's values would delete the others.

Of `ModelExchange` these are proved:

- `PagesReadEveryRow`: reading page by page, as `Load` does, returns every row of a sorted table, for any page size;
- `CheckedTreesImportClean`: whatever the edits, Emit neither gives up on a tree that Check found clean nor
  records an error;
- `ExportedRefsLead`: for every model that is `Exportable`, the comments at the nodes of its files lead to exactly
  the files of the other kind at that node;
- `RefsAlwaysResolve`: `RefsResolve` as an invariant, of the first export for any sources and targets whose copies
  are exportable (`ExportAssumption`), of the second one as long as the imported model is exportable.

- `ExportPassesCheck`, and as an invariant `ExportedTreesImportClean`: Check finds nothing in the files of an exportable
  model if and only if the model is `Importable`, and then an import takes all of them;
- `WrittenComesBack`, `AttributesSurvive`: what the exporter writes of attributes (keys without their class, numbers as
  such, defaults left out) the importer undoes, if they are `Storable`;
- `EquipmentComesBack`, `SegmentsComeBack`, `BorderComesBack`: each piece of equipment of an importable model is staged
  again, with its class, attributes, ends and container;
- `ModelSurvives`, and as an invariant `ImportedModelKept`: the imported model has the same stations, houses and bays,
  and the same place, edge and attributes of every `Recorded` piece of equipment, if no ID is staged twice (`Distinct`).

`Exportable` says what the code takes for granted of a model: root containers and nodes have IDs, a cable container
has one that starts with `acline:`, an edge has two ends, and what has an edge stands in its root or in a bay of it.
TLC evaluates `ExportAssumption` for every source and target of the run; that what was imported is
exportable again is a hypothesis of the theorem: it would follow from the IDs of staged objects being unique through
every edit, which no model of the code promises. `Exportable(model)` was found true in every state of the run.

The invariants are short (`CheckedInv`, `UntouchedInv`: an untouched tree is what `Build` made of the loaded model, and
that model a copy of a source, by `CopyInv`). The work is in `ExportedRefsLead`. A comment says how many directories to
go up and which to go down; `RefIsFollowed` shows that from the file it stands in this leads to the file meant, since
what `SharedPrefix` cuts off is what it puts back. `NameIsUndone` says that a shortened node name is resolved to the
node, for all but names that look like local ones. `DocumentTouches` says which nodes a file names: those of the equipment that
stands in its root, in its bays or in a cable folded into it (`StandsInItsFile`, `FoldedGoesToStation`,
`EquipmentTouches`, `SegmentTouches`). `FilesOfBuild` says which roots have a file, and `FilesApart` that no two share
one: their kinds put them into other directories and their IDs tell them apart. From these, `FilesAtNode`: what the exporter
looks up at a node, through the folding, are the files that name it.

`Importable` is what Check asks, put as a condition on the model: each file lies in a region, only cables lie between
the regions, no two files have the same ID, and what is listed with its class has one. One part of it looks like a
restriction: border equipment of two regions makes two `Boundary.hjson` (`build.go:189-191`), two files of one ID, and
the importer skips both. No import makes such a model, since only stations get a region
(`pass_a.go:225-232`). `Storable` asks for attributes as the staging tables store them (strings, under keys
with a class) whose shortened keys belong to the class the importer supposes; `Recorded` adds an ID, and that
the class is kept as an attribute. `Distinct` is a hypothesis on the staged objects: owners' numbers are
appended to IDs, and nothing in the code keeps somebody else from having such an ID. TLC finds all models of the run
`Exportable`, `Importable` and `Distinct`, and five or ten pieces of equipment in them `Recorded`, of all three kinds in the larger ones.

The argument goes field by field. `FilesAreTaken` says an import skips no file; `EntryIsStaged` and `SegmentIsStaged`
follow one entry from `Build` to its staging object: `NameIsUndone` gives the IDs, `EndsAreWired` the ends (an edge to
`GND` is written with one end), `AttributesSurvive` the attributes. Because IDs are distinct, `Find` finds this object
(`TheOneFound`), so `Containers`, `Equipment`, `Edges` and `Attrs` say of it what it says
(`ContainersComeBack`, `AttributesAgain`, `EdgeAgain`, `EquipmentAgain`).

### PostgresStoreProofs

For any workers, batches, views, runs and faults, assuming `PostgresAssumption` (there is a worker,
each batch has a version), `ViewAssumption` (a batch is a finite list that names every node its edges use, and one
edge per piece of equipment, as `nodeedge.go` builds it) and `NameAssumption` (nodes, equipment and keys have
IDs of their own; two batches have no equipment and no owner in common, which
`pkg/postgres/model.go:197-203` relies on):

- `TypesHold`: no row is locked by two transactions, an id was issued by a run that took place;
- `LocksSuffice`: when a `PersistBatch` writes its edges, the ids they refer to are visible to it;
- `BatchesShowWhole`: readers see of a batch exactly the view stored last, and after a successful
  run the current one.

`Inv` (`TransactionsInvariant`) says that a worker's statements, those made and those ahead, are in
an order in which each finds what it needs (`Orderly`, `Needs`: names are resolved before rows refer to them;
`PersistBatch` locks a node before it resolves its name); that an id in the cache is that of a committed row, of a row
that one open transaction inserts, or of one that was rolled back (`Ids`); and that written rows refer to visible ids
(`Referred`). `LocksSuffice` follows: the lock on the node was held by whoever inserted its id, so
that transaction has ended. `ReadInv` (`ReadersInvariant`) adds what readers need: each statement
that a batch requires is ahead of its worker, in its open transaction, or stored (`Work`); groups are
written last; a finished batch shows its view, and only a failure loses one (`Outcome`); and what a batch shows is
exact (`Exact`). Its core is that a commit, a prune or a rollback of one batch leaves what readers see
of any other as it was (`CommitOthers`, `DeletedOthers`, over `RowsStay` and `AttributesStay`).

### HJSONWatchProofs

For any finite tree of directories, any number of edits and any queue, assuming
`TreeAssumption` (the directories are finitely many, every one but the root has a parent, and all are
below the root):

- `WatchTypeCorrect`: one tick in the channel, no more goroutines that wait to send than edits, and a pending
  change has a tick coming;
- `NoticedImported`: at rest, every change the loop was told of is in the store;
- `DirsStayWatched`: every directory is registered or announced unless a walk was cut short.

The invariant `WatchInv` has five parts. `NoticedChangesImported` speaks of the loop at rest; to be kept
by a step it must say of every moment why a stale content will be read again: `ContentCurrent` (what is in
the store, or already read by the import under way, is current, was never told of, or an event or a tick for
it is under way). `EveryDirWatched` needs the same of a walk: `DirsCovered` (a directory is registered,
announced, or ahead of the walk), which in turn needs `TreeWhole` (a directory exists only in one
that exists). `TicksCounted` bounds ticks and events by the edits. The lemmas are about `Below`:
antisymmetric, transitive, closed under children.

### ImportPipelineProofs

For any set of trees whose items are finitely many with unique IDs, and in which no document of a station
or cable lies in another (`TreeAssumption`), any batch size and any number of runs, failures, kills
and prunes:

- `ImportTypeCorrect`: rows are whole at every moment, after a prune and after a write that stopped at any table;
- `StagedCorrect`: phase 2 finds exactly what the import has read;
- `RebuildCorrect`: a rebuild that succeeds leaves exactly the model of the documents it read;
- `ApplyCorrect`: an incremental run after a prune for the same documents ends with exactly their
  containers, and every station and cable whole;
- `MetadataCorrect`: the number counts the successes, and stands for a whole model.

`PipelineInv` adds to the types: a version under way is issued, and no row has one that is not
(`VersionsIssued`, so a new version has no rows yet); what is staged under it at each phase
(`StagedSoFar`: nothing, the records sent so far, all that parsed); and that phase 2 works on staged roots
(`RootsStaged`), without which the rows of a root might name a container that is not among them
(`RowsOfWhole`). `WriteKeepsWhole` says it for a write that ends after any table, `DeleteKeepsWhole` for the
prune, `BatchFollows` that a batch and what was sent before it make up what is sent then. `FullInv` adds
`Contents`: the model has the rows of every root done so far and, in a rebuild, no others (`ModelBuilt`);
roots are done in order and the number of the next cable batch is that of the cables done (`InOrder`, without
which two batches might own the same groups); a rebuild starts from nothing (`StoreFresh`); and the
metadata counts (`Counted`). `DoneRoots`, the roots done at each point of a run, is what ties them together.

### StationTopologyProofs

For any set of sources, with any trees and any equipment, and for every way of batching the stations, assuming
`SourceAssumption` and `NameAssumption` (above):

- `TypeCorrect`: edges start and end on stored nodes, one per equipment; what is placed is in a stored container;
- `BatchesMatchWhole`: the batch walks together find what one scan of the whole model finds;
- `BatchingDoesNotShow`: the rows of a station are what it yields alone;
- `FlagsSeeBuilt`: the flagged checks miss no unused node, and report besides only nodes of which nothing is built;
- `BarsAreUnified`: two Terminals get one node only if they shared one or are at sections of one busbar, and what
  touches a busbar is connected by the built edges, in a station with nothing on the ground node;
- `ConnectionsArePaths`: `ElectricallyConnected` says what a path of closed switches joins, through all stations;
- `CircuitsArePaths`: whichever switches are thrown, circuits are what a path joins that crosses no transformer, no
  open switch and not the ground, and only those two kinds of equipment touch two circuits.

The proofs first say of a source, without any batch, what the walk and the scan both have to find: where an
object hangs (`RootAbove`), the station and container of equipment (`StationOf`, `ContainerOf`), the containers
(`Containers`, each with one `Owner`). `BatchPlaces` and `BatchContainers` show that the walk of a batch finds
exactly the part of this that its stations own, `ScanFinds` and `ScanPlaces` that the scan finds all of it, save the
sections it calls anomalies; `OneContainer` that an ID names one container, without which `stationOwnerOf` might give
equipment to another station. From these, `BatchTopology`: the graph of a station does not depend on the rest of
its batch. The invariants (`Placed`, `Built`, `Drawn`, `Flagged`) then say that tables, reports and flags hold what
belongs to the stations done so far, and to the cables once Pass B has run. For these the union-find need not be
opened: any two batchings call it with the same pairs.

The last three theorems do open it. `Joins(root, N, Q)` says what a union-find over `N` owes the pairs `Q`: the ends of
each pair have one root, a root is its own root, and no set of nodes that `Q` does not leave (`Undivided`) parts a node
from its root. `UnionJoins` shows that one union adds one pair to `Q`, and `UnionFindJoins` that the loop adds them all:
were there a first round that fails, the round before would not. `ReachIs` says the same of paths, the least undivided
set around a node; `RoundsEnd`, that a set that grows in each round inside a finite one has stopped after as many
rounds as it has elements, also ends the expansion over shared nodes in `ElectricallyConnected` (`ExpandIs`). `Grouped`
adds to the invariants whose groups are stored. For the merges, `JunctionsAre` and `BusbarsAre` say which nodes get one
name (`NewName`): `SectionsApart`, from `SourceAssumption`, keeps two busbars from meeting at a node. `BarHolds` covers
the busbar that is not merged, since its sections are in one component already: a set that the edges under their final
names do not leave is, read back through the second merge, one that the pairs of its union-find do not leave.

The proof corrected a property: `FlagsSeeWhatIsBuilt` had counted
a section of three Terminals in a Bay as built (see above).

### NSCTopologyProofs

For any equipment with any Terminals, as long as nodes and equipment form no ring that passes no busbar, no
transformer and no house (`RingFree`), and assuming `SourceAssumption`:

- `TypeCorrect`: no branch passes a piece of equipment twice, and no connection names a Terminal without a row;
- `ConnectionsAreTheWays`: when the walk is done, each way from a busbar to an end of other equipment is one connection,
  found from the first of two busbars; a way back to the busbar itself is not missed; no connection joins what is
  apart; and each names the cables on the way, in their order, and the switches and joints, and nothing else;
- `CountedOnceUnlessLoop`: no two connections are each other's reverse, as `topology.go:31-33` says, in the networks
  where no way leads from a busbar back to itself, and in no others;
- `CablesContributeBetween`: each cable joined to a busbar is on a connection, as `topology.go:24-25` says, in the
  networks where each of them lies before a further busbar, a transformer, a house or an end of the line, and in no others;
- `EveryStepCounts`, `AheadIsNumbers`: each step of the walk leaves fewer ahead, and what is ahead is a list of
  numbers, which cannot become fewer for ever (the lemma `FewerEnds`, about such lists and not about the walk).

`step` keeps no set of what it visited: that it turns back over no Terminal is all that keeps it from running for
ever, and it suffices only without a ring. So the proof is about the graph first. `JoinedTo(n, E)` is the least set of nodes
around `n` that equipment `E` does not leave, and equipment lies on the way from `s` to `m` (`OnWay`) when without it
they are apart. `Apart` says that without a ring each conducting equipment is a bridge: the rest does not join two of its nodes.
Were it not, take the fewest Terminals that link the two (`FewestLink`): each has another one of them at its equipment
and, save at the two nodes, another at its node (`FewestAreShared`), so that with the two Terminals they make a ring. From
`Apart`, `PassAdds`: to pass what is not on the way yet puts it there and changes
nothing else; so what a branch has passed is what its end is apart without (`Carries`), and nothing twice. `Fan` is the
converse: what a node, or a joint, leads on to is beyond exactly one of the equipment that goes on from it, so that the
branches `step` makes part the ends among them (`AfterLeads`, `FirstLeads`), none left out and none twice.

`Inv` has five parts: the graph is the same and has no ring (`Graph`); busbars are done in their order (`Order`), which
is why the second of two skips the way that the first one found; branches and rows carry what is on
their way, and rows end where a walk may end (`WalkSound`) and name Terminals that have rows (`RowsThere`); and from each busbar begun, each
end wanted is in one row or ahead of one branch, not in both and not in two (`EachOnce`). A step replaces its branch by
others that part what it led to, or by the row it ended at, or, at a wrong end, by nothing, where it led to nothing.
`FoundOnce` reads off what is there when the walk is done; both claims of the package comment are settled from it.

For the end of the walk, `Ahead` lists the number of busbars to begin and then how many branches have passed no, one, two and
more conducting equipment; of two lists the first difference decides (`Fewer`). A step takes a branch away and puts in its
place any number of branches that have passed one more (`AfterIsDeeper`, `HeadIsPassed`), and none passes more than there is (`DepthIs`).
`FewerEnds` is the well-foundedness of that order, number by number: each settles once those before it have (`Settles`).

### What the proofs rest on

Several need that a set of naturals has a least element (`LeastExists`, from the well-founded
order of the naturals), which also stands in for induction: were there a number for which a fact fails, there
would be a least one. `Over` and `Put` (`Tables`) replace `@@` and `:>`, which the provers
cannot expand, in every definition a proof looks into.

### What is only model-checked

- All liveness (`RunPassA` returns, `ACLineChains` ends, `SettlesDown`, `RunEnds`, the feeder): the prover has
  neither `ENABLED` nor fairness. For `PoolEnds` only the use of fairness is left to TLC: that the steps are finitely
  many and that somebody is always free to go are theorems of `PassAPoolProofs`. For `Ends` of `ACLineChains` the
  steps are finitely many by `EveryStepCounts` and `AheadIsFinite`; that no goroutine is stuck is left to TLC as well.
- `RoundTripKeeps` as a whole. Proved of it, under the hypotheses above: nothing is reported on the way
  (`ExportedTreesImportClean`), and stations, houses, bays, members, edges and attributes are kept
  (`ImportedModelKept`). Left to TLC: satellites, busbars and their sections, points, the names and regions of containers, and
  that nothing additional appears in the imported model. Satellites are folded by a walk over an order of staged
  objects, and `Load` sorts rows by a fold over a set: both would need an induction over data.
- That the walk of `NSCTopology` ends is proved but for the last step: that no behaviour takes infinitely many walk
  steps follows from `EveryStepCounts` and `FewerEnds` by choosing the sequence of its states, which is no formula of
  the prover.

## 5. What is left out, and the plan

Left out for good: parsing and formatting (HJSON, CIM XML, WKT geometry), progress output, the
register import of `pkg/mastr`, downloads, map and geography helpers, the deprecated importer and
exporter, scaffolding, the catalogue. They keep hardly any state, or are pure input and output.

Left out so far:

1. Containers of equipment that names none, over its Terminals, in `ContainerResolution`; the anomalies of a
   whole scan that no import calls.
2. `UpsertAttributes` in chunks (`model.go:1063`): an attribute whose values fall into two chunks.
3. `circuits.go` of jag2nsc, which joins the circuits of `UseCases` over the nodes as staged, and its names
   of devices; device kinds in `NSCTopology`.
4. Coordinates, bounding boxes and counts of both stores; the PostgreSQL staging store.
5. Merged nodes and chains of several segments in `ModelExchange`.

Proofs not attempted: the parts of `RoundTripKeeps` named in section 4.
