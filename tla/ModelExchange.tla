--------------------------- MODULE ModelExchange ---------------------------
(***************************************************************************)
(* A model on its way through files. It is copied from store to store      *)
(* (ModelCopy), loaded page by page and written as a tree of Fachmodell    *)
(* files (HJSONExport), which somebody may edit by hand; the tree is       *)
(* checked or not, imported (HJSONImport, ModelResolve), and the imported  *)
(* model is exported again.                                                *)
(***************************************************************************)
EXTENDS ModelCopy, ModelResolve, HJSONImport

CONSTANTS EditDirs,  \* the regions and subregions a file may be moved or copied to
          MaxEdits   \* bound: edits by hand

Exporter == INSTANCE HJSONExport

VARIABLES milestone, \* "copy" | "tree" | "imported" | "failed" | "exported"
          loaded,   \* the snapshot that was exported
          tree,     \* the files
          edits,
          checked,  \* "no" | "clean" | "findings": what Check said of this tree
          model,    \* the snapshot that was imported
          errors,   \* what the import recorded as errors
          again     \* the files of the second export

exchangeVars == <<copyVars, milestone, loaded, tree, edits, checked, model, errors, again>>

NoModel == [containers |-> <<>>, equipment |-> <<>>, edges |-> <<>>, attrs |-> <<>>, geometry |-> <<>>]
NoFiles == <<>>

----------------------------------------------------------------------------
(* Load: all pages of the five tables an export needs. *)

InOrder(rows, Before(_, _)) ==
    FoldSet(LAMBDA r, sorted : SelectSeq(sorted, LAMBDA q : Before(q, r)) \o <<r>>
                               \o SelectSeq(sorted, LAMBDA q : ~Before(q, r)),
            <<>>, rows)
InQueryOrder(rows) ==
    InOrder(rows, LAMBDA r, q : \/ Rank[r.owner] < Rank[q.owner]
                                \/ r.owner = q.owner /\ r.key = q.key /\ r.seq < q.seq)

\* What the first k pages hold, and the owner the next one starts after, -1 for the end.
Walk(tab) ==
    LET walk[k \in 0..Len(tab)] ==
            IF k = 0 THEN [rows |-> {}, after |-> 0]
            ELSE LET so == walk[k - 1]
                     page == Page(tab, so.after)
                     last == CHOOSE i \in page : \A j \in page : j <= i
                 IN  IF so.after < 0 \/ page = {} THEN so
                     ELSE [rows |-> so.rows \cup page,
                           after |-> IF Short(tab, so.after) THEN -1 ELSE Rank[tab[last].owner]]
    IN  walk[Len(tab)].rows

ReadWhole(rows) == LET tab == InQueryOrder(rows) IN {tab[i] : i \in Walk(tab)}
ByOwner(rows, Value(_)) ==
    [o \in {r.owner : r \in rows} |-> Value({r \in rows : r.owner = o})]
Only(rows) == (CHOOSE r \in rows : TRUE).val
Grouped(rows) ==
    [k \in {r.key : r \in rows} |->
        LET vals == InQueryOrder({r \in rows : r.key = k}) IN [i \in DOMAIN vals |-> vals[i].val]]
Load(store) ==
    [containers |-> ByOwner(ReadWhole(store["containers"]), Only),
     equipment |-> ByOwner(ReadWhole(store["equipment"]), Only),
     edges |-> ByOwner(ReadWhole(store["edges"]), Only),
     attrs |-> ByOwner(ReadWhole(store["attributes"]), Grouped),
     geometry |-> ByOwner(ReadWhole(store["geometry"]), Only)]

----------------------------------------------------------------------------
\* What the program's own models are like: a root has an ID and a list of directories,
\* a cable's ID says so, an edge has two ends, and what has an edge stands directly in
\* its root or in a bay of a station. No node is named like a cable or a local name.
IsList(x) == x \in Seq(Range(x))
InItsRoot(s, e) ==
    LET c == s.equipment[e]
    IN  \/ c \in Exporter!Roots(s)
        \/ /\ c \in DOMAIN s.containers /\ s.containers[c].type = "Bay"
           /\ s.containers[c].parent \in Exporter!Roots(s)
           /\ s.containers[s.containers[c].parent].type \in StationTypes
Exportable(s) ==
    /\ IsFiniteSet(DOMAIN s.containers)
    /\ \A c \in DOMAIN s.containers :
          s.containers[c] = [type |-> s.containers[c].type, parent |-> s.containers[c].parent]
    /\ \A r \in Exporter!Roots(s) :
          /\ r # NoID /\ IsList(r) /\ IsList(Exporter!RegionPath(s, r))
          /\ s.containers[r].type = "ACLine" => r[1] = "acline:"
    /\ \A e \in Exporter!Orphans(s) : IsList(Exporter!RegionPath(s, e))
    /\ \A e \in DOMAIN s.edges :
          /\ IsList(s.edges[e]) /\ Len(s.edges[e]) = 2
          /\ \A n \in Exporter!Ends(s, e) : IsList(n) /\ n[1] \notin {"@", "acline:"}
          /\ e \in DOMAIN s.equipment /\ Exporter!RootOf(s, e) # NoID => InItsRoot(s, e)

\* A finished copy of a source over a target (CopyExact), which is then exported.
CopyOf(s, d) == [t \in Tables |-> Upsert(t, d[t], Whole(s[t]))]
ASSUME ExportAssumption == \A s \in Sources, d \in Targets : Exportable(Load(CopyOf(s, d)))

----------------------------------------------------------------------------
InitExchange ==
    /\ CopyInit
    /\ milestone = "copy" /\ loaded = NoModel /\ tree = NoFiles /\ edits = 0
    /\ checked = "no" /\ model = NoModel /\ errors = {} /\ again = NoFiles

Copy ==
    /\ CopyNext
    /\ UNCHANGED <<milestone, loaded, tree, edits, checked, model, errors, again>>

Export ==
    /\ milestone = "copy" /\ phase = "done"
    /\ milestone' = "tree" /\ loaded' = Load(dst) /\ tree' = Exporter!Build(loaded')
    /\ UNCHANGED <<copyVars, edits, checked, model, errors, again>>

\* An edit makes what Check said of the tree worthless.
Edit(files) ==
    /\ milestone = "tree" /\ edits < MaxEdits
    /\ tree' = files /\ edits' = edits + 1 /\ checked' = "no"
    /\ UNCHANGED <<copyVars, milestone, loaded, model, errors, again>>

Moved(p, d) == [p EXCEPT !.dir = Append(d, DirOf(p))]
MoveFile == \E p \in DOMAIN tree, d \in EditDirs :
    /\ Moved(p, d) \notin DOMAIN tree
    /\ Edit(Moved(p, d) :> tree[p] @@ Without(tree, {p}))
CopyFile == \E p \in DOMAIN tree, d \in EditDirs :
    /\ Moved(p, d) \notin DOMAIN tree
    /\ Edit(Moved(p, d) :> tree[p] @@ tree)
SpoilFile == \E p \in DOMAIN tree : Edit([tree EXCEPT ![p].parses = FALSE])

\* One equipment of a file, wherever it stands, becomes another.
Replaced(doc, q, r) ==
    LET In(set) == IF q \in set THEN (set \ {q}) \cup {r} ELSE set
    IN  [doc EXCEPT !.equipments = In(@), !.bays = {[b EXCEPT !.equipments = In(@)] : b \in @}]
EquipmentOfFile(doc) == doc.equipments \cup BayEquipment(doc)
DropClass == \E p \in DOMAIN tree : \E q \in EquipmentOfFile(tree[p]) :
    Edit([tree EXCEPT ![p] = Replaced(@, q, [q EXCEPT !.class = ""])])
AddConnects == \E p \in DOMAIN tree : \E q \in EquipmentOfFile(tree[p]) :
    /\ q.connects # <<>>
    /\ Edit([tree EXCEPT ![p] =
            Replaced(@, q, [q EXCEPT !.connects = <<@[1], @[1], @[1]>>])])

Check ==
    /\ milestone = "tree" /\ checked = "no"
    /\ checked' = IF Findings(tree) = {} THEN "clean" ELSE "findings"
    /\ UNCHANGED <<copyVars, milestone, loaded, tree, edits, model, errors, again>>

\* Check is a command of its own; nothing makes anybody wait for it.
Import ==
    /\ milestone = "tree"
    /\ IF Aborts(tree)
       THEN milestone' = "failed" /\ UNCHANGED <<model, errors>>
       ELSE /\ milestone' = "imported"
            /\ model' = Resolved(Emit(tree))
            /\ errors' = EmitErrors(tree)
    /\ UNCHANGED <<copyVars, loaded, tree, edits, checked, again>>

ExportAgain ==
    /\ milestone = "imported" /\ errors = {}
    /\ milestone' = "exported" /\ again' = Exporter!Build(model)
    /\ UNCHANGED <<copyVars, loaded, tree, edits, checked, model, errors>>

ExchangeNext ==
    \/ Copy \/ Export \/ MoveFile \/ CopyFile \/ SpoilFile \/ DropClass \/ AddConnects
    \/ Check \/ Import \/ ExportAgain

ExchangeSpec == InitExchange /\ [][ExchangeNext]_exchangeVars

----------------------------------------------------------------------------
(* What of a model must survive its way through files. *)

ClassOf(s, e) == Exporter!Text(s, e, Class, "")
InCable(s, e) == LET r == Exporter!RootOf(s, e) IN r # NoID /\ s.containers[r].type = "ACLine"
\* Sections are named anew, and what is no segment does not survive in a cable.
Kept(s) ==
    {e \in DOMAIN s.equipment : /\ ClassOf(s, e) # "BusbarSection"
                                /\ InCable(s, e) => ClassOf(s, e) = "ACLineSegment"}
Stations(s) == {c \in Exporter!Roots(s) : s.containers[c].type \in StationTypes}
Houses(s) == {c \in Exporter!Roots(s) : s.containers[c].type = "House"}
OfType(s, type) == {c \in DOMAIN s.containers : s.containers[c].type = type}
Bars(s) == {b \in OfType(s, "Busbar") : Exporter!IsExportedBusbar(s, b)}
NodesOfBar(s, b) == {Exporter!Text(s, e, BusbarNode, NoID) : e \in Exporter!EquipmentOf(s, b)}

\* Values that equal their default are left out of a file on purpose.
Shown(attrs) == Restrict(attrs, Exporter!Visible(attrs) \ {Satellite})
Sats(s, e, class) ==
    LET sats == Exporter!OfClass(Exporter!Satellites(s, e), class)
    IN  [i \in DOMAIN sats |-> Shown(sats[i][3])]
OtherSats(s, e) ==
    LET sats == Exporter!NotOfClass(Exporter!BuildSatellites(s, e), {"TimeSchedule", "DiscreteControlLimit"})
    IN  [i \in DOMAIN sats |-> <<sats[i][2], Shown(sats[i][3])>>]
\* A step's limit gets a name of its own on the way.
Limits(s, e) ==
    {Without(a, {Lead}) : a \in Range(Sats(s, e, "DiscreteControlLimit"))}

Essence(s) ==
    [roots |-> <<Stations(s), Houses(s)>>,
     bays |-> [b \in OfType(s, "Bay") |-> s.containers[b].parent],
     bars |-> {<<s.containers[b].parent, NodesOfBar(s, b), Cardinality(Exporter!EquipmentOf(s, b))>>
               : b \in Bars(s)},
     names |-> [c \in Stations(s) \cup Houses(s) \cup OfType(s, "Bay") |-> Exporter!Attr(s, c, Name)],
     regions |-> [c \in Stations(s) |-> Exporter!RegionPath(s, c)],
     members |-> [e \in Kept(s) |-> IF InCable(s, e) THEN NoID ELSE s.equipment[e]],
     edges |-> Restrict(s.edges, DOMAIN s.edges \cap (Kept(s) \cup Exporter!Orphans(s))),
     attrs |-> [e \in Kept(s) \cup Exporter!Orphans(s) |-> Shown(At(s.attrs, e, NoAttrs))],
     satellites |-> [e \in Kept(s) |->
        <<Sats(s, e, "TimeSchedule"), Limits(s, e), OtherSats(s, e)>>],
     points |-> [o \in Stations(s) \cup Houses(s) \cup {e \in Kept(s) : ~InCable(s, e)} |->
        Exporter!OwnerPoint(s, o)]]

\* A model that goes through unedited files comes back: the same stations, houses
\* and bays with their names and regions, busbars at the same nodes, every
\* equipment in the same container between the same nodes with the same
\* attributes, satellites and point, and nothing is reported on the way. Names
\* shortened against the file, keys without their class, hoisted and dropped
\* names, steps and schedules are all undone by the import.
RoundTripKeeps ==
    milestone \in {"imported", "exported"} /\ edits = 0 =>
        errors = {} /\ Essence(model) = Essence(loaded)

\* A tree that Check found nothing wrong with is imported whole: Emit neither
\* gives up at a path nor records an error, whatever the edit before was.
CheckedImportsClean ==
    checked = "clean" /\ milestone # "tree" => milestone # "failed" /\ errors = {}

\* The comments at the nodes of an exported file lead, step by step through the
\* directories, to exactly the files of the other kind that are at this node.
Connects(doc) ==
    UNION {Range(q.connects) : q \in EquipmentOfFile(doc) \cup doc.segments}
NodesAt(files, p) == {ResolveID(p.id, c.node) : c \in Connects(files[p])} \ {NoID, GND}
Follow(p, ref) == [dir |-> SubSeq(p.dir, 1, Len(p.dir) - ref.ups) \o ref.down, id |-> ref.id]
Across(files, p, n) ==
    {q \in DOMAIN files : /\ n \in NodesAt(files, q) /\ DirOf(q) # BoundaryDir
                          /\ (DirOf(q) = "Kabel") # (DirOf(p) = "Kabel")}
RefsLead(files) ==
    \A p \in DOMAIN files : DirOf(p) # BoundaryDir =>
        \A c \in Connects(files[p]) : ResolveID(p.id, c.node) \notin {NoID, GND} =>
            {Follow(p, ref) : ref \in c.refs} = Across(files, p, ResolveID(p.id, c.node))

RefsResolve ==
    /\ milestone = "tree" /\ edits = 0 => RefsLead(tree)
    /\ milestone = "exported" => RefsLead(again)

\* A checked tree, edited by hand, comes out of an import and an export as it was
\* (the round trip that subregion_path, the routes and the factor 1000 are for).
SecondExportSame ==
    milestone = "exported" /\ checked = "clean" /\ edits = MaxEdits => again = tree
=============================================================================
