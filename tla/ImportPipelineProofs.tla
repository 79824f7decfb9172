------------------------ MODULE ImportPipelineProofs ------------------------
(* Proofs about ImportPipeline: an import's version is its own, so that what *)
(* phase 2 reads is what the import staged; no failure, kill or prune leaves *)
(* a row that refers to a row which is not stored; and a rebuild that        *)
(* succeeds leaves the model of its documents, whatever happened before.     *)
EXTENDS ImportPipeline, FiniteSetTheorems, TLAPS

-----------------------------------------------------------------------------
(* Tables.                                                                  *)

\* A table that is put over another refers to what either refers to.
LEMMA OverRefers ==
    ASSUME NEW f, NEW g
    PROVE  /\ DOMAIN Over(f, g) = DOMAIN f \cup DOMAIN g
           /\ \A x \in DOMAIN f : Over(f, g)[x] = f[x]
           /\ \A x \in DOMAIN g \ DOMAIN f : Over(f, g)[x] = g[x]
           /\ Range(Over(f, g)) \subseteq Range(f) \cup Range(g)
<1>1. DOMAIN Over(f, g) = DOMAIN f \cup DOMAIN g
  BY DEF Over
<1>2. ASSUME NEW x \in DOMAIN f PROVE Over(f, g)[x] = f[x]
  BY DEF Over
<1>3. ASSUME NEW x \in DOMAIN g \ DOMAIN f PROVE Over(f, g)[x] = g[x]
  BY DEF Over
<1>4. Range(Over(f, g)) \subseteq Range(f) \cup Range(g)
  <2>1. \A y \in Range(Over(f, g)) : \E x \in DOMAIN Over(f, g) : y = Over(f, g)[x]
    BY DEF Range
  <2>2. \A x \in DOMAIN f : f[x] \in Range(f)
    BY DEF Range
  <2>3. \A x \in DOMAIN g : g[x] \in Range(g)
    BY DEF Range
  <2>4. ASSUME NEW x \in DOMAIN Over(f, g) PROVE Over(f, g)[x] \in Range(f) \cup Range(g)
    BY <1>1, <1>2, <1>3, <2>2, <2>3
  <2> QED BY <2>1, <2>4
<1> QED BY <1>1, <1>2, <1>3, <1>4

-----------------------------------------------------------------------------
(* What an import stages: the records of its tree, batch by batch.          *)

\* SetToSeq lists each member of a finite set, and nothing else.
LEMMA SetToSeqLists ==
    ASSUME NEW S, IsFiniteSet(S)
    PROVE  /\ Len(SetToSeq(S)) \in Nat
           /\ DOMAIN SetToSeq(S) = 1 .. Len(SetToSeq(S))
           /\ SetToSeq(S) \in Seq(S)
           /\ ToSet(SetToSeq(S)) = S
<1> DEFINE n == Cardinality(S)
<1>1. n \in Nat /\ ExistsBijection(1..n, S)
  BY FS_CardinalityType
<1>2. \E f \in [1..n -> S] : IsInjective(f)
  BY <1>1 DEF ExistsBijection, Bijection, Injection, IsInjective
<1>3. SetToSeq(S) \in [1..n -> S] /\ IsInjective(SetToSeq(S))
  BY <1>2 DEF SetToSeq
<1>4. SetToSeq(S) \in Injection(1..n, S)
  BY <1>3 DEF Injection, IsInjective
<1>5. Cardinality(1..n) = n
  BY <1>1, FS_Interval
<1>6. SetToSeq(S) \in Surjection(1..n, S)
  BY <1>4, <1>5, FS_Injection
<1>7. ToSet(SetToSeq(S)) = S
  BY <1>3, <1>6 DEF Surjection, ToSet
<1>8. SetToSeq(S) \in Seq(S) /\ Len(SetToSeq(S)) = n
  BY <1>1, <1>3
<1> QED BY <1>1, <1>3, <1>7, <1>8

\* The records of a tree are a sequence of its items that parse.
LEMMA RecordsListParsed ==
    ASSUME NEW t \in Trees \cup {NoTree}
    PROVE  /\ Len(Records(t)) \in Nat
           /\ Records(t) \in Seq(Parsed(t))
           /\ ToSet(Records(t)) = Parsed(t)
           /\ Parsed(t) \subseteq t.items
<1>1. IsFiniteSet(t.items)
  BY TreeAssumption, FS_EmptySet DEF NoTree
<1>2. Parsed(t) \subseteq t.items
  BY DEF Parsed
<1>3. IsFiniteSet(Parsed(t))
  BY <1>1, <1>2, FS_Subset
<1> QED BY <1>2, <1>3, SetToSeqLists DEF Records

\* What is sent and what is sent next make up what is sent then.
LEMMA BatchFollows ==
    ASSUME NEW T, NEW q \in Seq(T), NEW a \in Nat, NEW n \in Nat, a + n <= Len(q)
    PROVE  ToSet(SubSeq(q, 1, a)) \cup ToSet(SubSeq(q, a + 1, a + n)) = ToSet(SubSeq(q, 1, a + n))
<1> DEFINE In(i, j) == {q[x] : x \in i .. j}
<1>1. \A i \in 1 .. Len(q) + 1, j \in 0 .. Len(q) : ToSet(SubSeq(q, i, j)) = In(i, j)
  <2> SUFFICES ASSUME NEW i \in 1 .. Len(q) + 1, NEW j \in 0 .. Len(q)
               PROVE  ToSet(SubSeq(q, i, j)) = In(i, j)
    OBVIOUS
  <2> DEFINE r == SubSeq(q, i, j)
  <2>1. DOMAIN r = 1 .. (j - i + 1) /\ \A x \in DOMAIN r : r[x] = q[i + x - 1]
    OBVIOUS
  <2> HIDE DEF r
  <2>2. ASSUME NEW x \in DOMAIN r PROVE r[x] \in In(i, j)
    <3>1. i + x - 1 \in i .. j
      BY <2>1
    <3> QED BY <2>1, <3>1
  <2>3. ASSUME NEW y \in i .. j PROVE \E x \in DOMAIN r : r[x] = q[y]
    <3>1. (y - i + 1) \in DOMAIN r /\ i + (y - i + 1) - 1 = y
      BY <2>1
    <3> QED BY <2>1, <3>1
  <2>4. ToSet(r) = In(i, j)
    BY <2>2, <2>3 DEF ToSet
  <2> QED BY <2>4 DEF r
<1>2. In(1, a) \cup In(a + 1, a + n) = In(1, a + n)
  <2>1. (1 .. a) \cup ((a + 1) .. (a + n)) = 1 .. (a + n)
    OBVIOUS
  <2> QED BY <2>1
<1>3. Len(q) \in Nat
  OBVIOUS
<1> HIDE DEF In
<1> QED BY <1>1, <1>2, <1>3

-----------------------------------------------------------------------------
(* Rows stay whole, however far a write of them gets, and after a prune.    *)

\* A write of whole rows that stops after any table leaves whole rows.
LEMMA WriteKeepsWhole ==
    ASSUME NEW m, RowsWhole(m), NEW r, RowsWhole(r), NEW k \in 0 .. AllTables
    PROVE  RowsWhole(Write(k, m, r))
<1> DEFINE w == Write(k, m, r)
<1>1. k \in Int
  BY DEF AllTables
<1>2. Range(w.equipment) \subseteq w.container
  <2>1. CASE k >= 2
    <3>1. w.equipment = Over(r.equipment, m.equipment) /\ w.container = m.container \cup r.container
      BY <1>1, <2>1 DEF Write
    <3> QED BY <3>1, OverRefers DEF RowsWhole
  <2>2. CASE ~(k >= 2)
    <3>1. w.equipment = m.equipment /\ m.container \subseteq w.container
      BY <1>1, <2>2 DEF Write
    <3> QED BY <3>1 DEF RowsWhole
  <2> QED BY <2>1, <2>2
<1>3. DOMAIN w.edge \subseteq DOMAIN w.equipment
  <2>1. DOMAIN Over(r.equipment, m.equipment) = DOMAIN r.equipment \cup DOMAIN m.equipment
    BY OverRefers
  <2>2. DOMAIN Over(r.edge, m.edge) = DOMAIN r.edge \cup DOMAIN m.edge
    BY OverRefers
  <2>3. DOMAIN r.edge \subseteq DOMAIN r.equipment /\ DOMAIN m.edge \subseteq DOMAIN m.equipment
    BY DEF RowsWhole
  <2>4. DOMAIN w.edge = DOMAIN m.edge \/ (k >= 4 /\ w.edge = Over(r.edge, m.edge))
    BY DEF Write
  <2>5. k >= 4 => w.equipment = Over(r.equipment, m.equipment)
    BY <1>1 DEF Write
  <2>6. w.equipment = m.equipment \/ w.equipment = Over(r.equipment, m.equipment)
    BY DEF Write
  <2> HIDE DEF w
  <2>7. DOMAIN m.equipment \subseteq DOMAIN w.equipment
    BY <2>1, <2>6
  <2>8. CASE DOMAIN w.edge = DOMAIN m.edge
    BY <2>3, <2>7, <2>8
  <2>9. CASE k >= 4 /\ w.edge = Over(r.edge, m.edge)
    BY <2>1, <2>2, <2>3, <2>5, <2>9
  <2> QED BY <2>4, <2>8, <2>9
<1>4. UNION Range(w.edge) \subseteq w.node
  <2>1. CASE k >= 4
    <3>1. w.edge = Over(r.edge, m.edge) /\ w.node = m.node \cup r.node
      BY <1>1, <2>1 DEF Write
    <3>2. UNION Range(w.edge) \subseteq (UNION Range(r.edge)) \cup (UNION Range(m.edge))
      BY <3>1, OverRefers
    <3> QED BY <3>1, <3>2 DEF RowsWhole
  <2>2. CASE ~(k >= 4)
    <3>1. w.edge = m.edge /\ m.node \subseteq w.node
      BY <1>1, <2>2 DEF Write
    <3> QED BY <3>1 DEF RowsWhole
  <2> QED BY <2>1, <2>2
<1>5. {g[1] : g \in w.group} \subseteq w.node
  <2>1. CASE k >= 5
    <3>1. w.group \subseteq m.group \cup r.group /\ w.node = m.node \cup r.node
      BY <1>1, <2>1 DEF Write
    <3> QED BY <3>1 DEF RowsWhole
  <2>2. CASE ~(k >= 5)
    <3>1. w.group = m.group /\ m.node \subseteq w.node
      BY <1>1, <2>2 DEF Write
    <3> QED BY <3>1 DEF RowsWhole
  <2> QED BY <2>1, <2>2
<1> QED BY <1>2, <1>3, <1>4, <1>5 DEF RowsWhole

\* The rows of one root are whole: what is below it is in it or in a bay of it.
LEMMA RowsOfWhole ==
    ASSUME NEW I, \A i, j \in I : i.id = j.id => i = j,
           NEW r \in Ids(OfKind(I, {"station", "cable"})), NEW owner
    PROVE  RowsWhole(RowsOf(Under(I, r), owner))
<1> DEFINE U == Under(I, r)
           E == OfKind(U, {"equipment", "cable"})
           at(x) == CHOOSE e \in E : e.id = x
           rows == RowsOf(U, owner)
<1>1. PICK root \in I : root.id = r /\ root.kind \in {"station", "cable"}
  BY DEF Ids, OfKind
<1>2. r \in rows.container
  BY <1>1 DEF RowsOf, Under, Ids, OfKind
<1>3. \A b \in I : b.kind = "bay" /\ b.in = r => b.id \in rows.container
  BY DEF RowsOf, Under, Ids, OfKind
<1>4. \A x \in Ids(E) : at(x) \in E /\ at(x).id = x
  BY DEF Ids
<1>5. Range(rows.equipment) \subseteq rows.container
  <2> SUFFICES ASSUME NEW x \in Ids(E)
               PROVE  (IF at(x).kind = "cable" THEN x ELSE at(x).in) \in rows.container
    BY DEF RowsOf, Range
  <2> DEFINE e == at(x)
  <2>1. e \in U /\ e.id = x /\ e.kind \in {"equipment", "cable"}
    BY <1>4 DEF OfKind
  <2> HIDE DEF e
  <2>2. CASE e.kind = "cable"
    <3>1. e.id \in rows.container
      BY <2>1, <2>2 DEF RowsOf, Ids, OfKind
    <3> QED BY <3>1, <2>1, <2>2 DEF e
  <2>3. CASE e.kind = "equipment"
    <3>1. e \in I /\ e.id # r
      BY <2>1, <2>3, <1>1 DEF Under
    <3>2. e.in \in rows.container
      BY <2>1, <3>1, <1>2, <1>3 DEF Under, Ids, OfKind
    <3> QED BY <3>2, <2>3 DEF e
  <2> QED BY <2>1, <2>2, <2>3 
<1>6. DOMAIN rows.edge = DOMAIN rows.equipment
  BY DEF RowsOf
<1>7. UNION Range(rows.edge) \subseteq rows.node
  <2>1. rows.edge = [x \in Ids(E) |-> at(x).nodes] /\ rows.node = UNION {e.nodes : e \in E}
    BY DEF RowsOf
  <2> QED BY <2>1, <1>4 DEF Range
<1>8. {g[1] : g \in rows.group} \subseteq rows.node
  BY DEF RowsOf
<1> QED BY <1>5, <1>6, <1>7, <1>8 DEF RowsWhole

\* DeleteContainers keeps every node that a remaining row refers to.
LEMMA DeleteKeepsWhole ==
    ASSUME NEW m, RowsWhole(m), NEW S
    PROVE  RowsWhole(DeleteContainers(m, S))
<1> DEFINE d == DeleteContainers(m, S)
           gone == {x \in DOMAIN m.equipment : m.equipment[x] \in S}
<1>1. /\ d.equipment = Restrict(m.equipment, DOMAIN m.equipment \ gone)
      /\ d.edge = Restrict(m.edge, DOMAIN m.edge \ gone)
      /\ d.container = m.container \ S
  BY DEF DeleteContainers
<1>2. Range(d.equipment) \subseteq d.container
  BY <1>1 DEF Restrict, Range, RowsWhole
<1>3. DOMAIN d.edge \subseteq DOMAIN d.equipment
  BY <1>1 DEF Restrict, RowsWhole
<1>4. Range(d.edge) \subseteq Range(m.edge)
  BY <1>1 DEF Restrict, Range
<1>5. d.group \subseteq m.group
  BY DEF DeleteContainers
<1>6. /\ d.node \subseteq m.node
      /\ \A x \in m.node : x \in (UNION Range(d.edge)) \cup {g[1] : g \in d.group} => x \in d.node
  BY DEF DeleteContainers
<1>7. (UNION Range(d.edge)) \cup {g[1] : g \in d.group} \subseteq m.node
  BY <1>4, <1>5 DEF RowsWhole
<1> QED BY <1>2, <1>3, <1>6, <1>7 DEF RowsWhole

-----------------------------------------------------------------------------
(* The invariant, action by action.                                         *)

LEMMA InvInit == Init => PipelineInv
<1> SUFFICES ASSUME Init PROVE PipelineInv
  OBVIOUS
<1>1. RowsWhole(EmptyModel)
  BY DEF RowsWhole, EmptyModel, NoRow, Range
<1>2. Kinds
  BY <1>1 DEF Init, Kinds, Runs, Stores, Idle, EmptyStore
<1>3. VersionsIssued /\ StagedSoFar /\ RootsStaged
  BY DEF Init, VersionsIssued, StagedSoFar, RootsStaged, Idle, EmptyStore, InPhase2
<1> QED BY <1>2, <1>3 DEF PipelineInv

\* What phase 2 finds depends on the staged rows and the run's version alone.
LEMMA StagedStays ==
    ASSUME store'.staged = store.staged, run'.version = run.version
    PROVE  Staged' = Staged /\ \A kind : Roots(kind)' = Roots(kind)
BY DEF Staged, Roots

\* A run that is not under way: any rows, once issued, will do.
LEMMA NotUnderWay ==
    ASSUME run'.pc \in {"idle", "version", "ok", "error"}
    PROVE  /\ (run'.pc = "version" => run'.sent = 0) => StagedSoFar'
           /\ RootsStaged'
           /\ (\A r \in store'.staged : r[1] \in 1 .. store'.last) /\
              (\A f \in store'.flags : f[1] \in 1 .. store'.last) => VersionsIssued'
BY DEF StagedSoFar, RootsStaged, VersionsIssued, InPhase2

LEMMA EditTreeKeeps == PipelineInv /\ EditTree => PipelineInv'
<1> SUFFICES ASSUME PipelineInv, EditTree PROVE PipelineInv'
  OBVIOUS
<1>1. UNCHANGED <<store, model, run>> /\ tree' \in Trees
  BY DEF EditTree
<1>2. Kinds'
  BY <1>1 DEF PipelineInv, Kinds
<1>3. VersionsIssued' /\ StagedSoFar' /\ RootsStaged'
  BY <1>1, StagedStays DEF PipelineInv, VersionsIssued, StagedSoFar, RootsStaged, InPhase2
<1> QED BY <1>2, <1>3 DEF PipelineInv

\* The roots phase 2 finds are IDs.
LEMMA RootsAreIds ==
    ASSUME PipelineInv, NEW kind
    PROVE  Roots(kind) \subseteq AllIds
<1>1. store.staged \subseteq Nat \X AllItems
  BY DEF PipelineInv, Kinds, Stores
<1>2. Staged \subseteq AllItems
  BY <1>1 DEF Staged
<1> QED BY <1>2 DEF Roots, Ids, OfKind, AllIds

LEMMA StartRunKeeps == ASSUME PipelineInv, NEW keep \in BOOLEAN, StartRun(keep) PROVE PipelineInv'
<1>1. Kinds'
  <2>1. RowsWhole(EmptyModel)
    BY DEF RowsWhole, EmptyModel, NoRow, Range
  <2>2. run' \in Runs
    BY DEF StartRun, Idle, Runs
  <2>3. store' \in Stores /\ tree' \in Trees
    BY DEF PipelineInv, Kinds, StartRun, ResetBackend, EmptyStore, Stores
  <2>4. model' = model \/ model' = EmptyModel
    BY DEF StartRun, ResetBackend
  <2> QED BY <2>1, <2>2, <2>3, <2>4 DEF PipelineInv, Kinds
<1>2. run'.pc = "version" /\ run'.sent = 0
  BY DEF StartRun, Idle
<1>3. VersionsIssued'
  BY <1>2 DEF PipelineInv, VersionsIssued, StartRun, ResetBackend, EmptyStore
<1> QED BY <1>1, <1>2, <1>3, NotUnderWay DEF PipelineInv

\* A prune deletes rows of the model only.
LEMMA PruneKeeps == PipelineInv /\ PruneRemoved => PipelineInv'
<1> SUFFICES ASSUME PipelineInv, PruneRemoved PROVE PipelineInv'
  OBVIOUS
<1>1. Kinds'
  BY DeleteKeepsWhole DEF PipelineInv, Kinds, Runs, PruneRemoved, Idle
<1>2. run'.pc = "idle" /\ store' = store
  BY DEF PruneRemoved, Idle
<1>3. VersionsIssued'
  BY <1>2 DEF PipelineInv, VersionsIssued
<1> QED BY <1>1, <1>2, <1>3, NotUnderWay DEF PipelineInv

LEMMA StopsKeeps == PipelineInv /\ Stops => PipelineInv'
<1> SUFFICES ASSUME PipelineInv, Stops PROVE PipelineInv'
  OBVIOUS
<1>1. Kinds'
  BY DEF PipelineInv, Kinds, Runs, Stops
<1>2. run'.pc = "error" /\ store' = store
  BY DEF PipelineInv, Kinds, Runs, Stops
<1>3. VersionsIssued'
  BY <1>2 DEF PipelineInv, VersionsIssued
<1> QED BY <1>1, <1>2, <1>3, NotUnderWay DEF PipelineInv

\* The version is new: no row of an earlier run has it.
LEMMA NextVersionKeeps == PipelineInv /\ NextVersion => PipelineInv'
<1> SUFFICES ASSUME PipelineInv, NextVersion PROVE PipelineInv'
  OBVIOUS
<1>1. store.last \in Nat
  BY DEF PipelineInv, Kinds, Stores
<1>2. /\ store'.last = store.last + 1 /\ store'.staged = store.staged /\ store'.flags = store.flags
      /\ run'.pc = "emit" /\ run'.version = store.last + 1
      /\ run'.sent = run.sent /\ run.pc = "version"
  BY DEF PipelineInv, Kinds, Runs, Stores, NextVersion
<1>3. Kinds'
  <2> DEFINE v == store.last + 1
  <2>0. v \in Nat /\ run' = [run EXCEPT !.pc = "emit", !.version = v]
    BY <1>1 DEF NextVersion
  <2> HIDE DEF v
  <2>1. run' \in Runs
    BY <2>0 DEF PipelineInv, Kinds, Runs
  <2>2. store' \in Stores
    BY <1>1 DEF PipelineInv, Kinds, NextVersion, Stores
  <2> QED BY <2>1, <2>2 DEF PipelineInv, Kinds, NextVersion
<1>4. VersionsIssued'
  BY <1>1, <1>2 DEF PipelineInv, VersionsIssued
<1>5. Staged' = {}
  BY <1>1, <1>2 DEF PipelineInv, VersionsIssued, Staged
<1>6. StagedSoFar' /\ RootsStaged'
  BY <1>2, <1>5 DEF PipelineInv, StagedSoFar, RootsStaged, InPhase2
<1> QED BY <1>3, <1>4, <1>6 DEF PipelineInv

LEMMA EmitKeeps == PipelineInv /\ Emit => PipelineInv'
<1> SUFFICES ASSUME PipelineInv, Emit PROVE PipelineInv'
  OBVIOUS
<1>1. /\ run'.pc = "stage" /\ run'.version = run.version /\ run'.read = tree /\ store' = store
      /\ run.pc = "emit" /\ run'.sent = run.sent
  BY DEF PipelineInv, Kinds, Runs, Emit
<1>2. Kinds'
  BY DEF PipelineInv, Kinds, Runs, Emit
<1>3. VersionsIssued'
  BY <1>1 DEF PipelineInv, VersionsIssued
<1>4. Staged' = {} /\ run'.sent = 0
  BY <1>1, StagedStays DEF PipelineInv, StagedSoFar
<1>5. StagedSoFar'
  <2>1. Records(tree) \in Seq(Parsed(tree)) /\ Len(Records(tree)) \in Nat
    BY RecordsListParsed DEF PipelineInv, Kinds
  <2>2. ToSet(SubSeq(Records(tree), 1, 0)) = {}
    BY <2>1 DEF ToSet
  <2>3. 0 <= Len(Records(tree))
    BY <2>1
  <2> QED BY <1>1, <1>4, <2>2, <2>3 DEF StagedSoFar, InPhase2
<1>6. RootsStaged'
  BY <1>1 DEF RootsStaged
<1> QED BY <1>2, <1>3, <1>5, <1>6 DEF PipelineInv

\* The next n records are inserted: what is staged is what was sent before and they.
LEMMA InsertAdds ==
    ASSUME PipelineInv, run.pc = "stage", NEW n \in 0 .. Left, Insert(n), run'.version = run.version
    PROVE  /\ store' \in Stores
           /\ store'.last = store.last /\ store'.flags = store.flags
           /\ \A r \in store'.staged : r[1] \in 1 .. store.last
           /\ run.sent + n \in Nat /\ run.sent + n <= Len(Records(run.read))
           /\ Staged' = ToSet(SubSeq(Records(run.read), 1, run.sent + n))
<1> DEFINE R == Records(run.read)
           new == ToSet(SubSeq(R, run.sent + 1, run.sent + n))
<1>1. /\ run.sent \in Nat /\ run.version \in Nat /\ run.read \in Trees \cup {NoTree}
      /\ store \in Stores /\ store.staged \subseteq Nat \X AllItems
  BY DEF PipelineInv, Kinds, Runs, Stores
<1>2. Len(R) \in Nat /\ R \in Seq(Parsed(run.read)) /\ Parsed(run.read) \subseteq run.read.items
  BY <1>1, RecordsListParsed
<1>3. Left = Len(R) - run.sent /\ n \in Nat /\ run.sent + n <= Len(R)
  BY <1>1, <1>2 DEF Left
<1>4. ToSet(SubSeq(R, 1, run.sent)) \cup new = ToSet(SubSeq(R, 1, run.sent + n))
  BY <1>1, <1>2, <1>3, BatchFollows
<1>5. new \subseteq AllItems
  <2>1. run.read.items \subseteq AllItems
    BY <1>1, TreeAssumption DEF NoTree
  <2>2. SubSeq(R, run.sent + 1, run.sent + n) \in Seq(Parsed(run.read))
    BY <1>1, <1>2, <1>3
  <2>3. new \subseteq Parsed(run.read)
    BY <2>2 DEF ToSet
  <2> QED BY <1>2, <2>1, <2>3
<1>6. store' = [store EXCEPT !.staged = @ \cup {<<run.version, i>> : i \in new}]
  BY DEF Insert
<1> HIDE DEF new
<1>7. {<<run.version, i>> : i \in new} \subseteq Nat \X AllItems
  BY <1>1, <1>5
<1>8. store' \in Stores
  BY <1>1, <1>6, <1>7 DEF Stores
<1>9. /\ store'.staged = store.staged \cup {<<run.version, i>> : i \in new}
      /\ store'.last = store.last /\ store'.flags = store.flags
  BY <1>1, <1>6 DEF Stores
<1>10. run.version \in 1 .. store.last /\ \A r \in store.staged : r[1] \in 1 .. store.last
  BY DEF PipelineInv, VersionsIssued
<1>11. \A r \in store'.staged : r[1] \in 1 .. store.last
  BY <1>9, <1>10
<1>12. Staged' = Staged \cup new
  <2>1. ASSUME NEW r \in store'.staged, r[1] = run.version PROVE r[2] \in Staged \cup new
    <3>1. CASE r \in store.staged
      BY <2>1, <3>1 DEF Staged
    <3>2. CASE r \in {<<run.version, i>> : i \in new}
      BY <3>2
    <3> QED BY <1>9, <3>1, <3>2
  <2>2. Staged \subseteq Staged'
    BY <1>9 DEF Staged
  <2>3. ASSUME NEW i \in new PROVE i \in Staged'
    <3> DEFINE r == <<run.version, i>>
    <3>1. r \in store'.staged /\ r[1] = run'.version /\ r[2] = i
      BY <1>9
    <3> HIDE DEF r
    <3> QED BY <3>1 DEF Staged
  <2>4. Staged' = {r[2] : r \in {r \in store'.staged : r[1] = run.version}}
    BY DEF Staged
  <2> QED BY <2>1, <2>2, <2>3, <2>4
<1>13. Staged = ToSet(SubSeq(R, 1, run.sent))
  BY DEF PipelineInv, StagedSoFar
<1> QED BY <1>1, <1>3, <1>4, <1>8, <1>9, <1>11, <1>12, <1>13

LEMMA InsertBatchKeeps == PipelineInv /\ InsertBatch => PipelineInv'
<1> SUFFICES ASSUME PipelineInv, InsertBatch PROVE PipelineInv'
  OBVIOUS
<1>1. /\ run' = [run EXCEPT !.sent = @ + Size] /\ run \in Runs
      /\ tree' = tree /\ model' = model /\ run.pc = "stage" /\ Insert(Size) /\ Left >= Size
  BY DEF InsertBatch, PipelineInv, Kinds
<1>2. /\ run'.pc = "stage" /\ run'.version = run.version /\ run'.read = run.read
      /\ run'.sent = run.sent + Size
  BY <1>1 DEF Runs
<1>3. Left \in Int
  BY RecordsListParsed, <1>1 DEF Left, Runs
<1>4. Size \in 0 .. Left
  BY <1>1, <1>3, WriterAssumption
<1>5. /\ store' \in Stores
      /\ store'.last = store.last /\ store'.flags = store.flags
      /\ \A r \in store'.staged : r[1] \in 1 .. store.last
      /\ run.sent + Size \in Nat /\ run.sent + Size <= Len(Records(run.read))
      /\ Staged' = ToSet(SubSeq(Records(run.read), 1, run.sent + Size))
  BY <1>1, <1>2, <1>4, InsertAdds
<1>6. Kinds'
  <2>1. run' \in Runs
    BY <1>1, <1>5 DEF Runs
  <2> QED BY <1>1, <1>5, <2>1 DEF PipelineInv, Kinds
<1>7. VersionsIssued'
  BY <1>1, <1>2, <1>5 DEF PipelineInv, VersionsIssued
<1>8. StagedSoFar' /\ RootsStaged'
  BY <1>2, <1>5 DEF StagedSoFar, RootsStaged, InPhase2
<1> QED BY <1>6, <1>7, <1>8 DEF PipelineInv

\* Flush sends what is left, and then every record that parsed is staged.
LEMMA FlushKeeps == PipelineInv /\ Flush => PipelineInv'
<1> SUFFICES ASSUME PipelineInv, Flush PROVE PipelineInv'
  OBVIOUS
<1>1. /\ run' = [run EXCEPT !.pc = "errors"] /\ run \in Runs
      /\ tree' = tree /\ model' = model /\ run.pc = "stage" /\ Insert(Left)
  BY DEF Flush, PipelineInv, Kinds
<1>2. run'.pc = "errors" /\ run'.version = run.version /\ run'.read = run.read
  BY <1>1 DEF Runs
<1>3. /\ Len(Records(run.read)) \in Nat /\ Records(run.read) \in Seq(Parsed(run.read))
      /\ ToSet(Records(run.read)) = Parsed(run.read)
  BY <1>1, RecordsListParsed DEF Runs
<1>4. run.sent \in Nat /\ run.sent <= Len(Records(run.read))
  BY <1>1 DEF PipelineInv, StagedSoFar, Runs
<1>5. Left \in 0 .. Left /\ run.sent + Left = Len(Records(run.read))
  BY <1>3, <1>4 DEF Left
<1>6. /\ store' \in Stores
      /\ store'.last = store.last /\ store'.flags = store.flags
      /\ \A r \in store'.staged : r[1] \in 1 .. store.last
      /\ Staged' = ToSet(SubSeq(Records(run.read), 1, run.sent + Left))
  BY <1>1, <1>2, <1>5, InsertAdds
<1>7. SubSeq(Records(run.read), 1, Len(Records(run.read))) = Records(run.read)
  BY <1>3
<1>8. Staged' = Parsed(run.read)
  BY <1>3, <1>5, <1>6, <1>7
<1>9. Kinds'
  <2>1. run' \in Runs
    BY <1>1 DEF Runs
  <2> QED BY <1>1, <1>6, <2>1 DEF PipelineInv, Kinds
<1>10. VersionsIssued'
  BY <1>1, <1>2, <1>6 DEF PipelineInv, VersionsIssued
<1>11. StagedSoFar' /\ RootsStaged'
  BY <1>2, <1>8 DEF StagedSoFar, RootsStaged, InPhase2
<1> QED BY <1>9, <1>10, <1>11 DEF PipelineInv

LEMMA InsertErrorsKeeps == PipelineInv /\ InsertErrors => PipelineInv'
<1> SUFFICES ASSUME PipelineInv, InsertErrors PROVE PipelineInv'
  OBVIOUS
<1>1. /\ run' = [run EXCEPT !.pc = "error"] /\ run \in Runs /\ store \in Stores
      /\ store' = [store EXCEPT !.errors = @ \cup {run.version}] /\ tree' = tree /\ model' = model
  BY DEF InsertErrors, PipelineInv, Kinds
<1>2. /\ run'.pc = "error" /\ run' \in Runs /\ store' \in Stores
      /\ store'.last = store.last /\ store'.staged = store.staged /\ store'.flags = store.flags
  BY <1>1 DEF Runs, Stores
<1>3. VersionsIssued'
  BY <1>2 DEF PipelineInv, VersionsIssued
<1>4. Kinds'
  BY <1>1, <1>2 DEF PipelineInv, Kinds
<1> QED BY <1>2, <1>3, <1>4, NotUnderWay DEF PipelineInv

\* A tree that parsed is staged in whole.
LEMMA ParsedWhole ==
    ASSUME NEW t, t.bad = {}
    PROVE  Parsed(t) = t.items
BY DEF Parsed

\* Phase 2 starts with the stations among what is staged.
LEMMA StartPassAKeeps == PipelineInv /\ StartPassA => PipelineInv'
<1> SUFFICES ASSUME PipelineInv, StartPassA PROVE PipelineInv'
  OBVIOUS
<1>1. /\ run' = [run EXCEPT !.pc = "passA", !.todo = Roots("station")] /\ run \in Runs
      /\ tree' = tree /\ model' = model /\ store' = store /\ run.pc = "errors" /\ run.read.bad = {}
  BY DEF StartPassA, PipelineInv, Kinds
<1>2. Roots("station") \subseteq AllIds
  BY RootsAreIds
<1>3. /\ run' \in Runs /\ run'.pc = "passA" /\ run'.version = run.version /\ run'.read = run.read
      /\ run'.todo = Roots("station")
  BY <1>1, <1>2 DEF Runs
<1>4. Staged' = Staged /\ Roots("station")' = Roots("station")
  BY <1>1, <1>3, StagedStays
<1>5. Kinds'
  BY <1>1, <1>3 DEF PipelineInv, Kinds
<1>6. VersionsIssued'
  BY <1>1, <1>3 DEF PipelineInv, VersionsIssued
<1>7. StagedSoFar' /\ RootsStaged'
  BY <1>1, <1>3, <1>4 DEF PipelineInv, StagedSoFar, RootsStaged, InPhase2
<1> QED BY <1>5, <1>6, <1>7 DEF PipelineInv

\* The rows and flags of one root: it is staged, so they are whole and of the run's version.
LEMMA PersistRoot ==
    ASSUME PipelineInv, InPhase2, NEW r \in Ids(OfKind(Staged, {"station", "cable"})),
           NEW k \in 0 .. AllTables, NEW owner,
           Mark(Under(Staged, r)), model' = Write(k, model, RowsOf(Under(Staged, r), owner))
    PROVE  /\ store' \in Stores /\ store'.last = store.last /\ store'.staged = store.staged
           /\ \A f \in store'.flags : f[1] \in 1 .. store.last
           /\ RowsWhole(model')
<1>1. /\ store \in Stores /\ run \in Runs /\ run.version \in 1 .. store.last
      /\ Staged = Parsed(run.read)
      /\ \A f \in store.flags : f[1] \in 1 .. store.last
  BY DEF PipelineInv, Kinds, VersionsIssued, StagedSoFar, InPhase2
<1>2. Staged \subseteq AllItems /\ \A i, j \in Staged : i.id = j.id => i = j
  <2>1. run.read \in Trees \cup {NoTree}
    BY <1>1 DEF Runs
  <2>2. Parsed(run.read) \subseteq run.read.items
    BY <2>1, RecordsListParsed
  <2>3. run.read.items \subseteq AllItems /\ \A i, j \in run.read.items : i.id = j.id => i = j
    BY <2>1, TreeAssumption DEF NoTree
  <2> QED BY <1>1, <2>2, <2>3
<1>3. RowsWhole(model')
  BY <1>2, RowsOfWhole, WriteKeepsWhole DEF PipelineInv, Kinds
<1> DEFINE new == {<<run.version, x>> : x \in Ids(Under(Staged, r))}
<1>4. new \subseteq Nat \X AllIds
  <2>1. Ids(Under(Staged, r)) \subseteq AllIds
    BY <1>2 DEF Ids, Under, AllIds
  <2>2. run.version \in Nat
    BY <1>1 DEF Runs
  <2> QED BY <2>1, <2>2
<1>5. store' = [store EXCEPT !.flags = @ \cup new]
  BY DEF Mark
<1>6. \A f \in new : f[1] \in 1 .. store.last
  BY <1>1
<1> HIDE DEF new
<1>7. /\ store' \in Stores /\ store'.last = store.last /\ store'.staged = store.staged
      /\ store'.flags = store.flags \cup new
  BY <1>1, <1>4, <1>5 DEF Stores
<1> QED BY <1>1, <1>3, <1>6, <1>7

LEMMA PersistStationKeeps ==
    ASSUME PipelineInv, NEW k \in 0 .. AllTables, NEW s \in run.todo, PersistStation(s, k)
    PROVE  PipelineInv'
<1>1. /\ run \in Runs /\ run.pc = "passA" /\ s \in Roots("station") /\ tree' = tree /\ tree \in Trees
      /\ run' \in {[run EXCEPT !.todo = @ \ {s}], [run EXCEPT !.pc = "error"]}
  BY DEF PipelineInv, Kinds, RootsStaged, PersistStation
<1>2. InPhase2 /\ s \in Ids(OfKind(Staged, {"station", "cable"}))
  BY <1>1 DEF InPhase2, Roots, Ids, OfKind
<1>3. /\ store' \in Stores /\ store'.last = store.last /\ store'.staged = store.staged
      /\ \A f \in store'.flags : f[1] \in 1 .. store.last
      /\ RowsWhole(model')
  BY <1>2, PersistRoot DEF PersistStation
<1>4. /\ run' \in Runs /\ run'.version = run.version /\ run'.read = run.read
      /\ run'.pc = "error" \/ (run'.pc = "passA" /\ run'.todo \subseteq run.todo)
  BY <1>1 DEF Runs
<1>5. Kinds'
  BY <1>1, <1>3, <1>4 DEF Kinds
<1>6. VersionsIssued'
  BY <1>1, <1>3, <1>4 DEF PipelineInv, VersionsIssued
<1>7. StagedSoFar' /\ RootsStaged'
  BY <1>1, <1>3, <1>4, StagedStays DEF PipelineInv, StagedSoFar, RootsStaged, InPhase2
<1> QED BY <1>5, <1>6, <1>7 DEF PipelineInv

LEMMA StartPassBKeeps == PipelineInv /\ StartPassB => PipelineInv'
<1> SUFFICES ASSUME PipelineInv, StartPassB PROVE PipelineInv'
  OBVIOUS
<1>1. /\ run' = [run EXCEPT !.pc = "passB", !.todo = Roots("cable")] /\ run \in Runs
      /\ tree' = tree /\ model' = model /\ store' = store /\ run.pc = "passA"
  BY DEF StartPassB, PipelineInv, Kinds
<1>2. Roots("cable") \subseteq AllIds
  BY RootsAreIds
<1>3. /\ run' \in Runs /\ run'.pc = "passB" /\ run'.version = run.version /\ run'.read = run.read
      /\ run'.todo = Roots("cable")
  BY <1>1, <1>2 DEF Runs
<1>4. Staged' = Staged /\ Roots("cable")' = Roots("cable")
  BY <1>1, <1>3, StagedStays
<1>5. Kinds'
  BY <1>1, <1>3 DEF PipelineInv, Kinds
<1>6. VersionsIssued'
  BY <1>1, <1>3 DEF PipelineInv, VersionsIssued
<1>7. StagedSoFar' /\ RootsStaged'
  BY <1>1, <1>3, <1>4 DEF PipelineInv, StagedSoFar, RootsStaged, InPhase2
<1> QED BY <1>5, <1>6, <1>7 DEF PipelineInv

LEMMA PersistCableKeeps ==
    ASSUME PipelineInv, NEW k \in 0 .. AllTables, NEW c \in run.todo, PersistCable(c, k)
    PROVE  PipelineInv'
<1>1. /\ run \in Runs /\ run.pc = "passB" /\ c \in Roots("cable") /\ tree' = tree /\ tree \in Trees
      /\ run' \in {[run EXCEPT !.todo = @ \ {c}, !.batch = @ + 1], [run EXCEPT !.pc = "error"]}
  BY DEF PipelineInv, Kinds, RootsStaged, PersistCable
<1>2. InPhase2 /\ c \in Ids(OfKind(Staged, {"station", "cable"}))
  BY <1>1 DEF InPhase2, Roots, Ids, OfKind
<1>3. /\ store' \in Stores /\ store'.last = store.last /\ store'.staged = store.staged
      /\ \A f \in store'.flags : f[1] \in 1 .. store.last
      /\ RowsWhole(model')
  BY <1>2, PersistRoot DEF PersistCable
<1>4. /\ run' \in Runs /\ run'.version = run.version /\ run'.read = run.read
      /\ run'.pc = "error" \/ (run'.pc = "passB" /\ run'.todo \subseteq run.todo)
  <2>1. CASE run' = [run EXCEPT !.pc = "error"]
    BY <1>1, <2>1 DEF Runs
  <2>2. CASE run' = [run EXCEPT !.todo = @ \ {c}, !.batch = @ + 1]
    <3> DEFINE b == run.batch + 1
    <3>1. b \in Nat /\ run' = [run EXCEPT !.todo = @ \ {c}, !.batch = b]
      BY <1>1, <2>2 DEF Runs
    <3> HIDE DEF b
    <3> QED BY <1>1, <3>1 DEF Runs
  <2> QED BY <1>1, <2>1, <2>2
<1>5. Kinds'
  BY <1>1, <1>3, <1>4 DEF Kinds
<1>6. VersionsIssued'
  BY <1>1, <1>3, <1>4 DEF PipelineInv, VersionsIssued
<1>7. StagedSoFar' /\ RootsStaged'
  BY <1>1, <1>3, <1>4, StagedStays DEF PipelineInv, StagedSoFar, RootsStaged, InPhase2
<1> QED BY <1>5, <1>6, <1>7 DEF PipelineInv

LEMMA EndPassBKeeps == PipelineInv /\ EndPassB => PipelineInv'
<1> SUFFICES ASSUME PipelineInv, EndPassB PROVE PipelineInv'
  OBVIOUS
<1>1. /\ run' = [run EXCEPT !.pc = "flags"] /\ run \in Runs /\ run.pc = "passB"
      /\ tree' = tree /\ model' = model /\ store' = store
  BY DEF EndPassB, PipelineInv, Kinds
<1>2. run' \in Runs /\ run'.pc = "flags" /\ run'.version = run.version /\ run'.read = run.read
  BY <1>1 DEF Runs
<1>3. Kinds'
  BY <1>1, <1>2 DEF PipelineInv, Kinds
<1>4. VersionsIssued'
  BY <1>1, <1>2 DEF PipelineInv, VersionsIssued
<1>5. StagedSoFar' /\ RootsStaged'
  BY <1>1, <1>2, StagedStays DEF PipelineInv, StagedSoFar, RootsStaged, InPhase2
<1> QED BY <1>3, <1>4, <1>5 DEF PipelineInv

LEMMA ClearFlagsKeeps == PipelineInv /\ ClearFlags => PipelineInv'
<1> SUFFICES ASSUME PipelineInv, ClearFlags PROVE PipelineInv'
  OBVIOUS
<1>1. /\ run' = [run EXCEPT !.pc = "delete"] /\ run \in Runs /\ run.pc = "flags"
      /\ store' = [store EXCEPT !.flags = {f \in @ : f[1] # run.version}] /\ store \in Stores
      /\ tree' = tree /\ model' = model
  BY DEF ClearFlags, PipelineInv, Kinds
<1>2. /\ run' \in Runs /\ run'.pc = "delete" /\ run'.version = run.version /\ run'.read = run.read
      /\ store' \in Stores /\ store'.last = store.last /\ store'.staged = store.staged
      /\ store'.flags \subseteq store.flags
  BY <1>1 DEF Runs, Stores
<1>3. Kinds'
  BY <1>1, <1>2 DEF PipelineInv, Kinds
<1>4. VersionsIssued'
  BY <1>1, <1>2 DEF PipelineInv, VersionsIssued
<1>5. StagedSoFar' /\ RootsStaged'
  BY <1>1, <1>2, StagedStays DEF PipelineInv, StagedSoFar, RootsStaged, InPhase2
<1> QED BY <1>3, <1>4, <1>5 DEF PipelineInv

LEMMA DeleteVersionKeeps ==
    ASSUME PipelineInv, NEW keepStaging \in BOOLEAN, DeleteVersion(keepStaging)
    PROVE  PipelineInv'
<1>1. /\ run' = [run EXCEPT !.pc = "metadata", !.keepStaging = keepStaging] /\ run \in Runs
      /\ tree' = tree /\ model' = model /\ run.pc = "delete" /\ store \in Stores
      /\ store' \in {store, [store EXCEPT !.staged = {r \in @ : r[1] # run.version},
                                          !.errors = @ \ {run.version}]}
  BY DEF DeleteVersion, PipelineInv, Kinds
<1>2. run' \in Runs /\ run'.pc = "metadata" /\ run'.version = run.version
  BY <1>1 DEF Runs
<1>3. /\ store' \in Stores /\ store'.last = store.last /\ store'.staged \subseteq store.staged
      /\ store'.flags = store.flags
  <2> DEFINE kept == {r \in store.staged : r[1] # run.version}
  <2>1. CASE store' = store
    BY <1>1, <2>1
  <2>2. CASE store' = [store EXCEPT !.staged = kept, !.errors = @ \ {run.version}]
    <3>1. kept \subseteq store.staged
      OBVIOUS
    <3> HIDE DEF kept
    <3> QED BY <1>1, <2>2, <3>1 DEF Stores
  <2> QED BY <1>1, <2>1, <2>2
<1>4. Kinds'
  BY <1>1, <1>2, <1>3 DEF PipelineInv, Kinds
<1>5. VersionsIssued'
  BY <1>1, <1>2, <1>3 DEF PipelineInv, VersionsIssued
<1>6. StagedSoFar' /\ RootsStaged'
  BY <1>2 DEF StagedSoFar, RootsStaged, InPhase2
<1> QED BY <1>4, <1>5, <1>6 DEF PipelineInv

LEMMA RecordMetadataKeeps == PipelineInv /\ RecordMetadata => PipelineInv'
<1> SUFFICES ASSUME PipelineInv, RecordMetadata PROVE PipelineInv'
  OBVIOUS
<1> DEFINE n == NextNumber(store.number)
<1>1. /\ run' = [run EXCEPT !.pc = "ok"] /\ run \in Runs /\ store \in Stores
      /\ store' = [store EXCEPT !.number = n] /\ tree' = tree /\ model' = model
  BY DEF RecordMetadata, PipelineInv, Kinds
<1>2. n \in Nat
  <2>1. tree.meta \in Nat
    BY TreeAssumption DEF PipelineInv, Kinds
  <2> QED BY <1>1, <2>1 DEF NextNumber, Stores
<1> HIDE DEF n
<1>3. /\ run' \in Runs /\ run'.pc = "ok"
      /\ store' \in Stores /\ store'.last = store.last /\ store'.staged = store.staged
      /\ store'.flags = store.flags
  BY <1>1, <1>2 DEF Runs, Stores
<1>4. Kinds'
  BY <1>1, <1>3 DEF PipelineInv, Kinds
<1>5. VersionsIssued'
  BY <1>3 DEF PipelineInv, VersionsIssued
<1> QED BY <1>3, <1>4, <1>5, NotUnderWay DEF PipelineInv

LEMMA InvStep == PipelineInv /\ [Next]_vars => PipelineInv'
<1> SUFFICES ASSUME PipelineInv, [Next]_vars PROVE PipelineInv'
  OBVIOUS
<1>1. CASE EditTree
  BY <1>1, EditTreeKeeps
<1>2. CASE RunStep
  <2>1. CASE NextVersion \/ Emit \/ InsertBatch \/ Flush \/ InsertErrors
    BY <2>1, NextVersionKeeps, EmitKeeps, InsertBatchKeeps, FlushKeeps, InsertErrorsKeeps
  <2>2. CASE StartPassA \/ StartPassB \/ EndPassB
    BY <2>2, StartPassAKeeps, StartPassBKeeps, EndPassBKeeps
  <2>3. CASE \E k \in 0 .. AllTables, r \in run.todo : PersistStation(r, k) \/ PersistCable(r, k)
    BY <2>3, PersistStationKeeps, PersistCableKeeps
  <2>4. CASE ClearFlags \/ RecordMetadata
    BY <2>4, ClearFlagsKeeps, RecordMetadataKeeps
  <2>5. CASE \E keepStaging \in BOOLEAN : DeleteVersion(keepStaging)
    BY <2>5, DeleteVersionKeeps
  <2> QED BY <1>2, <2>1, <2>2, <2>3, <2>4, <2>5 DEF RunStep
<1>3. CASE Stops
  BY <1>3, StopsKeeps
<1>4. CASE PruneRemoved
  BY <1>4, PruneKeeps
<1>5. CASE \E keep \in BOOLEAN : StartRun(keep)
  BY <1>5, StartRunKeeps
<1>6. CASE UNCHANGED vars
  <2>1. UNCHANGED <<tree, store, model, run>>
    BY <1>6 DEF vars
  <2>2. Staged' = Staged /\ \A kind : Roots(kind)' = Roots(kind)
    BY <2>1, StagedStays
  <2>3. Kinds' /\ VersionsIssued' /\ RootsStaged'
    BY <2>1, <2>2 DEF PipelineInv, Kinds, VersionsIssued, RootsStaged
  <2>4. StagedSoFar'
    BY <2>1, <2>2 DEF PipelineInv, StagedSoFar, InPhase2
  <2> QED BY <2>3, <2>4 DEF PipelineInv
<1> QED BY <1>1, <1>2, <1>3, <1>4, <1>5, <1>6 DEF Next

\* The invariant holds of every run, whatever fails, is killed or changes meanwhile.
THEOREM PipelineInvariant == Spec => []PipelineInv
<1> QED BY InvInit, InvStep, PTL DEF Spec

-----------------------------------------------------------------------------
(* What the runs check on small trees, for all trees and batch sizes.       *)

\* Whatever fails between two tables of a root, between two roots or between a
\* prune and the run after it: no row refers to a row that is not stored, and no
\* staged row or flag has a version that was not issued (onBatchResult, DeleteContainers).
THEOREM ImportTypeCorrect == Spec => []TypeOK
<1>1. PipelineInv => TypeOK
  BY DEF PipelineInv, Kinds, VersionsIssued, TypeOK
<1> QED BY <1>1, PipelineInvariant, PTL

\* Phase 2 of an import finds exactly the documents the import has read, all of
\* which parsed, for every size of the writer's batches and whatever earlier runs
\* have left staged (RunHJSONFiles, Writer.Emit and Flush, NextVersion).
THEOREM StagedCorrect == Spec => []StagedIsWhatWasRead
<1>1. PipelineInv => StagedIsWhatWasRead
  BY ParsedWhole DEF PipelineInv, StagedSoFar, StagedIsWhatWasRead
<1> QED BY <1>1, PipelineInvariant, PTL
-----------------------------------------------------------------------------
(* What is in the model, beyond its rows being whole.                       *)

RootIds(I) == Stations(I) \cup Cables(I)
Working == {"stage", "errors", "passA", "passB", "flags", "delete", "metadata", "ok"}
Built == {"flags", "delete", "metadata", "ok"}

\* The roots whose rows are all written, by the end of them all.
DoneRoots ==
    CASE run.pc = "passA" -> Stations(run.read.items) \ run.todo
      [] run.pc = "passB" -> RootIds(run.read.items) \ run.todo
      [] run.pc \in Built -> RootIds(run.read.items)
      [] OTHER -> {}

\* A model has the rows of p; it has only rows of the roots D.
Has(m, p) ==
    /\ p.container \subseteq m.container /\ p.node \subseteq m.node /\ p.group \subseteq m.group
    /\ \A x \in DOMAIN p.equipment : x \in DOMAIN m.equipment /\ m.equipment[x] = p.equipment[x]
    /\ \A x \in DOMAIN p.edge : x \in DOMAIN m.edge /\ m.edge[x] = p.edge[x]
HasOnly(m, I, D) ==
    /\ m.container \subseteq UNION {PartOf(I, r).container : r \in D}
    /\ m.node \subseteq UNION {PartOf(I, r).node : r \in D}
    /\ m.group \subseteq UNION {PartOf(I, r).group : r \in D}
    /\ DOMAIN m.equipment \subseteq UNION {DOMAIN PartOf(I, r).equipment : r \in D}
    /\ DOMAIN m.edge \subseteq UNION {DOMAIN PartOf(I, r).edge : r \in D}
IsModel(m) ==
    /\ m = [container |-> m.container, equipment |-> m.equipment, node |-> m.node,
            edge |-> m.edge, group |-> m.group]
    /\ m.equipment = [x \in DOMAIN m.equipment |-> m.equipment[x]]
    /\ m.edge = [x \in DOMAIN m.edge |-> m.edge[x]]

\* Every run writes whole roots; a rebuild writes nothing else; and after a prune only
\* containers of that tree are stored until a run reads another one.
ModelBuilt ==
    /\ IsModel(model)
    /\ \A r \in DoneRoots : Has(model, PartOf(run.read.items, r))
    /\ run.pc \notin {"idle", "error"} /\ ~run.keep => HasOnly(model, run.read.items, DoneRoots)
    /\ \A t \in hist.pruned : model.container \subseteq UNION {PartOf(t.items, r).container : r \in RootIds(t.items)}

\* The roots of a phase are done in order; the next cable batch has the number of cables done.
InOrder ==
    /\ run.pc \in Working => run.read \in Trees /\ hist.pruned \subseteq {run.read}
    /\ run.pc \in {"version", "emit", "stage", "errors", "passA"} => run.batch = 0
    /\ run.pc = "passA" => run.todo \subseteq Stations(run.read.items)
    /\ run.pc = "passB" =>
          /\ run.todo \subseteq Cables(run.read.items)
          /\ run.batch = Cardinality(Cables(run.read.items) \ run.todo)
          /\ \A c \in run.todo, d \in Cables(run.read.items) \ run.todo : d < c

\* A rebuild leaves nothing of an earlier run.
StoreFresh ==
    run.pc \notin {"idle", "error"} /\ ~run.keep =>
       /\ run.pc = "version" => store.staged = {} /\ store.flags = {}
       /\ run.pc # "version" => /\ \A r \in store.staged : r[1] = run.version
                                /\ \A f \in store.flags : f[1] = run.version
       /\ run.pc \in {"delete", "metadata", "ok"} => store.flags = {}
       /\ run.pc \in {"metadata", "ok"} => store.staged = {} \/ run.keepStaging

\* The metadata counts the successes.
Hists == [read : Trees \cup {NoTree}, mixed : BOOLEAN, wins : Nat, base : Nat, pruned : SUBSET Trees]
Counted ==
    /\ hist \in Hists
    /\ store.number = IF hist.wins = 0 THEN 0 ELSE hist.base + hist.wins
    /\ ~hist.mixed => ~run.keep
    /\ ~hist.mixed /\ run.pc # "ok" => store.number = 0
    /\ ~run.keep /\ run.pc \notin {"idle", "ok", "error"} => store.number = 0
    /\ run.pc = "ok" => hist.read = run.read

Contents == ModelBuilt /\ InOrder /\ StoreFresh /\ Counted
FullInv == PipelineInv /\ Contents

-----------------------------------------------------------------------------
(* The rows of two roots have nothing in common that one could overwrite.   *)

WellFormed(I) ==
    /\ IsFiniteSet(I) /\ Ids(I) \subseteq Nat
    /\ \A i, j \in I : i.id = j.id => i = j
    /\ \A i, j \in I : i.kind \in {"station", "cable"} => i.in # j.id

LEMMA TreesWellFormed == \A t \in Trees \cup {NoTree} : WellFormed(t.items)
<1> SUFFICES ASSUME NEW t \in Trees \cup {NoTree} PROVE WellFormed(t.items)
  OBVIOUS
<1>1. CASE t \in Trees
  <2>1. t.items \subseteq AllItems
    BY <1>1, TreeAssumption
  <2>2. Ids(t.items) \subseteq AllIds
    BY <2>1 DEF Ids, AllIds
  <2> QED BY <1>1, <2>2, TreeAssumption DEF WellFormed
<1>2. CASE t = NoTree
  BY <1>2, FS_EmptySet DEF WellFormed, NoTree, Ids
<1> QED BY <1>1, <1>2

\* An item is under one root at most.
LEMMA UnderOne ==
    ASSUME NEW I, WellFormed(I), NEW r \in RootIds(I), NEW q \in RootIds(I), r # q
    PROVE  Under(I, r) \cap Under(I, q) = {}
<1> SUFFICES ASSUME NEW i \in Under(I, r), i \in Under(I, q) PROVE FALSE
  OBVIOUS
<1> DEFINE Bays(x) == {b \in I : b.kind = "bay" /\ b.in = x}
<1>1. PICK a \in I : a.id = r /\ a.kind \in {"station", "cable"}
  BY DEF RootIds, Stations, Cables, Ids, OfKind
<1>2. PICK b \in I : b.id = q /\ b.kind \in {"station", "cable"}
  BY DEF RootIds, Stations, Cables, Ids, OfKind
<1>3. /\ i \in I
      /\ i.id = r \/ i.in = r \/ \E c \in Bays(r) : i.in = c.id
      /\ i.id = q \/ i.in = q \/ \E c \in Bays(q) : i.in = c.id
  BY DEF Under, OfKind, Ids
<1>4. i.id # r /\ i.id # q
  <2>1. CASE i.id = r
    <3>1. i = a /\ i.id # q
      BY <1>1, <1>3, <2>1 DEF WellFormed
    <3>2. i.in # q /\ \A c \in Bays(q) : i.in # c.id
      BY <1>1, <1>2, <3>1 DEF WellFormed
    <3> QED BY <1>3, <3>1, <3>2
  <2>2. CASE i.id = q
    <3>1. i = b /\ i.id # r
      BY <1>2, <1>3, <2>2 DEF WellFormed
    <3>2. i.in # r /\ \A c \in Bays(r) : i.in # c.id
      BY <1>1, <1>2, <3>1 DEF WellFormed
    <3> QED BY <1>3, <3>1, <3>2
  <2> QED BY <2>1, <2>2
<1>5. i.in # r
  <2> SUFFICES ASSUME i.in = r PROVE FALSE
    OBVIOUS
  <2>1. PICK c \in Bays(q) : c.id = r
    BY <1>3, <1>4
  <2>2. c = a
    BY <1>1, <2>1 DEF WellFormed
  <2> QED BY <1>1, <2>1, <2>2
<1>6. i.in # q
  <2> SUFFICES ASSUME i.in = q PROVE FALSE
    OBVIOUS
  <2>1. PICK c \in Bays(r) : c.id = q
    BY <1>3, <1>4
  <2>2. c = b
    BY <1>2, <2>1 DEF WellFormed
  <2> QED BY <1>2, <2>1, <2>2
<1>7. PICK c \in Bays(r), d \in Bays(q) : i.in = c.id /\ i.in = d.id
  BY <1>3, <1>4, <1>5, <1>6
<1>8. c = d
  BY <1>7 DEF WellFormed
<1> QED BY <1>7, <1>8

LEMMA IdsFinite ==
    ASSUME NEW S, IsFiniteSet(S)
    PROVE  IsFiniteSet(Ids(S))
<1> DEFINE f == [i \in S |-> i.id]
<1>1. f \in Surjection(S, Ids(S))
  BY DEF Surjection, Ids
<1> QED BY <1>1, FS_Surjection

\* A station and a cable never have the same ID.
LEMMA RootKinds ==
    ASSUME NEW I, WellFormed(I)
    PROVE  /\ Stations(I) \cap Cables(I) = {}
           /\ IsFiniteSet(Cables(I)) /\ Cables(I) \subseteq Nat /\ RootIds(I) \subseteq Nat
<1>1. Stations(I) \cap Cables(I) = {}
  BY DEF WellFormed, Stations, Cables, Ids, OfKind
<1>2. RootIds(I) \subseteq Nat
  BY DEF WellFormed, RootIds, Stations, Cables, Ids, OfKind
<1>3. IsFiniteSet(Cables(I))
  <2>1. IsFiniteSet(OfKind(I, {"cable"}))
    BY FS_Subset DEF WellFormed, OfKind
  <2> QED BY <2>1, IdsFinite DEF Cables
<1> QED BY <1>1, <1>2, <1>3 DEF RootIds

\* The cables before a cable tell it from the others.
LEMMA CablesCounted ==
    ASSUME NEW I, WellFormed(I), NEW c \in Cables(I), NEW d \in Cables(I), c # d
    PROVE  Cardinality({e \in Cables(I) : e < c}) # Cardinality({e \in Cables(I) : e < d})
<1> DEFINE Before(x) == {e \in Cables(I) : e < x}
<1>1. IsFiniteSet(Cables(I)) /\ Cables(I) \subseteq Nat
  BY RootKinds
<1>2. ASSUME NEW x \in Cables(I), NEW y \in Cables(I), x < y
      PROVE  Cardinality(Before(x)) # Cardinality(Before(y))
  <2>1. Before(x) \subseteq Before(y) /\ x \in Before(y) /\ x \notin Before(x)
    BY <1>1, <1>2
  <2>2. IsFiniteSet(Before(y))
    BY <1>1, FS_Subset
  <2> HIDE DEF Before
  <2>3. Before(x) # Before(y)
    BY <2>1
  <2> QED BY <2>1, <2>2, <2>3, FS_Subset
<1>3. c < d \/ d < c
  BY <1>1
<1> QED BY <1>2, <1>3

LEMMA OwnersDiffer ==
    ASSUME NEW I, WellFormed(I), NEW r \in RootIds(I), NEW q \in RootIds(I), r # q
    PROVE  OwnerOf(I, r) # OwnerOf(I, q)
<1>1. CASE r \in Stations(I) /\ q \in Stations(I)
  BY <1>1 DEF OwnerOf, StationOwner
<1>2. CASE r \notin Stations(I) /\ q \notin Stations(I)
  <2>1. r \in Cables(I) /\ q \in Cables(I)
    BY <1>2 DEF RootIds
  <2>2. Cardinality({e \in Cables(I) : e < r}) # Cardinality({e \in Cables(I) : e < q})
    BY <2>1, CablesCounted
  <2> QED BY <1>2, <2>2 DEF OwnerOf, PassBOwner
<1>3. CASE ~(r \in Stations(I) <=> q \in Stations(I))
  BY <1>3 DEF OwnerOf, StationOwner, PassBOwner
<1> QED BY <1>1, <1>2, <1>3

\* Two parts of a model share no equipment and no owner of groups.
Separate(p, q) ==
    /\ DOMAIN p.equipment \cap DOMAIN q.equipment = {}
    /\ DOMAIN p.edge \cap DOMAIN q.edge = {}
    /\ \A g \in p.group, h \in q.group : g[2] # h[2]

LEMMA RowsOfTables ==
    ASSUME NEW I, NEW owner
    PROVE  LET p == RowsOf(I, owner)
               E == OfKind(I, {"equipment", "cable"})
           IN  /\ DOMAIN p.equipment = Ids(E) /\ DOMAIN p.edge = Ids(E)
               /\ \A g \in p.group : g[2] = owner
BY DEF RowsOf

LEMMA PartsSeparate ==
    ASSUME NEW I, WellFormed(I), NEW r \in RootIds(I), NEW q \in RootIds(I), r # q
    PROVE  Separate(PartOf(I, r), PartOf(I, q))
<1> DEFINE E(x) == OfKind(Under(I, x), {"equipment", "cable"})
<1>1. Ids(E(r)) \cap Ids(E(q)) = {}
  <2> SUFFICES ASSUME NEW i \in E(r), NEW j \in E(q), i.id = j.id PROVE FALSE
    BY DEF Ids
  <2>1. i \in Under(I, r) /\ j \in Under(I, q) /\ i \in I /\ j \in I
    BY DEF OfKind, Under
  <2>2. i = j
    BY <2>1 DEF WellFormed
  <2> QED BY <2>1, <2>2, UnderOne
<1>2. OwnerOf(I, r) # OwnerOf(I, q)
  BY OwnersDiffer
<1> HIDE DEF E
<1>3. \A x \in {r, q} : /\ DOMAIN PartOf(I, x).equipment = Ids(E(x)) /\ DOMAIN PartOf(I, x).edge = Ids(E(x))
                        /\ \A g \in PartOf(I, x).group : g[2] = OwnerOf(I, x)
  BY RowsOfTables DEF PartOf, E
<1> QED BY <1>1, <1>2, <1>3 DEF Separate

-----------------------------------------------------------------------------
(* What a write of a root and a prune leave.                                *)

\* The tables after a write of all of p.
LEMMA WriteIs ==
    ASSUME NEW m, NEW p
    PROVE  LET w == Write(AllTables, m, p)
           IN  /\ w.container = m.container \cup p.container
               /\ w.equipment = Over(p.equipment, m.equipment)
               /\ w.node = m.node \cup p.node
               /\ w.edge = Over(p.edge, m.edge)
               /\ w.group = {g \in m.group : \A h \in p.group : g[2] # h[2]} \cup p.group
BY DEF Write, AllTables

LEMMA WriteHas ==
    ASSUME NEW m, NEW p
    PROVE  Has(Write(AllTables, m, p), p)
<1> DEFINE w == Write(AllTables, m, p)
<1>1. /\ w.container = m.container \cup p.container /\ w.node = m.node \cup p.node
      /\ w.equipment = Over(p.equipment, m.equipment) /\ w.edge = Over(p.edge, m.edge)
      /\ p.group \subseteq w.group
  BY WriteIs
<1> HIDE DEF w
<1>2. \A x \in DOMAIN p.equipment : x \in DOMAIN w.equipment /\ w.equipment[x] = p.equipment[x]
  BY <1>1 DEF Over
<1>3. \A x \in DOMAIN p.edge : x \in DOMAIN w.edge /\ w.edge[x] = p.edge[x]
  BY <1>1 DEF Over
<1> QED BY <1>1, <1>2, <1>3 DEF Has, w

\* What is separate from p stays as it was.
LEMMA WriteKeepsHas ==
    ASSUME NEW m, NEW p, NEW q, Has(m, q), Separate(p, q)
    PROVE  Has(Write(AllTables, m, p), q)
<1> DEFINE w == Write(AllTables, m, p)
<1>1. /\ w.container = m.container \cup p.container /\ w.node = m.node \cup p.node
      /\ w.equipment = Over(p.equipment, m.equipment) /\ w.edge = Over(p.edge, m.edge)
      /\ w.group = {g \in m.group : \A h \in p.group : g[2] # h[2]} \cup p.group
  BY WriteIs
<1> HIDE DEF w
<1>2. ASSUME NEW x \in DOMAIN q.equipment PROVE x \in DOMAIN w.equipment /\ w.equipment[x] = q.equipment[x]
  <2>1. x \in DOMAIN m.equipment \ DOMAIN p.equipment /\ m.equipment[x] = q.equipment[x]
    BY DEF Has, Separate
  <2> QED BY <1>1, <2>1 DEF Over
<1>3. ASSUME NEW x \in DOMAIN q.edge PROVE x \in DOMAIN w.edge /\ w.edge[x] = q.edge[x]
  <2>1. x \in DOMAIN m.edge \ DOMAIN p.edge /\ m.edge[x] = q.edge[x]
    BY DEF Has, Separate
  <2> QED BY <1>1, <2>1 DEF Over
<1>4. q.group \subseteq w.group
  BY <1>1 DEF Has, Separate
<1>5. q.container \subseteq w.container /\ q.node \subseteq w.node
  BY <1>1 DEF Has
<1> QED BY <1>2, <1>3, <1>4, <1>5 DEF Has, w

LEMMA WriteHasOnly ==
    ASSUME NEW m, NEW I, NEW D, NEW r, HasOnly(m, I, D)
    PROVE  HasOnly(Write(AllTables, m, PartOf(I, r)), I, D \cup {r})
<1> DEFINE p == PartOf(I, r)
           w == Write(AllTables, m, p)
<1>1. /\ w.container = m.container \cup p.container /\ w.node = m.node \cup p.node
      /\ w.equipment = Over(p.equipment, m.equipment) /\ w.edge = Over(p.edge, m.edge)
      /\ w.group \subseteq m.group \cup p.group
  BY WriteIs
<1>2. /\ DOMAIN w.equipment = DOMAIN p.equipment \cup DOMAIN m.equipment
      /\ DOMAIN w.edge = DOMAIN p.edge \cup DOMAIN m.edge
  BY <1>1 DEF Over
<1> HIDE DEF w
<1> QED BY <1>1, <1>2 DEF HasOnly, w

\* However far a write gets, it adds the containers of p only.
LEMMA WriteContainers ==
    ASSUME NEW m, NEW p, NEW k
    PROVE  Write(k, m, p).container \subseteq m.container \cup p.container
BY DEF Write

LEMMA OverIsFunction ==
    ASSUME NEW f, NEW g
    PROVE  Over(f, g) = [x \in DOMAIN Over(f, g) |-> Over(f, g)[x]]
BY DEF Over

LEMMA WriteIsModel ==
    ASSUME NEW m, IsModel(m), NEW p, NEW k
    PROVE  IsModel(Write(k, m, p))
<1> DEFINE w == Write(k, m, p)
<1>1. /\ w = [container |-> w.container, equipment |-> w.equipment, node |-> w.node,
              edge |-> w.edge, group |-> w.group]
      /\ w.equipment \in {m.equipment, Over(p.equipment, m.equipment)}
      /\ w.edge \in {m.edge, Over(p.edge, m.edge)}
  BY DEF Write
<1> HIDE DEF w
<1>2. w.equipment = [x \in DOMAIN w.equipment |-> w.equipment[x]]
  BY <1>1, OverIsFunction DEF IsModel
<1>3. w.edge = [x \in DOMAIN w.edge |-> w.edge[x]]
  BY <1>1, OverIsFunction DEF IsModel
<1> QED BY <1>1, <1>2, <1>3 DEF IsModel, w

LEMMA DeleteIsModel ==
    ASSUME NEW m, NEW S
    PROVE  /\ IsModel(DeleteContainers(m, S))
           /\ DeleteContainers(m, S).container = m.container \ S
BY DEF DeleteContainers, IsModel, Restrict

LEMMA EmptyIsModel == IsModel(EmptyModel) /\ \A I : HasOnly(EmptyModel, I, {})
BY DEF EmptyModel, IsModel, HasOnly, NoRow

\* A model that has the rows of every root and no others is the expected one.
LEMMA Exact ==
    ASSUME NEW I, NEW m, IsModel(m), \A r \in RootIds(I) : Has(m, PartOf(I, r)),
           HasOnly(m, I, RootIds(I))
    PROVE  m = Expected(I)
<1> DEFINE P == {PartOf(I, r) : r \in RootIds(I)}
           one(x) == CHOOSE p \in P : x \in DOMAIN p.equipment
           E == UNION {DOMAIN p.equipment : p \in P}
<1>1. \A p \in P : Has(m, p) /\ DOMAIN p.edge = DOMAIN p.equipment
  BY DEF PartOf, RowsOf
<1>2. \A x \in E : one(x) \in P /\ x \in DOMAIN one(x).equipment
  OBVIOUS
<1>3. /\ m.container \subseteq UNION {p.container : p \in P}
      /\ m.node \subseteq UNION {p.node : p \in P}
      /\ m.group \subseteq UNION {p.group : p \in P}
      /\ DOMAIN m.equipment \subseteq E
      /\ DOMAIN m.edge \subseteq UNION {DOMAIN p.edge : p \in P}
  BY DEF HasOnly
<1>4. Expected(I) = [container |-> UNION {p.container : p \in P},
         equipment |-> [x \in E |-> one(x).equipment[x]],
         node |-> UNION {p.node : p \in P},
         edge |-> [x \in E |-> one(x).edge[x]],
         group |-> UNION {p.group : p \in P}]
  BY DEF Expected, RootIds
<1> HIDE DEF P, one
<1>5. /\ m.container = UNION {p.container : p \in P}
      /\ m.node = UNION {p.node : p \in P}
      /\ m.group = UNION {p.group : p \in P}
  BY <1>1, <1>3 DEF Has
<1>6. DOMAIN m.equipment = E
  BY <1>1, <1>3 DEF Has
<1>7. DOMAIN m.edge = E
  BY <1>1, <1>3 DEF Has
<1> HIDE DEF E
<1>8. m.equipment = [x \in E |-> one(x).equipment[x]]
  <2>1. \A x \in E : m.equipment[x] = one(x).equipment[x]
    BY <1>1, <1>2 DEF Has
  <2>2. m.equipment = [x \in E |-> m.equipment[x]]
    BY <1>6 DEF IsModel
  <2> QED BY <2>1, <2>2
<1>9. m.edge = [x \in E |-> one(x).edge[x]]
  <2>1. \A x \in E : m.edge[x] = one(x).edge[x]
    BY <1>1, <1>2 DEF Has
  <2>2. m.edge = [x \in E |-> m.edge[x]]
    BY <1>7 DEF IsModel
  <2> QED BY <2>1, <2>2
<1>10. m = [container |-> m.container, equipment |-> m.equipment, node |-> m.node,
            edge |-> m.edge, group |-> m.group]
  BY DEF IsModel
<1> QED BY <1>4, <1>5, <1>8, <1>9, <1>10

LEMMA RootInPart ==
    ASSUME NEW I, NEW r \in RootIds(I)
    PROVE  r \in PartOf(I, r).container
<1>1. PICK i \in I : i.id = r /\ i.kind \in {"station", "cable"}
  BY DEF RootIds, Stations, Cables, Ids, OfKind
<1>2. i \in Under(I, r)
  BY <1>1 DEF Under
<1> QED BY <1>1, <1>2 DEF PartOf, RowsOf, Ids, OfKind

-----------------------------------------------------------------------------
(* The contents, action by action.                                          *)

\* Phase 2 finds the stations and the cables of the documents that the run has read.
LEMMA RootsRead ==
    ASSUME PipelineInv, InPhase2 \/ (run.pc = "errors" /\ run.read.bad = {})
    PROVE  /\ Staged = run.read.items
           /\ Roots("station") = Stations(run.read.items)
           /\ Roots("cable") = Cables(run.read.items)
<1>1. Staged = Parsed(run.read) /\ run.read.bad = {}
  BY DEF PipelineInv, StagedSoFar
<1>2. Staged = run.read.items
  BY <1>1, ParsedWhole
<1> QED BY <1>2 DEF Roots, Stations, Cables

LEMMA ReadWellFormed ==
    ASSUME PipelineInv
    PROVE  WellFormed(run.read.items) /\ run \in Runs
BY TreesWellFormed DEF PipelineInv, Kinds, Runs

LEMMA DoneAreRoots == DoneRoots \subseteq RootIds(run.read.items)
BY DEF DoneRoots, RootIds

\* A step that leaves the model, what was read and the roots done, or ends the run.
LEMMA ModelStays ==
    ASSUME ModelBuilt, model' = model, run'.read = run.read, run'.keep = run.keep,
           hist'.pruned = hist.pruned,
           run'.pc = "error" \/ (run.pc \notin {"idle", "error"} /\ DoneRoots' = DoneRoots)
    PROVE  ModelBuilt'
<1>1. DoneRoots' \subseteq DoneRoots
  BY DEF DoneRoots, Built
<1>2. run'.pc \notin {"idle", "error"} => DoneRoots' = DoneRoots /\ run.pc \notin {"idle", "error"}
  OBVIOUS
<1> QED BY <1>1, <1>2 DEF ModelBuilt

LEMMA ContentsInit == Init => Contents
<1> SUFFICES ASSUME Init PROVE Contents
  OBVIOUS
<1>1. run = Idle /\ store = EmptyStore /\ model = EmptyModel /\ hist = Fresh
  BY DEF Init
<1>2. DoneRoots = {} /\ run.pc = "idle" /\ hist.pruned = {}
  BY <1>1 DEF DoneRoots, Idle, Built, Fresh
<1>3. ModelBuilt
  BY <1>1, <1>2, EmptyIsModel DEF ModelBuilt
<1>4. InOrder /\ StoreFresh
  BY <1>2 DEF InOrder, StoreFresh, Working
<1>5. Counted
  BY <1>1 DEF Counted, Hists, Fresh, Idle, EmptyStore
<1> QED BY <1>3, <1>4, <1>5 DEF Contents

LEMMA EditTreeContents == FullInv /\ EditTree => Contents'
<1> SUFFICES ASSUME FullInv, EditTree PROVE Contents'
  OBVIOUS
<1>1. UNCHANGED <<store, model, run, hist>>
  BY DEF EditTree
<1>2. DoneRoots' = DoneRoots
  BY <1>1 DEF DoneRoots
<1> QED BY <1>1, <1>2 DEF FullInv, Contents, ModelBuilt, InOrder, StoreFresh, Counted

\* A rebuild starts from nothing; an incremental run from what there is.
LEMMA StartRunContents ==
    ASSUME FullInv, NEW keep \in BOOLEAN, StartRun(keep)
    PROVE  Contents'
<1>1. /\ run'.pc = "version" /\ run'.keep = keep /\ run'.batch = 0
      /\ IF keep THEN store' = store /\ model' = model /\ hist' = [hist EXCEPT !.mixed = TRUE]
         ELSE store' = EmptyStore /\ model' = EmptyModel /\ hist' = Fresh
  BY DEF StartRun, Idle, ResetBackend
<1>2. DoneRoots' = {}
  BY <1>1 DEF DoneRoots, Built
<1>3. hist \in Hists
  BY DEF FullInv, Contents, Counted
<1>4. CASE keep
  <2>1. /\ store' = store /\ model' = model /\ run'.keep
        /\ hist' \in Hists /\ hist'.pruned = hist.pruned /\ hist'.mixed
        /\ hist'.wins = hist.wins /\ hist'.base = hist.base
    BY <1>1, <1>3, <1>4 DEF Hists
  <2>2. ModelBuilt'
    BY <1>2, <2>1 DEF FullInv, Contents, ModelBuilt
  <2>3. InOrder' /\ StoreFresh'
    BY <1>1, <2>1 DEF InOrder, StoreFresh, Working
  <2>4. Counted'
    BY <1>1, <2>1 DEF FullInv, Contents, Counted
  <2> QED BY <2>2, <2>3, <2>4 DEF Contents
<1>5. CASE ~keep
  <2>1. store' = EmptyStore /\ model' = EmptyModel /\ hist' = Fresh /\ ~run'.keep
    BY <1>1, <1>5
  <2>2. ModelBuilt'
    BY <1>2, <2>1, EmptyIsModel DEF ModelBuilt, Fresh
  <2>3. InOrder' /\ StoreFresh'
    BY <1>1, <2>1 DEF InOrder, StoreFresh, Working, EmptyStore
  <2>4. Counted'
    BY <1>1, <2>1 DEF Counted, Hists, Fresh, EmptyStore
  <2> QED BY <2>2, <2>3, <2>4 DEF Contents
<1> QED BY <1>4, <1>5

\* A prune leaves the stations of its tree; the run after it is incremental.
LEMMA PruneContents == FullInv /\ PruneRemoved => Contents'
<1> SUFFICES ASSUME FullInv, PruneRemoved PROVE Contents'
  OBVIOUS
<1>1. /\ run' = Idle /\ store' = store /\ model' = DeleteContainers(model, Stale)
      /\ hist' = [hist EXCEPT !.mixed = TRUE, !.pruned = {tree}] /\ tree \in Trees
  BY DEF PruneRemoved, FullInv, PipelineInv, Kinds
<1>2. hist \in Hists
  BY DEF FullInv, Contents, Counted
<1>3. /\ hist' \in Hists /\ hist'.pruned = {tree} /\ hist'.mixed
      /\ hist'.wins = hist.wins /\ hist'.base = hist.base /\ hist'.read = hist.read
  BY <1>1, <1>2 DEF Hists
<1>4. DoneRoots' = {} /\ run'.pc = "idle"
  BY <1>1 DEF DoneRoots, Idle, Built
<1>5. ModelBuilt'
  <2>1. IsModel(model') /\ model'.container = model.container \ Stale
    BY <1>1, DeleteIsModel
  <2>2. model'.container \subseteq Stations(tree.items)
    BY <2>1 DEF Stale, Stations
  <2>3. \A s \in Stations(tree.items) : s \in PartOf(tree.items, s).container /\ s \in RootIds(tree.items)
    BY RootInPart DEF RootIds
  <2>4. model'.container \subseteq UNION {PartOf(tree.items, r).container : r \in RootIds(tree.items)}
    BY <2>2, <2>3
  <2> QED BY <1>3, <1>4, <2>1, <2>4 DEF ModelBuilt
<1>6. InOrder' /\ StoreFresh'
  BY <1>4 DEF InOrder, StoreFresh, Working
<1>7. Counted'
  BY <1>1, <1>3, <1>4 DEF FullInv, Contents, Counted
<1> QED BY <1>5, <1>6, <1>7 DEF Contents

\* A run that stops leaves what it has written.
LEMMA StopsContents ==
    ASSUME FullInv, Stops \/ InsertErrors
    PROVE  Contents'
<1>1. /\ run \in Runs /\ run' = [run EXCEPT !.pc = "error"] /\ run.pc \notin {"idle", "ok", "error"}
      /\ model' = model /\ hist' = hist /\ store \in Stores
      /\ store' \in {store, [store EXCEPT !.errors = @ \cup {run.version}]}
  BY DEF Stops, InsertErrors, FullInv, PipelineInv, Kinds
<1>2. /\ run'.pc = "error" /\ run'.read = run.read /\ run'.keep = run.keep
      /\ store'.number = store.number
  BY <1>1 DEF Runs, Stores
<1>3. ModelBuilt'
  BY <1>1, <1>2, ModelStays DEF FullInv, Contents
<1>4. InOrder' /\ StoreFresh'
  BY <1>2 DEF InOrder, StoreFresh, Working
<1>5. Counted'
  BY <1>1, <1>2 DEF FullInv, Contents, Counted
<1> QED BY <1>3, <1>4, <1>5 DEF Contents

LEMMA NextVersionContents == FullInv /\ NextVersion => Contents'
<1> SUFFICES ASSUME FullInv, NextVersion PROVE Contents'
  OBVIOUS
<1>1. /\ run \in Runs /\ store \in Stores /\ run.pc = "version" /\ model' = model /\ hist' = hist
      /\ run' = [run EXCEPT !.pc = "emit", !.version = store.last + 1]
      /\ store' = [store EXCEPT !.last = @ + 1]
  BY DEF NextVersion, FullInv, PipelineInv, Kinds
<1>2. /\ run'.pc = "emit" /\ run'.read = run.read /\ run'.keep = run.keep
      /\ run'.batch = run.batch
      /\ store'.number = store.number /\ store'.staged = store.staged /\ store'.flags = store.flags
  BY <1>1 DEF Runs, Stores
<1>3. ModelBuilt'
  <2>1. DoneRoots' = DoneRoots
    BY <1>1, <1>2 DEF DoneRoots, Built
  <2> QED BY <1>1, <1>2, <2>1, ModelStays DEF FullInv, Contents
<1>4. InOrder' /\ StoreFresh'
  BY <1>1, <1>2 DEF FullInv, Contents, InOrder, StoreFresh, Working
<1>5. Counted'
  BY <1>1, <1>2 DEF FullInv, Contents, Counted
<1> QED BY <1>3, <1>4, <1>5 DEF Contents

\* Whatever the run then reads, nothing of it is written yet.
LEMMA EmitContents == FullInv /\ Emit => Contents'
<1> SUFFICES ASSUME FullInv, Emit PROVE Contents'
  OBVIOUS
<1>1. /\ run \in Runs /\ run.pc = "emit" /\ model' = model /\ store' = store
      /\ run' = [run EXCEPT !.pc = "stage", !.read = tree] /\ tree \in Trees
      /\ hist' = [hist EXCEPT !.pruned = @ \cap {tree}] /\ hist \in Hists
  BY DEF Emit, FullInv, Contents, Counted, PipelineInv, Kinds
<1>2. /\ run'.pc = "stage" /\ run'.read = tree /\ run'.keep = run.keep /\ run'.version = run.version
      /\ run'.batch = run.batch /\ hist' \in Hists /\ hist'.pruned = hist.pruned \cap {tree} /\ hist'.mixed = hist.mixed
      /\ hist'.wins = hist.wins /\ hist'.base = hist.base
  BY <1>1 DEF Runs, Hists
<1>3. ModelBuilt'
  <2>1. DoneRoots' = {} /\ DoneRoots = {}
    BY <1>1, <1>2 DEF DoneRoots, Built
  <2>2. ~run.keep => HasOnly(model, run.read.items, {})
    BY <1>1, <2>1 DEF FullInv, Contents, ModelBuilt
  <2>3. ~run.keep => HasOnly(model, tree.items, {})
    BY <2>2 DEF HasOnly
  <2> QED BY <1>1, <1>2, <2>1, <2>3 DEF FullInv, Contents, ModelBuilt
<1>4. InOrder' /\ StoreFresh'
  BY <1>1, <1>2 DEF FullInv, Contents, InOrder, StoreFresh, Working
<1>5. Counted'
  BY <1>1, <1>2 DEF FullInv, Contents, Counted
<1> QED BY <1>3, <1>4, <1>5 DEF Contents

\* Staging writes rows of the run's version, and no model row.
LEMMA StageContents ==
    ASSUME FullInv, InsertBatch \/ Flush
    PROVE  Contents'
<1>1. PICK n : Insert(n) /\ run.pc = "stage" /\ model' = model /\ hist' = hist
               /\ run' \in {[run EXCEPT !.sent = @ + Size], [run EXCEPT !.pc = "errors"]}
  BY DEF InsertBatch, Flush
<1>2. run \in Runs /\ store \in Stores
  BY DEF FullInv, PipelineInv, Kinds
<1>3. /\ run'.pc \in {"stage", "errors"} /\ run'.read = run.read /\ run'.keep = run.keep
      /\ run'.version = run.version /\ run'.batch = run.batch
  BY <1>1, <1>2 DEF Runs
<1>4. /\ store'.number = store.number /\ store'.flags = store.flags
      /\ \A r \in store'.staged : r \in store.staged \/ r[1] = run.version
  BY <1>1, <1>2 DEF Insert, Stores
<1>5. ModelBuilt'
  <2>1. DoneRoots' = DoneRoots
    BY <1>1, <1>3 DEF DoneRoots, Built
  <2> QED BY <1>1, <1>3, <2>1, ModelStays DEF FullInv, Contents
<1>6. InOrder'
  BY <1>1, <1>3 DEF FullInv, Contents, InOrder, Working
<1>7. StoreFresh'
  BY <1>1, <1>3, <1>4 DEF FullInv, Contents, StoreFresh
<1>8. Counted'
  BY <1>1, <1>3, <1>4 DEF FullInv, Contents, Counted
<1> QED BY <1>5, <1>6, <1>7, <1>8 DEF Contents

LEMMA StartPassAContents == FullInv /\ StartPassA => Contents'
<1> SUFFICES ASSUME FullInv, StartPassA PROVE Contents'
  OBVIOUS
<1>1. /\ run \in Runs /\ run.pc = "errors" /\ model' = model /\ hist' = hist /\ store' = store
      /\ run.read.bad = {}
      /\ run' = [run EXCEPT !.pc = "passA", !.todo = Roots("station")]
  BY DEF StartPassA, FullInv, PipelineInv, Kinds
<1>2. Roots("station") = Stations(run.read.items)
  BY <1>1, RootsRead DEF FullInv
<1>3. /\ run'.pc = "passA" /\ run'.read = run.read /\ run'.keep = run.keep
      /\ run'.version = run.version /\ run'.todo = Stations(run.read.items)
      /\ run'.batch = run.batch
  BY <1>1, <1>2 DEF Runs
<1>4. ModelBuilt'
  <2>1. DoneRoots' = DoneRoots
    BY <1>1, <1>3 DEF DoneRoots, Built
  <2> QED BY <1>1, <1>3, <2>1, ModelStays DEF FullInv, Contents
<1>5. InOrder' /\ StoreFresh'
  BY <1>1, <1>3 DEF FullInv, Contents, InOrder, StoreFresh, Working
<1>6. Counted'
  BY <1>1, <1>3 DEF FullInv, Contents, Counted
<1> QED BY <1>4, <1>5, <1>6 DEF Contents

\* Every station is done when Pass B starts, and no cable.
LEMMA StartPassBContents == FullInv /\ StartPassB => Contents'
<1> SUFFICES ASSUME FullInv, StartPassB PROVE Contents'
  OBVIOUS
<1> DEFINE I == run.read.items
<1>1. /\ run \in Runs /\ run.pc = "passA" /\ run.todo = {} /\ model' = model /\ hist' = hist
      /\ store' = store /\ run' = [run EXCEPT !.pc = "passB", !.todo = Roots("cable")]
  BY DEF StartPassB, FullInv, PipelineInv, Kinds
<1>2. Roots("cable") = Cables(I)
  BY <1>1, RootsRead DEF FullInv, InPhase2
<1>3. /\ run'.pc = "passB" /\ run'.read = run.read /\ run'.keep = run.keep
      /\ run'.version = run.version /\ run'.todo = Cables(I) /\ run'.batch = run.batch
  BY <1>1, <1>2 DEF Runs
<1>4. Stations(I) \cap Cables(I) = {}
  BY RootKinds, ReadWellFormed DEF FullInv
<1>5. ModelBuilt'
  <2>1. DoneRoots = Stations(I)
    BY <1>1 DEF DoneRoots, Built
  <2>2. DoneRoots' = RootIds(I) \ Cables(I)
    BY <1>3 DEF DoneRoots, Built
  <2>3. DoneRoots' = DoneRoots
    BY <1>4, <2>1, <2>2 DEF RootIds
  <2> QED BY <1>1, <1>3, <2>3, ModelStays DEF FullInv, Contents
<1>6. run.batch = 0
  BY <1>1 DEF FullInv, Contents, InOrder
<1>7. InOrder'
  BY <1>1, <1>3, <1>6, FS_EmptySet DEF FullInv, Contents, InOrder, Working
<1>8. StoreFresh'
  BY <1>1, <1>3 DEF FullInv, Contents, StoreFresh
<1>9. Counted'
  BY <1>1, <1>3 DEF FullInv, Contents, Counted
<1> QED BY <1>5, <1>7, <1>8, <1>9 DEF Contents

LEMMA EndPassBContents == FullInv /\ EndPassB => Contents'
<1> SUFFICES ASSUME FullInv, EndPassB PROVE Contents'
  OBVIOUS
<1>1. /\ run \in Runs /\ run.pc = "passB" /\ run.todo = {} /\ model' = model /\ hist' = hist
      /\ store' = store /\ run' = [run EXCEPT !.pc = "flags"]
  BY DEF EndPassB, FullInv, PipelineInv, Kinds
<1>2. /\ run'.pc = "flags" /\ run'.read = run.read /\ run'.keep = run.keep
      /\ run'.version = run.version
  BY <1>1 DEF Runs
<1>3. ModelBuilt'
  <2>1. DoneRoots' = DoneRoots
    BY <1>1, <1>2 DEF DoneRoots, Built
  <2> QED BY <1>1, <1>2, <2>1, ModelStays DEF FullInv, Contents
<1>4. InOrder' /\ StoreFresh'
  BY <1>1, <1>2 DEF FullInv, Contents, InOrder, StoreFresh, Working
<1>5. Counted'
  BY <1>1, <1>2 DEF FullInv, Contents, Counted
<1> QED BY <1>3, <1>4, <1>5 DEF Contents

\* The model after the rows of one more root: with all its tables it has them, those
\* of the roots before and no others.
LEMMA RootBuilt ==
    ASSUME FullInv, run.pc \in {"passA", "passB"}, NEW r \in RootIds(run.read.items),
           r \notin DoneRoots, NEW k,
           model' = Write(k, model, PartOf(run.read.items, r)),
           run'.read = run.read, run'.keep = run.keep, hist' = hist,
           run'.pc = "error" \/ (k = AllTables /\ DoneRoots' = DoneRoots \cup {r})
    PROVE  ModelBuilt'
<1> DEFINE I == run.read.items  p == PartOf(I, r)
<1>1. /\ IsModel(model) /\ \A q \in DoneRoots : Has(model, PartOf(I, q))
      /\ ~run.keep => HasOnly(model, I, DoneRoots)
      /\ \A t \in hist.pruned :
            model.container \subseteq UNION {PartOf(t.items, q).container : q \in RootIds(t.items)}
  BY DEF FullInv, Contents, ModelBuilt
<1>2. IsModel(model')
  BY <1>1, WriteIsModel
<1>3. \A t \in hist.pruned :
         model'.container \subseteq UNION {PartOf(t.items, q).container : q \in RootIds(t.items)}
  <2> SUFFICES ASSUME NEW t \in hist.pruned
               PROVE  model'.container \subseteq UNION {PartOf(t.items, q).container : q \in RootIds(t.items)}
    OBVIOUS
  <2>1. t = run.read
    BY DEF FullInv, Contents, InOrder, Working
  <2>2. p.container \subseteq UNION {PartOf(I, q).container : q \in RootIds(I)}
    OBVIOUS
  <2>3. model'.container \subseteq model.container \cup p.container
    BY WriteContainers
  <2> HIDE DEF p
  <2> QED BY <1>1, <2>1, <2>2, <2>3
<1>4. CASE run'.pc = "error"
  <2>1. DoneRoots' = {}
    BY <1>4 DEF DoneRoots, Built
  <2> QED BY <1>2, <1>3, <1>4, <2>1 DEF ModelBuilt
<1>5. CASE k = AllTables /\ DoneRoots' = DoneRoots \cup {r}
  <2>1. WellFormed(I) /\ DoneRoots \subseteq RootIds(I)
    BY ReadWellFormed, DoneAreRoots DEF FullInv
  <2>2. \A q \in DoneRoots : Separate(p, PartOf(I, q))
    BY <2>1, PartsSeparate
  <2>3. \A q \in DoneRoots : Has(model', PartOf(I, q))
    BY <1>1, <1>5, <2>2, WriteKeepsHas
  <2>4. Has(model', p)
    BY <1>5, WriteHas
  <2>5. ~run.keep => HasOnly(model', I, DoneRoots \cup {r})
    BY <1>1, <1>5, WriteHasOnly
  <2> QED BY <1>2, <1>3, <1>5, <2>3, <2>4, <2>5 DEF ModelBuilt
<1> QED BY <1>4, <1>5

\* The flags of a root have the run's version.
LEMMA MarkIs ==
    ASSUME FullInv, NEW J, Mark(J)
    PROVE  /\ store'.number = store.number /\ store'.staged = store.staged
           /\ \A f \in store'.flags : f \in store.flags \/ f[1] = run.version
BY DEF FullInv, PipelineInv, Kinds, Stores, Mark

LEMMA PersistStationContents ==
    ASSUME FullInv, NEW k \in 0 .. AllTables, NEW s \in run.todo, PersistStation(s, k)
    PROVE  Contents'
<1> DEFINE I == run.read.items
<1>1. /\ run \in Runs /\ run.pc = "passA" /\ hist' = hist
      /\ model' = Write(k, model, RowsOf(Under(Staged, s), StationOwner(s)))
      /\ run' = IF k = AllTables THEN [run EXCEPT !.todo = @ \ {s}] ELSE [run EXCEPT !.pc = "error"]
  BY DEF PersistStation, FullInv, PipelineInv, Kinds
<1>2. Staged = I /\ s \in Stations(I) /\ run.todo \subseteq Stations(I)
  BY <1>1, RootsRead DEF FullInv, InPhase2, Contents, InOrder
<1>3. model' = Write(k, model, PartOf(I, s))
  BY <1>1, <1>2 DEF PartOf, OwnerOf
<1>4. /\ run'.read = run.read /\ run'.keep = run.keep /\ run'.version = run.version
      /\ run'.batch = run.batch
      /\ run'.pc = "error" \/ (k = AllTables /\ run'.pc = "passA" /\ run'.todo = run.todo \ {s})
  BY <1>1 DEF Runs
<1>5. ModelBuilt'
  <2>0. DoneRoots = Stations(I) \ run.todo
    BY <1>1 DEF DoneRoots, Built
  <2>1. s \notin DoneRoots /\ s \in RootIds(I)
    BY <1>2, <2>0 DEF RootIds
  <2>2. ASSUME run'.pc = "passA", run'.todo = run.todo \ {s} PROVE DoneRoots' = DoneRoots \cup {s}
    <3>1. DoneRoots' = Stations(I) \ run'.todo
      BY <1>4, <2>2 DEF DoneRoots, Built
    <3> QED BY <1>2, <2>0, <2>2, <3>1
  <2> QED BY <1>1, <1>3, <1>4, <2>1, <2>2, RootBuilt
<1>6. /\ store'.number = store.number /\ store'.staged = store.staged
      /\ \A f \in store'.flags : f \in store.flags \/ f[1] = run.version
  BY MarkIs DEF PersistStation
<1>7. InOrder'
  BY <1>1, <1>2, <1>4 DEF FullInv, Contents, InOrder, Working
<1>8. StoreFresh'
  BY <1>1, <1>4, <1>6 DEF FullInv, Contents, StoreFresh
<1>9. Counted'
  BY <1>1, <1>4, <1>6 DEF FullInv, Contents, Counted
<1> QED BY <1>5, <1>7, <1>8, <1>9 DEF Contents

\* The next cable has the owner a first import gives it: the cables done are those before it.
LEMMA PersistCableContents ==
    ASSUME FullInv, NEW k \in 0 .. AllTables, NEW c \in run.todo, PersistCable(c, k)
    PROVE  Contents'
<1> DEFINE I == run.read.items
           done == Cables(I) \ run.todo
<1>1. /\ run \in Runs /\ run.pc = "passB" /\ hist' = hist /\ \A d \in run.todo : c <= d
      /\ model' = Write(k, model, RowsOf(Under(Staged, c), PassBOwner(run.batch)))
      /\ run' = IF k = AllTables THEN [run EXCEPT !.todo = @ \ {c}, !.batch = @ + 1]
                ELSE [run EXCEPT !.pc = "error"]
  BY DEF PersistCable, FullInv, PipelineInv, Kinds
<1>2. /\ Staged = I /\ c \in Cables(I) /\ run.todo \subseteq Cables(I) /\ run.batch = Cardinality(done)
      /\ \A b \in run.todo, d \in done : d < b
  BY <1>1, RootsRead DEF FullInv, InPhase2, Contents, InOrder
<1>3. /\ Stations(I) \cap Cables(I) = {} /\ IsFiniteSet(Cables(I)) /\ Cables(I) \subseteq Nat
  BY ReadWellFormed, RootKinds DEF FullInv
<1>4. done = {d \in Cables(I) : d < c}
  BY <1>1, <1>2, <1>3
<1>5. model' = Write(k, model, PartOf(I, c))
  <2>1. OwnerOf(I, c) = PassBOwner(Cardinality({d \in Cables(I) : d < c}))
    BY <1>2, <1>3 DEF OwnerOf
  <2> QED BY <1>1, <1>2, <1>4, <2>1 DEF PartOf
<1> DEFINE b == run.batch + 1
<1>6. b \in Nat /\ run' = IF k = AllTables THEN [run EXCEPT !.todo = @ \ {c}, !.batch = b]
                          ELSE [run EXCEPT !.pc = "error"]
  BY <1>1 DEF Runs
<1> HIDE DEF b
<1>7. /\ run'.read = run.read /\ run'.keep = run.keep /\ run'.version = run.version
      /\ run'.pc = "error" \/ (k = AllTables /\ run'.pc = "passB" /\ run'.todo = run.todo \ {c}
                               /\ run'.batch = b)
  BY <1>1, <1>6 DEF Runs
<1>8. ModelBuilt'
  <2>0. DoneRoots = RootIds(I) \ run.todo
    BY <1>1 DEF DoneRoots, Built
  <2>1. c \notin DoneRoots /\ c \in RootIds(I)
    BY <1>2, <2>0 DEF RootIds
  <2>2. ASSUME run'.pc = "passB", run'.todo = run.todo \ {c} PROVE DoneRoots' = DoneRoots \cup {c}
    <3>1. DoneRoots' = RootIds(I) \ run'.todo
      BY <1>7, <2>2 DEF DoneRoots, Built
    <3> QED BY <2>0, <2>1, <2>2, <3>1
  <2> QED BY <1>1, <1>5, <1>7, <2>1, <2>2, RootBuilt
<1>9. run'.pc = "passB" =>
         /\ run'.todo \subseteq Cables(I) /\ run'.batch = Cardinality(Cables(I) \ run'.todo)
         /\ \A a \in run'.todo, d \in Cables(I) \ run'.todo : d < a
  <2> SUFFICES ASSUME run'.pc = "passB", run'.todo = run.todo \ {c}, run'.batch = b
               PROVE  /\ run'.todo \subseteq Cables(I) /\ run'.batch = Cardinality(Cables(I) \ run'.todo)
                      /\ \A a \in run'.todo, d \in Cables(I) \ run'.todo : d < a
    BY <1>7
  <2>1. Cables(I) \ run'.todo = done \cup {c} /\ c \notin done /\ IsFiniteSet(done)
    BY <1>2, <1>3, FS_Subset
  <2>2. Cardinality(done \cup {c}) = b
    <3> HIDE DEF done
    <3> QED BY <1>2, <2>1, FS_AddElement DEF b
  <2>3. \A a \in run'.todo, d \in done \cup {c} : d < a
    BY <1>1, <1>2, <1>3
  <2> QED BY <1>2, <2>1, <2>2, <2>3
<1>10. /\ store'.number = store.number /\ store'.staged = store.staged
       /\ \A f \in store'.flags : f \in store.flags \/ f[1] = run.version
  BY MarkIs DEF PersistCable
<1>11. InOrder'
  BY <1>1, <1>7, <1>9 DEF FullInv, Contents, InOrder, Working
<1>12. StoreFresh'
  BY <1>1, <1>7, <1>10 DEF FullInv, Contents, StoreFresh
<1>13. Counted'
  BY <1>1, <1>7, <1>10 DEF FullInv, Contents, Counted
<1> QED BY <1>8, <1>11, <1>12, <1>13 DEF Contents

\* FinalizeImport leaves the model alone and clears the rows of the run's version.
LEMMA FinalizeContents ==
    ASSUME FullInv, ClearFlags \/ \E keepStaging \in BOOLEAN : DeleteVersion(keepStaging)
    PROVE  Contents'
<1>1. PICK keepStaging \in BOOLEAN :
         \/ ClearFlags
         \/ DeleteVersion(keepStaging)
  OBVIOUS
<1>2. run \in Runs /\ store \in Stores /\ model' = model /\ hist' = hist
  BY <1>1 DEF ClearFlags, DeleteVersion, FullInv, PipelineInv, Kinds
<1>3. /\ run.pc \in {"flags", "delete"} /\ run'.pc = (IF run.pc = "flags" THEN "delete" ELSE "metadata")
      /\ run'.read = run.read /\ run'.keep = run.keep /\ run'.version = run.version
      /\ run.pc = "delete" => run'.keepStaging = keepStaging
  BY <1>1, <1>2 DEF ClearFlags, DeleteVersion, Runs
<1>4. /\ store'.number = store.number /\ store'.flags \subseteq store.flags
      /\ store'.staged \subseteq store.staged
      /\ run.pc = "flags" => \A f \in store'.flags : f[1] # run.version
      /\ run.pc = "delete" /\ ~keepStaging => \A r \in store'.staged : r[1] # run.version
  <2>1. CASE ClearFlags
    BY <1>2, <2>1 DEF ClearFlags, Stores
  <2>2. CASE DeleteVersion(keepStaging)
    <3>1. CASE keepStaging
      BY <1>2, <2>2, <3>1 DEF DeleteVersion
    <3>2. CASE ~keepStaging
      <4> DEFINE kept == {r \in store.staged : r[1] # run.version}
      <4>1. run.pc = "delete" /\ store' = [store EXCEPT !.staged = kept, !.errors = @ \ {run.version}]
        BY <2>2, <3>2 DEF DeleteVersion
      <4>2. kept \subseteq store.staged /\ \A r \in kept : r[1] # run.version
        OBVIOUS
      <4> HIDE DEF kept
      <4> QED BY <1>2, <4>1, <4>2 DEF Stores
    <3> QED BY <3>1, <3>2
  <2> QED BY <1>1, <2>1, <2>2
<1>5. ModelBuilt'
  <2>1. DoneRoots' = DoneRoots
    BY <1>3 DEF DoneRoots, Built
  <2> QED BY <1>2, <1>3, <2>1, ModelStays DEF FullInv, Contents
<1>6. InOrder'
  BY <1>2, <1>3 DEF FullInv, Contents, InOrder, Working
<1>7. StoreFresh'
  <2> SUFFICES ASSUME ~run.keep PROVE StoreFresh'
    BY <1>3 DEF StoreFresh
  <2>1. /\ \A r \in store.staged : r[1] = run.version
        /\ \A f \in store.flags : f[1] = run.version
        /\ run.pc = "delete" => store.flags = {}
    BY <1>3 DEF FullInv, Contents, StoreFresh
  <2>2. store'.flags = {}
    BY <1>3, <1>4, <2>1
  <2>3. run.pc = "delete" => store'.staged = {} \/ run'.keepStaging
    BY <1>3, <1>4, <2>1
  <2> QED BY <1>3, <1>4, <2>1, <2>2, <2>3 DEF StoreFresh
<1>8. Counted'
  BY <1>2, <1>3, <1>4 DEF FullInv, Contents, Counted
<1> QED BY <1>5, <1>6, <1>7, <1>8 DEF Contents

LEMMA RecordMetadataContents == FullInv /\ RecordMetadata => Contents'
<1> SUFFICES ASSUME FullInv, RecordMetadata PROVE Contents'
  OBVIOUS
<1> DEFINE n == NextNumber(store.number)
           base == IF store.number = 0 THEN n - 1 ELSE hist.base
           wins == hist.wins + 1
<1>1. /\ run \in Runs /\ store \in Stores /\ hist \in Hists /\ tree \in Trees
      /\ run.pc = "metadata" /\ model' = model
  BY DEF RecordMetadata, FullInv, Contents, Counted, PipelineInv, Kinds
<1>2. run' = [run EXCEPT !.pc = "ok"] /\ store' = [store EXCEPT !.number = n]
  BY DEF RecordMetadata
<1>3. n \in Nat \ {0} /\ (store.number # 0 => n = store.number + 1)
  <2>1. tree.meta \in Nat
    BY <1>1, TreeAssumption
  <2> QED BY <1>1, <2>1 DEF NextNumber, Stores
<1> HIDE DEF n
<1>4. /\ run'.pc = "ok" /\ run'.read = run.read /\ run'.keep = run.keep
      /\ run'.version = run.version /\ run'.keepStaging = run.keepStaging
      /\ store'.number = n /\ store'.staged = store.staged /\ store'.flags = store.flags
  BY <1>1, <1>2 DEF Runs, Stores
<1>5. hist' = [hist EXCEPT !.wins = wins, !.read = run.read, !.base = base]
  <2>1. hist' = [hist EXCEPT !.wins = @ + 1, !.read = run.read,
                            !.base = IF store.number = 0 THEN store'.number - 1 ELSE @]
    BY DEF RecordMetadata
  <2>2. hist' = [hist EXCEPT !.wins = hist.wins + 1, !.read = run.read,
                            !.base = IF store.number = 0 THEN store'.number - 1 ELSE hist.base]
    BY <2>1
  <2> QED BY <1>4, <2>2
<1>6. base \in Nat /\ wins \in Nat /\ n = base + wins /\ wins # 0
  <2>1. store.number = IF hist.wins = 0 THEN 0 ELSE hist.base + hist.wins
    BY DEF FullInv, Contents, Counted
  <2>2. hist.wins \in Nat /\ hist.base \in Nat
    BY <1>1 DEF Hists
  <2> QED BY <1>3, <2>1, <2>2
<1> HIDE DEF base, wins
<1>7. /\ hist' \in Hists /\ hist'.wins = wins /\ hist'.base = base /\ hist'.read = run.read
      /\ hist'.mixed = hist.mixed /\ hist'.pruned = hist.pruned
  BY <1>1, <1>5, <1>6 DEF Hists, Runs
<1>8. ModelBuilt'
  <2>1. DoneRoots' = DoneRoots
    BY <1>1, <1>4 DEF DoneRoots, Built
  <2> QED BY <1>1, <1>4, <1>7, <2>1, ModelStays DEF FullInv, Contents
<1>9. InOrder' /\ StoreFresh'
  BY <1>1, <1>4, <1>7 DEF FullInv, Contents, InOrder, StoreFresh, Working
<1>10. Counted'
  BY <1>4, <1>6, <1>7 DEF FullInv, Contents, Counted
<1> QED BY <1>8, <1>9, <1>10 DEF Contents

LEMMA ContentsStep == FullInv /\ [Next]_vars => Contents'
<1> SUFFICES ASSUME FullInv, [Next]_vars PROVE Contents'
  OBVIOUS
<1>1. CASE EditTree
  BY <1>1, EditTreeContents
<1>2. CASE RunStep
  <2>1. CASE NextVersion \/ Emit
    BY <2>1, NextVersionContents, EmitContents
  <2>2. CASE InsertBatch \/ Flush
    BY <2>2, StageContents
  <2>3. CASE InsertErrors
    BY <2>3, StopsContents
  <2>4. CASE StartPassA \/ StartPassB \/ EndPassB
    BY <2>4, StartPassAContents, StartPassBContents, EndPassBContents
  <2>5. CASE \E k \in 0 .. AllTables, r \in run.todo : PersistStation(r, k) \/ PersistCable(r, k)
    BY <2>5, PersistStationContents, PersistCableContents
  <2>6. CASE ClearFlags \/ \E keepStaging \in BOOLEAN : DeleteVersion(keepStaging)
    BY <2>6, FinalizeContents
  <2>7. CASE RecordMetadata
    BY <2>7, RecordMetadataContents
  <2> QED BY <1>2, <2>1, <2>2, <2>3, <2>4, <2>5, <2>6, <2>7 DEF RunStep
<1>3. CASE Stops
  BY <1>3, StopsContents
<1>4. CASE PruneRemoved
  BY <1>4, PruneContents
<1>5. CASE \E keep \in BOOLEAN : StartRun(keep)
  BY <1>5, StartRunContents
<1>6. CASE UNCHANGED vars
  <2>1. UNCHANGED <<store, model, run, hist>>
    BY <1>6 DEF vars
  <2>2. DoneRoots' = DoneRoots
    BY <2>1 DEF DoneRoots, Built
  <2> QED BY <2>1, <2>2 DEF FullInv, Contents, ModelBuilt, InOrder, StoreFresh, Counted
<1> QED BY <1>1, <1>2, <1>3, <1>4, <1>5, <1>6 DEF Next

\* What is in the model is known after every step, of whatever run and with whatever
\* trees, batch sizes and failures.
THEOREM FullInvariant == Spec => []FullInv
<1>1. Init => FullInv
  BY InvInit, ContentsInit DEF FullInv
<1>2. FullInv /\ [Next]_vars => FullInv'
  BY InvStep, ContentsStep DEF FullInv
<1> QED BY <1>1, <1>2, PTL DEF Spec

\* A successful rebuild has written every root, and only roots of what it read.
LEMMA SuccessIsExact ==
    ASSUME FullInv, run.pc = "ok", ~run.keep
    PROVE  model = Expected(run.read.items)
<1>1. DoneRoots = RootIds(run.read.items)
  BY DEF DoneRoots, Built
<1> QED BY <1>1, Exact DEF FullInv, Contents, ModelBuilt

\* A successful rebuild leaves the model of its documents and nothing else, with every
\* flag cleared and the staged rows gone unless they were to be kept: for all trees,
\* batch sizes and failures before it (ResetBackend, onBatchResult, FinalizeImport).
THEOREM RebuildCorrect == Spec => []RebuildIsExact
<1>1. FullInv => RebuildIsExact
  BY SuccessIsExact DEF FullInv, Contents, StoreFresh, RebuildIsExact
<1> QED BY <1>1, FullInvariant, PTL

\* A successful incremental run after a prune for the same documents ends with their
\* containers and no others, and with every station and cable as a rebuild stores it
\* (PruneRemoved, RunUnconfirmed with KeepExistingFile).
THEOREM ApplyCorrect == Spec => []ApplyRestores
<1>1. ASSUME FullInv, run.pc = "ok", run.read \in hist.pruned
      PROVE  LET e == Expected(run.read.items)
             IN  /\ model.container = e.container
                 /\ \A x \in DOMAIN e.equipment :
                       /\ x \in DOMAIN model.equipment /\ model.equipment[x] = e.equipment[x]
                       /\ x \in DOMAIN model.edge /\ model.edge[x] = e.edge[x]
                 /\ e.group \subseteq model.group
  <2> DEFINE I == run.read.items
             P == {PartOf(I, r) : r \in RootIds(I)}
             one(x) == CHOOSE p \in P : x \in DOMAIN p.equipment
             e == Expected(I)
             E == UNION {DOMAIN p.equipment : p \in P}
  <2>1. \A p \in P : Has(model, p) /\ DOMAIN p.edge = DOMAIN p.equipment
    BY <1>1 DEF FullInv, Contents, ModelBuilt, DoneRoots, Built, PartOf, RowsOf
  <2>2. \A x \in E : one(x) \in P /\ x \in DOMAIN one(x).equipment
    OBVIOUS
  <2>3. model.container \subseteq UNION {p.container : p \in P}
    BY <1>1 DEF FullInv, Contents, ModelBuilt
  <2>4. /\ e.container = UNION {p.container : p \in P} /\ e.group = UNION {p.group : p \in P}
        /\ e.equipment = [x \in E |-> one(x).equipment[x]]
        /\ e.edge = [x \in E |-> one(x).edge[x]]
    BY DEF Expected, RootIds
  <2> HIDE DEF P, one, E, e
  <2>5. model.container = e.container /\ e.group \subseteq model.group
    BY <2>1, <2>3, <2>4 DEF Has
  <2>6. ASSUME NEW x \in DOMAIN e.equipment
        PROVE  /\ x \in DOMAIN model.equipment /\ model.equipment[x] = e.equipment[x]
               /\ x \in DOMAIN model.edge /\ model.edge[x] = e.edge[x]
    <3>1. x \in E /\ e.equipment[x] = one(x).equipment[x] /\ e.edge[x] = one(x).edge[x]
      BY <2>4, <2>6
    <3> QED BY <2>1, <2>2, <3>1 DEF Has
  <2> QED BY <2>5, <2>6 DEF e
<1>2. FullInv => ApplyRestores
  BY <1>1 DEF ApplyRestores
<1> QED BY <1>2, FullInvariant, PTL

\* The number in the metadata counts the successful imports since the last rebuild, and
\* in a database that only rebuilds have written it stands for a whole model
\* (recordOrAdoptMetadata, ResetBackend).
THEOREM MetadataCorrect == Spec => []MetadataIsTrue
<1>1. FullInv => MetadataIsTrue
  BY SuccessIsExact DEF FullInv, Contents, Counted, MetadataIsTrue
<1> QED BY <1>1, FullInvariant, PTL
=============================================================================
