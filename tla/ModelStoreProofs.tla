-------------------------- MODULE ModelStoreProofs --------------------------
(* Proofs about ModelStore, ModelCopy and ModelExchange: what the tables of  *)
(* the SQLite store refer to is there, and edges are found from their nodes, *)
(* whatever batches, rollbacks, restarts and prunes follow each other; a     *)
(* finished copy of such tables is exact, and reading it page by page        *)
(* returns every row; what Check finds clean, Emit takes whole; the comments *)
(* at the nodes of an exported tree lead to the files there; the files of a  *)
(* model pass Check if and only if the model is Importable; and then the     *)
(* model an import makes of them has the same containers, equipment, edges   *)
(* and attributes.                                                           *)
EXTENDS ModelStore, ModelExchange, FiniteSetTheorems, FunctionTheorems, SequenceTheorems,
        WellFoundedInduction, TLAPS

-----------------------------------------------------------------------------
(* Tables.                                                                  *)

\* A table that is put over another refers to what either refers to.
LEMMA OverRefers ==
    ASSUME NEW f, NEW g
    PROVE  /\ DOMAIN Over(f, g) = DOMAIN f \cup DOMAIN g
           /\ \A x \in DOMAIN f : Over(f, g)[x] = f[x]
           /\ \A x \in DOMAIN g \ DOMAIN f : Over(f, g)[x] = g[x]
           /\ Range(Over(f, g)) \subseteq Range(f) \cup Range(g)
<1>1. DOMAIN Over(f, g) = DOMAIN f \cup DOMAIN g
  BY DEF Over
<1>2. ASSUME NEW x \in DOMAIN f PROVE Over(f, g)[x] = f[x]
  BY DEF Over
<1>3. ASSUME NEW x \in DOMAIN g \ DOMAIN f PROVE Over(f, g)[x] = g[x]
  BY DEF Over
<1>4. Range(Over(f, g)) \subseteq Range(f) \cup Range(g)
  <2>1. \A y \in Range(Over(f, g)) : \E x \in DOMAIN Over(f, g) : y = Over(f, g)[x]
    BY DEF Range
  <2>2. \A x \in DOMAIN f : f[x] \in Range(f)
    BY DEF Range
  <2>3. \A x \in DOMAIN g : g[x] \in Range(g)
    BY DEF Range
  <2>4. ASSUME NEW x \in DOMAIN Over(f, g) PROVE Over(f, g)[x] \in Range(f) \cup Range(g)
    BY <1>1, <1>2, <1>3, <2>2, <2>3
  <2> QED BY <2>1, <2>4
<1> QED BY <1>1, <1>2, <1>3, <1>4

AllEquipment == UNION {EquipmentOf(v) : v \in AllViews}

IsDB(d) ==
    d \in [container : {d.container}, equipment : {d.equipment}, node : {d.node}, edge : {d.edge},
           endpoint : {d.endpoint}, group : {d.group}, attr : {d.attr}, entity : {d.entity},
           seq : {d.seq}]

\* The tables hold rows of the known units, and IDs have keys of their own.
Sound(d) ==
    /\ IsDB(d) /\ d.seq \in Nat
    /\ d.container \subseteq {ContainerOf[u] : u \in Units}
    /\ d.node \subseteq AllNodes /\ DOMAIN d.edge \subseteq AllEquipment
    /\ \A x, y \in DOMAIN d.entity : x # y => d.entity[x] # d.entity[y]
    /\ \A x \in DOMAIN d.entity : d.entity[x] \in 1 .. d.seq

Refs(d) ==
    /\ \A e \in DOMAIN d.edge : Ends(d, e) \subseteq d.node
    /\ \A g \in d.group : g[1] \in d.node

\* As long as nothing was rolled back: the cache has keys of rows, and a stored edge has
\* the endpoint rows of its ends and no others.
CacheTrue(d, c) == \A x \in DOMAIN c : x \in DOMAIN d.entity /\ c[x] = d.entity[x]
EndpointsTrue(d) ==
    /\ \A e \in DOMAIN d.edge : {e} \cup Ends(d, e) \subseteq DOMAIN d.entity
    /\ \A e \in DOMAIN d.edge : \A n \in Ends(d, e) : <<d.entity[n], d.entity[e]>> \in d.endpoint
    /\ \A p \in d.endpoint, e \in DOMAIN d.edge :
          p[2] = d.entity[e] => \E n \in Ends(d, e) : p[1] = d.entity[n]

\* A batch that is under way has written its nodes before its edges and groups.
StageNames == {"idle", "attributes", "containers", "equipment", "nodes", "edges", "groups"}
Batches ==
    /\ stage \in [Units -> StageNames] /\ DOMAIN view = Units
    /\ \A u \in Units : stage[u] # "idle" => view[u] \in ViewsOf[u] /\ u \in ran
    /\ \A u \in Units : stage[u] \in {"edges", "groups"} => NodesOf(view[u]) \subseteq db.node

StoreInv ==
    /\ Sound(db) /\ Refs(db) /\ Batches
    /\ ~txFailed => CacheTrue(db, cache) /\ EndpointsTrue(db)

-----------------------------------------------------------------------------
(* Keys.                                                                    *)

\* A finite set can be numbered.
LEMMA NumbersAre ==
    ASSUME NEW X, IsFiniteSet(X)
    PROVE  /\ Numbers(X) \in [X -> 1 .. Cardinality(X)] /\ Cardinality(X) \in Nat
           /\ \A x, y \in X : x # y => Numbers(X)[x] # Numbers(X)[y]
<1> DEFINE F == {f \in [X -> 1 .. Cardinality(X)] : IsInjective(f)}
<1>1. Cardinality(X) \in Nat /\ ExistsBijection(1 .. Cardinality(X), X)
  BY FS_CardinalityType
<1>2. ExistsBijection(X, 1 .. Cardinality(X))
  BY <1>1, Fun_ExistsBijSymmetric
<1>3. F # {}
  BY <1>2 DEF ExistsBijection, Bijection, Injection
<1>4. Numbers(X) \in F
  BY <1>3 DEF Numbers
<1> QED BY <1>1, <1>4 DEF IsInjective

LEMMA ViewsFinite ==
    ASSUME NEW v \in AllViews
    PROVE  /\ IsFiniteSet(EquipmentOf(v)) /\ IsFiniteSet(NodesOf(v))
           /\ NodesOf(v) \subseteq AllNodes /\ EquipmentOf(v) \subseteq AllEquipment
           /\ \A e, f \in v.edges : e.id = f.id => e = f
<1>1. IsFiniteSet(v.edges) /\ \A e, f \in v.edges : e.id = f.id => e = f
  BY StoreAssumption
<1>2. IsFiniteSet(EquipmentOf(v))
  <2> DEFINE f == [e \in v.edges |-> e.id]
  <2>1. f \in Surjection(v.edges, EquipmentOf(v))
    BY DEF Surjection, EquipmentOf
  <2> QED BY <1>1, <2>1, FS_Surjection
<1>3. IsFiniteSet(NodesOf(v))
  <2> DEFINE f == [e \in v.edges |-> e.t1]  g == [e \in v.edges |-> e.t2]
             S == {e.t1 : e \in v.edges}  T == {e.t2 : e \in v.edges}
  <2>1. f \in Surjection(v.edges, S) /\ g \in Surjection(v.edges, T)
    BY DEF Surjection
  <2>2. IsFiniteSet(S) /\ IsFiniteSet(T)
    <3> HIDE DEF f, g, S, T
    <3> QED BY <1>1, <2>1, FS_Surjection
  <2>3. NodesOf(v) = S \cup T
    BY DEF NodesOf
  <2> HIDE DEF S, T
  <2> QED BY <2>2, <2>3, FS_Union
<1>4. NodesOf(v) \subseteq AllNodes /\ EquipmentOf(v) \subseteq AllEquipment
  BY DEF AllNodes, AllEquipment
<1> QED BY <1>1, <1>2, <1>3, <1>4

\* resolve adds rows for the new IDs and leaves the others and the other tables alone.
KeysAdded(s, r, X) ==
    /\ r \in [db : {r.db}, cache : {r.cache}]
    /\ r.db = [s.db EXCEPT !.entity = r.db.entity, !.seq = r.db.seq]
    /\ Sound(r.db)
    /\ \A x \in DOMAIN s.db.entity : x \in DOMAIN r.db.entity /\ r.db.entity[x] = s.db.entity[x]
    /\ X \subseteq DOMAIN r.cache
    /\ CacheTrue(s.db, s.cache) => CacheTrue(r.db, r.cache)

LEMMA ResolveIs ==
    ASSUME NEW s, Sound(s.db), NEW X, IsFiniteSet(X)
    PROVE  KeysAdded(s, Resolve(s, X), X)
<1> DEFINE d == s.db
           c == s.cache
           n == New(s, X)
           num == Numbers(n)
           rows == [x \in n |-> d.seq + num[x]]
           entity == Over(rows, d.entity)
           seq == d.seq + Cardinality(n)
           d2 == [d EXCEPT !.entity = entity, !.seq = seq]
           c2 == Over([x \in X \ DOMAIN c |-> entity[x]], c)
<1>1. n \subseteq X /\ n \cap DOMAIN d.entity = {} /\ n = X \ (DOMAIN c \cup DOMAIN d.entity)
  BY DEF New
<1>2. IsFiniteSet(n)
  BY <1>1, FS_Subset
<1>3. Resolve(s, X) = [db |-> d2, cache |-> c2]
  BY DEF Resolve
<1>4. /\ num \in [n -> 1 .. Cardinality(n)] /\ Cardinality(n) \in Nat
      /\ \A x, y \in n : x # y => num[x] # num[y]
  BY <1>2, NumbersAre
<1>5. d.seq \in Nat
  BY DEF Sound
<1>6. seq \in Nat /\ d.seq <= seq
  BY <1>4, <1>5
<1>7. \A x \in n : rows[x] \in d.seq + 1 .. seq
  BY <1>4, <1>5
<1>8. \A x, y \in n : x # y => rows[x] # rows[y]
  BY <1>4, <1>5
<1> HIDE DEF n, num
<1>9. DOMAIN rows = n
  OBVIOUS
<1> HIDE DEF rows, seq
<1>10. DOMAIN entity = n \cup DOMAIN d.entity
  BY <1>9, OverRefers
<1>11. (\A x \in n : entity[x] = rows[x]) /\ (\A x \in DOMAIN d.entity : entity[x] = d.entity[x])
  BY <1>1, <1>9 DEF Over
<1> HIDE DEF entity
<1>12. \A x, y \in DOMAIN entity : x # y => entity[x] # entity[y]
  BY <1>1, <1>5, <1>6, <1>7, <1>8, <1>10, <1>11 DEF Sound
<1>13. \A x \in DOMAIN entity : entity[x] \in 1 .. seq
  BY <1>1, <1>5, <1>6, <1>7, <1>10, <1>11 DEF Sound
<1>14. /\ IsDB(d2) /\ d2.entity = entity /\ d2.seq = seq /\ d2.container = d.container
       /\ d2.node = d.node /\ d2.edge = d.edge
  BY DEF Sound, IsDB
<1>15. Sound(d2)
  BY <1>6, <1>12, <1>13, <1>14 DEF Sound
<1> DEFINE new == [x \in X \ DOMAIN c |-> entity[x]]
<1>16. DOMAIN new = X \ DOMAIN c /\ \A x \in DOMAIN new : new[x] = entity[x]
  OBVIOUS
<1>17. c2 = Over(new, c)
  OBVIOUS
<1> HIDE DEF new, c2, c
<1>18. DOMAIN c2 = (X \ DOMAIN c) \cup DOMAIN c
  BY <1>16, <1>17, OverRefers
<1>19. /\ \A x \in X \ DOMAIN c : c2[x] = entity[x]
       /\ \A x \in DOMAIN c : c2[x] = c[x]
  BY <1>16, <1>17 DEF Over
<1>20. CacheTrue(d, c) => CacheTrue(d2, c2)
  BY <1>1, <1>10, <1>11, <1>14, <1>18, <1>19 DEF CacheTrue
<1>21. d2 = [d EXCEPT !.entity = d2.entity, !.seq = d2.seq]
  BY <1>14
<1>22. /\ X \subseteq DOMAIN c2
       /\ \A x \in DOMAIN d.entity : x \in DOMAIN d2.entity /\ d2.entity[x] = d.entity[x]
  BY <1>10, <1>11, <1>14, <1>18
<1> DEFINE r == Resolve(s, X)
<1>23. r.db = d2 /\ r.cache = c2 /\ r \in [db : {r.db}, cache : {r.cache}]
  BY <1>3
<1> HIDE DEF r, d2
<1>24. /\ r.db = [d EXCEPT !.entity = r.db.entity, !.seq = r.db.seq] /\ Sound(r.db)
       /\ CacheTrue(d, c) => CacheTrue(r.db, r.cache)
  BY <1>15, <1>20, <1>21, <1>23
<1> QED BY <1>22, <1>23, <1>24 DEF r, c, KeysAdded

-----------------------------------------------------------------------------
(* The statements of a transaction, on tables and cache together.           *)

Good(s, clean) ==
    /\ s \in [db : {s.db}, cache : {s.cache}]
    /\ Sound(s.db) /\ Refs(s.db)
    /\ clean => CacheTrue(s.db, s.cache) /\ EndpointsTrue(s.db)

\* A statement that touches neither keys, edges nor endpoints.
LEMMA KeysUntouched ==
    ASSUME NEW s, NEW clean, Good(s, clean), NEW t, t \in [db : {t.db}, cache : {s.cache}],
           IsDB(t.db), t.db.entity = s.db.entity, t.db.seq = s.db.seq, t.db.edge = s.db.edge,
           t.db.endpoint = s.db.endpoint, s.db.node \subseteq t.db.node, t.db.node \subseteq AllNodes,
           t.db.container \subseteq {ContainerOf[u] : u \in Units},
           \A g \in t.db.group : g[1] \in t.db.node
    PROVE  Good(t, clean)
<1>1. t.cache = s.cache
  OBVIOUS
<1>2. Sound(t.db)
  BY DEF Good, Sound
<1>3. Refs(t.db)
  BY DEF Good, Refs, Ends
<1>4. clean => CacheTrue(t.db, t.cache) /\ EndpointsTrue(t.db)
  BY <1>1 DEF Good, CacheTrue, EndpointsTrue, Ends
<1> QED BY <1>1, <1>2, <1>3, <1>4 DEF Good

LEMMA ContainersGood ==
    ASSUME NEW s, NEW clean, Good(s, clean), NEW u \in Units
    PROVE  LET t == UpsertContainersTx(s, u)
           IN  Good(t, clean) /\ s.db.node \subseteq t.db.node
<1> DEFINE t == UpsertContainersTx(s, u)
<1>1. s \in [db : {s.db}, cache : {s.cache}] /\ IsDB(s.db)
  BY DEF Good, Sound
<1>2. t = [s EXCEPT !.db = [s.db EXCEPT !.container = @ \cup {ContainerOf[u]}]]
  BY DEF UpsertContainersTx
<1>3. /\ t.db = [s.db EXCEPT !.container = @ \cup {ContainerOf[u]}]
      /\ t \in [db : {t.db}, cache : {s.cache}]
  BY <1>1, <1>2
<1> HIDE DEF t
<1>4. /\ IsDB(t.db) /\ t.db.entity = s.db.entity /\ t.db.seq = s.db.seq /\ t.db.edge = s.db.edge
      /\ t.db.endpoint = s.db.endpoint /\ t.db.node = s.db.node /\ t.db.group = s.db.group
      /\ t.db.container = s.db.container \cup {ContainerOf[u]}
  BY <1>1, <1>3 DEF IsDB
<1>6. t.db.container \subseteq {ContainerOf[w] : w \in Units} /\ t.db.node \subseteq AllNodes
  BY <1>4 DEF Good, Sound
<1>7. \A g \in t.db.group : g[1] \in t.db.node
  BY <1>4 DEF Good, Refs
<1>5. Good(t, clean)
  BY <1>3, <1>4, <1>6, <1>7, KeysUntouched
<1> QED BY <1>4, <1>5 DEF t

LEMMA EquipmentGood ==
    ASSUME NEW s, NEW clean, Good(s, clean), NEW u, NEW v
    PROVE  LET t == UpsertEquipmentTx(s, u, v)
           IN  Good(t, clean) /\ s.db.node \subseteq t.db.node
<1> DEFINE t == UpsertEquipmentTx(s, u, v)
           eq == Over([x \in EquipmentOf(v) |-> ContainerOf[u]], s.db.equipment)
<1>1. s \in [db : {s.db}, cache : {s.cache}] /\ IsDB(s.db)
  BY DEF Good, Sound
<1>2. t = [s EXCEPT !.db = [s.db EXCEPT !.equipment = eq]]
  BY DEF UpsertEquipmentTx
<1> HIDE DEF eq
<1>3. t.db = [s.db EXCEPT !.equipment = eq] /\ t \in [db : {t.db}, cache : {s.cache}]
  BY <1>1, <1>2
<1> HIDE DEF t
<1>4. /\ IsDB(t.db) /\ t.db.entity = s.db.entity /\ t.db.seq = s.db.seq /\ t.db.edge = s.db.edge
      /\ t.db.endpoint = s.db.endpoint /\ t.db.node = s.db.node /\ t.db.group = s.db.group
      /\ t.db.container = s.db.container
  BY <1>1, <1>3 DEF IsDB
<1>5. Good(t, clean)
  BY <1>3, <1>4, KeysUntouched, ZenonT(30) DEF Good, Sound, Refs
<1> QED BY <1>4, <1>5 DEF t

LEMMA NodesGood ==
    ASSUME NEW s, NEW clean, Good(s, clean), NEW v \in AllViews
    PROVE  LET t == UpsertNodesTx(s, v)
           IN  Good(t, clean) /\ s.db.node \cup NodesOf(v) \subseteq t.db.node
<1> DEFINE t == UpsertNodesTx(s, v)
<1>1. s \in [db : {s.db}, cache : {s.cache}] /\ IsDB(s.db)
  BY DEF Good, Sound
<1>2. t = [s EXCEPT !.db = [s.db EXCEPT !.node = @ \cup NodesOf(v)]]
  BY DEF UpsertNodesTx
<1>3. t.db = [s.db EXCEPT !.node = @ \cup NodesOf(v)] /\ t \in [db : {t.db}, cache : {s.cache}]
  BY <1>1, <1>2
<1> HIDE DEF t
<1>4. /\ IsDB(t.db) /\ t.db.entity = s.db.entity /\ t.db.seq = s.db.seq /\ t.db.edge = s.db.edge
      /\ t.db.endpoint = s.db.endpoint /\ t.db.group = s.db.group
      /\ t.db.node = s.db.node \cup NodesOf(v) /\ t.db.container = s.db.container
  BY <1>1, <1>3 DEF IsDB
<1>5. NodesOf(v) \subseteq AllNodes
  BY DEF AllNodes
<1>6. Good(t, clean)
  BY <1>3, <1>4, <1>5, KeysUntouched DEF Good, Sound, Refs
<1> QED BY <1>4, <1>6 DEF t

LEMMA GroupsGood ==
    ASSUME NEW s, NEW clean, Good(s, clean), NEW u, NEW v, NodesOf(v) \subseteq s.db.node
    PROVE  LET t == UpsertElectricalGroupsTx(s, u, v)
           IN  Good(t, clean) /\ s.db.node \subseteq t.db.node
<1> DEFINE t == UpsertElectricalGroupsTx(s, u, v)
           new == NodesOf(v) \X {OwnerOf[u]} \X {v.group}
           kept == {g \in s.db.group : g[2] # OwnerOf[u]}
<1>1. s \in [db : {s.db}, cache : {s.cache}] /\ IsDB(s.db)
  BY DEF Good, Sound
<1>2. t = [s EXCEPT !.db = [s.db EXCEPT !.group = kept \cup new]]
  BY DEF UpsertElectricalGroupsTx
<1>3. kept \subseteq s.db.group /\ \A g \in new : g[1] \in s.db.node
  OBVIOUS
<1> HIDE DEF kept, new
<1>4. t.db = [s.db EXCEPT !.group = kept \cup new] /\ t \in [db : {t.db}, cache : {s.cache}]
  BY <1>1, <1>2
<1> HIDE DEF t
<1>5. /\ IsDB(t.db) /\ t.db.entity = s.db.entity /\ t.db.seq = s.db.seq /\ t.db.edge = s.db.edge
      /\ t.db.endpoint = s.db.endpoint /\ t.db.group = kept \cup new
      /\ t.db.node = s.db.node /\ t.db.container = s.db.container
  BY <1>1, <1>4 DEF IsDB
<1>6. \A g \in t.db.group : g[1] \in t.db.node
  BY <1>3, <1>5 DEF Good, Refs
<1>7. Good(t, clean)
  BY <1>4, <1>5, <1>6, KeysUntouched, ZenonT(30) DEF Good, Sound
<1> QED BY <1>5, <1>7 DEF t

\* New keys leave what there is true.
LEMMA ResolveGood ==
    ASSUME NEW s, NEW clean, Good(s, clean), NEW X, IsFiniteSet(X)
    PROVE  LET r == Resolve(s, X)
           IN  /\ Good(r, clean) /\ X \subseteq DOMAIN r.cache
               /\ r.db.node = s.db.node /\ r.db.edge = s.db.edge /\ r.db.attr = s.db.attr
<1> DEFINE r == Resolve(s, X)
<1>1. Sound(s.db) /\ Refs(s.db)
  BY DEF Good
<1>7. KeysAdded(s, r, X)
  BY <1>1, ResolveIs
<1> HIDE DEF r
<1>2. /\ r \in [db : {r.db}, cache : {r.cache}]
      /\ r.db = [s.db EXCEPT !.entity = r.db.entity, !.seq = r.db.seq] /\ Sound(r.db)
      /\ \A x \in DOMAIN s.db.entity : x \in DOMAIN r.db.entity /\ r.db.entity[x] = s.db.entity[x]
      /\ X \subseteq DOMAIN r.cache
      /\ CacheTrue(s.db, s.cache) => CacheTrue(r.db, r.cache)
  BY <1>7 DEF KeysAdded
<1>3. /\ r.db.node = s.db.node /\ r.db.edge = s.db.edge /\ r.db.endpoint = s.db.endpoint
      /\ r.db.group = s.db.group /\ r.db.attr = s.db.attr
  <2>1. IsDB(s.db)
    BY <1>1 DEF Sound
  <2> QED BY <1>2, <2>1 DEF IsDB
<1>4. Refs(r.db)
  BY <1>1, <1>3 DEF Refs, Ends
<1>5. EndpointsTrue(s.db) => EndpointsTrue(r.db)
  BY <1>2, <1>3, SMTT(30) DEF EndpointsTrue, Ends
<1>6. Good(r, clean)
  BY <1>2, <1>4, <1>5 DEF Good
<1> QED BY <1>2, <1>3, <1>6 DEF r

LEMMA AttributesGood ==
    ASSUME NEW s, NEW clean, Good(s, clean), NEW v \in AllViews
    PROVE  LET t == UpsertAttributesTx(s, v)
           IN  Good(t, clean) /\ s.db.node \subseteq t.db.node
<1> DEFINE r == Resolve(s, EquipmentOf(v))
           t == UpsertAttributesTx(s, v)
           attr == r.db.attr \cup {r.cache[x] : x \in EquipmentOf(v)}
<1>1. Good(r, clean) /\ r.db.node = s.db.node
  BY ViewsFinite, ResolveGood
<1>2. t = [r EXCEPT !.db = [r.db EXCEPT !.attr = attr]]
  BY DEF UpsertAttributesTx
<1> HIDE DEF r, attr
<1>3. r \in [db : {r.db}, cache : {r.cache}] /\ IsDB(r.db)
  BY <1>1 DEF Good, Sound
<1>4. t.db = [r.db EXCEPT !.attr = attr] /\ t \in [db : {t.db}, cache : {r.cache}]
  BY <1>2, <1>3
<1> HIDE DEF t
<1>5. /\ IsDB(t.db) /\ t.db.entity = r.db.entity /\ t.db.seq = r.db.seq /\ t.db.edge = r.db.edge
      /\ t.db.endpoint = r.db.endpoint /\ t.db.group = r.db.group
      /\ t.db.node = r.db.node /\ t.db.container = r.db.container
  BY <1>3, <1>4 DEF IsDB
<1>6. Good(t, clean)
  BY <1>1, <1>4, <1>5, KeysUntouched, ZenonT(30) DEF Good, Sound, Refs
<1> QED BY <1>1, <1>5, <1>6 DEF t

\* The row of an edge has its terminals' nodes.
LEMMA EdgeRowsAre ==
    ASSUME NEW v \in AllViews
    PROVE  /\ DOMAIN EdgeRows(v) = EquipmentOf(v)
           /\ \A e \in v.edges : /\ EdgeRows(v)[e.id] = <<e.t1, e.t2>>
                                 /\ {e.t1, e.t2} \subseteq NodesOf(v) /\ e.id \in EquipmentOf(v)
           /\ \A x \in EquipmentOf(v) : \E e \in v.edges : x = e.id
<1>1. \A x \in EquipmentOf(v) : \E e \in v.edges : x = e.id
  BY DEF EquipmentOf
<1>2. DOMAIN EdgeRows(v) = EquipmentOf(v)
  BY DEF EdgeRows
<1>3. ASSUME NEW e \in v.edges
      PROVE  /\ EdgeRows(v)[e.id] = <<e.t1, e.t2>>
             /\ {e.t1, e.t2} \subseteq NodesOf(v) /\ e.id \in EquipmentOf(v)
  <2> DEFINE f == CHOOSE f \in v.edges : f.id = e.id
  <2>1. e.id \in EquipmentOf(v) /\ {e.t1, e.t2} \subseteq NodesOf(v)
    BY DEF EquipmentOf, NodesOf
  <2>2. f \in v.edges /\ f.id = e.id
    OBVIOUS
  <2>3. f = e
    BY <2>2, ViewsFinite
  <2>4. EdgeRows(v)[e.id] = <<f.t1, f.t2>>
    BY <2>1 DEF EdgeRows
  <2> QED BY <2>1, <2>3, <2>4
<1> QED BY <1>1, <1>2, <1>3

\* An edge's endpoint rows are replaced by those of its new ends; no other edge has its key.
LEMMA EndpointsReplaced ==
    ASSUME NEW d, NEW c, Sound(d), CacheTrue(d, c), EndpointsTrue(d), NEW v \in AllViews,
           EquipmentOf(v) \cup NodesOf(v) \subseteq DOMAIN c,
           NEW t, t.entity = d.entity, t.edge = Over(EdgeRows(v), d.edge),
           t.endpoint = {p \in d.endpoint : \A x \in EquipmentOf(v) : p[2] # c[x]}
                           \cup EndpointRows(v, c)
    PROVE  EndpointsTrue(t)
<1> DEFINE E == EquipmentOf(v)
           kept == {p \in d.endpoint : \A x \in E : p[2] # c[x]}
           new == EndpointRows(v, c)
<1>1. DOMAIN t.edge = E \cup DOMAIN d.edge
  BY EdgeRowsAre DEF Over
<1>2. \A e \in v.edges : Ends(t, e.id) = {e.t1, e.t2} /\ {e.t1, e.t2} \subseteq NodesOf(v)
                          /\ e.id \in E
  BY EdgeRowsAre DEF Over, Ends
<1>3. \A x \in DOMAIN d.edge \ E : Ends(t, x) = Ends(d, x)
  BY EdgeRowsAre DEF Over, Ends
<1>4. \A x \in E \cup NodesOf(v) : x \in DOMAIN d.entity /\ c[x] = d.entity[x]
  BY DEF CacheTrue
<1>5. \A x \in E : \E e \in v.edges : x = e.id
  BY EdgeRowsAre
<1>6. \A x, y \in DOMAIN d.entity : x # y => d.entity[x] # d.entity[y]
  BY DEF Sound
<1>7. \A p \in new : \E e \in v.edges : p = <<c[e.t1], c[e.id]>> \/ p = <<c[e.t2], c[e.id]>>
  BY DEF EndpointRows
<1>8. \A e \in v.edges : {<<c[e.t1], c[e.id]>>, <<c[e.t2], c[e.id]>>} \subseteq new
  BY DEF EndpointRows
<1>9. t.endpoint = kept \cup new
  OBVIOUS
<1> HIDE DEF new, E
<1>10. ASSUME NEW x \in DOMAIN t.edge
       PROVE  {x} \cup Ends(t, x) \subseteq DOMAIN t.entity
  <2>1. CASE x \in E
    BY <2>1, <1>2, <1>4, <1>5
  <2>2. CASE x \notin E
    BY <2>2, <1>1, <1>3 DEF EndpointsTrue
  <2> QED BY <2>1, <2>2
<1>11. ASSUME NEW x \in DOMAIN t.edge, NEW n \in Ends(t, x)
       PROVE  <<t.entity[n], t.entity[x]>> \in t.endpoint
  <2>1. CASE x \in E
    <3>1. PICK e \in v.edges : x = e.id
      BY <2>1, <1>5
    <3>2. n \in {e.t1, e.t2} /\ c[n] = t.entity[n] /\ c[x] = t.entity[x]
      BY <1>2, <1>4, <3>1
    <3> QED BY <3>1, <3>2, <1>8, <1>9
  <2>2. CASE x \notin E
    <3>1. x \in DOMAIN d.edge /\ n \in Ends(d, x)
      BY <2>2, <1>1, <1>3
    <3>2. <<d.entity[n], d.entity[x]>> \in d.endpoint /\ x \in DOMAIN d.entity
      BY <3>1 DEF EndpointsTrue
    <3>3. \A y \in E : d.entity[x] # c[y]
      BY <2>2, <3>2, <1>4, <1>6
    <3> QED BY <3>2, <3>3, <1>9
  <2> QED BY <2>1, <2>2
<1>12. ASSUME NEW p \in t.endpoint, NEW x \in DOMAIN t.edge, p[2] = t.entity[x]
       PROVE  \E n \in Ends(t, x) : p[1] = t.entity[n]
  <2>1. CASE p \in new
    <3>1. PICK e \in v.edges : p = <<c[e.t1], c[e.id]>> \/ p = <<c[e.t2], c[e.id]>>
      BY <2>1, <1>7
    <3>2. p[2] = c[e.id] /\ p[1] \in {c[e.t1], c[e.t2]}
      BY <3>1
    <3>3. x \in DOMAIN d.entity
      BY <1>10
    <3>5. e.id \in DOMAIN d.entity /\ d.entity[e.id] = c[e.id]
      BY <1>2, <1>4
    <3>6. d.entity[x] = d.entity[e.id]
      BY <1>12, <3>2, <3>5
    <3>4. x = e.id
      BY <1>6, <3>3, <3>5, <3>6
    <3> QED BY <1>2, <1>4, <3>2, <3>4
  <2>2. CASE p \in kept
    <3>1. x \notin E
      BY <1>4, <1>12, <2>2
    <3>2. x \in DOMAIN d.edge /\ p \in d.endpoint /\ p[2] = d.entity[x]
      BY <1>1, <1>12, <2>2, <3>1
    <3>3. \E n \in Ends(d, x) : p[1] = d.entity[n]
      BY <3>2 DEF EndpointsTrue
    <3> QED BY <1>3, <3>1, <3>2, <3>3
  <2> QED BY <1>9, <2>1, <2>2
<1> QED BY <1>10, <1>11, <1>12 DEF EndpointsTrue

LEMMA EdgesGood ==
    ASSUME NEW s, NEW clean, Good(s, clean), NEW v \in AllViews, NodesOf(v) \subseteq s.db.node
    PROVE  LET t == UpsertEdgesTx(s, v)
           IN  Good(t, clean) /\ t.db.node = s.db.node
<1> DEFINE X == EquipmentOf(v) \cup NodesOf(v)
           r == Resolve(s, X)
           t == UpsertEdgesTx(s, v)
           edge == Over(EdgeRows(v), r.db.edge)
           endpoint == {p \in r.db.endpoint : \A x \in EquipmentOf(v) : p[2] # r.cache[x]}
                          \cup EndpointRows(v, r.cache)
<1>1. IsFiniteSet(X)
  BY ViewsFinite, FS_Union
<1>2. Good(r, clean) /\ X \subseteq DOMAIN r.cache /\ r.db.node = s.db.node
  BY <1>1, ResolveGood
<1>3. t = [r EXCEPT !.db = [r.db EXCEPT !.edge = edge, !.endpoint = endpoint]]
  BY DEF UpsertEdgesTx
<1>4. DOMAIN edge = EquipmentOf(v) \cup DOMAIN r.db.edge
  BY EdgeRowsAre DEF Over
<1>5. ASSUME NEW x \in DOMAIN edge PROVE {edge[x][1], edge[x][2]} \subseteq r.db.node
  <2>1. CASE x \in EquipmentOf(v)
    <3>1. PICK e \in v.edges : x = e.id
      BY <2>1, EdgeRowsAre
    <3>2. edge[x] = <<e.t1, e.t2>> /\ {e.t1, e.t2} \subseteq NodesOf(v)
      BY <3>1, EdgeRowsAre DEF Over
    <3> QED BY <1>2, <3>2
  <2>2. CASE x \notin EquipmentOf(v)
    <3>1. x \in DOMAIN r.db.edge /\ edge[x] = r.db.edge[x]
      BY <1>4, <2>2, EdgeRowsAre DEF Over
    <3> QED BY <1>2, <3>1 DEF Good, Refs, Ends
  <2> QED BY <2>1, <2>2
<1>6. edge = Over(EdgeRows(v), r.db.edge)
      /\ endpoint = {p \in r.db.endpoint : \A x \in EquipmentOf(v) : p[2] # r.cache[x]}
                       \cup EndpointRows(v, r.cache)
  OBVIOUS
<1> HIDE DEF r, edge, endpoint
<1>7. r \in [db : {r.db}, cache : {r.cache}] /\ Sound(r.db) /\ IsDB(r.db)
  BY <1>2 DEF Good, Sound
<1>8. /\ t.db = [r.db EXCEPT !.edge = edge, !.endpoint = endpoint]
      /\ t \in [db : {t.db}, cache : {r.cache}] /\ t.cache = r.cache
  BY <1>3, <1>7
<1> HIDE DEF t
<1>9. /\ IsDB(t.db) /\ t.db.entity = r.db.entity /\ t.db.seq = r.db.seq /\ t.db.edge = edge
      /\ t.db.endpoint = endpoint /\ t.db.group = r.db.group
      /\ t.db.node = r.db.node /\ t.db.container = r.db.container
  BY <1>7, <1>8 DEF IsDB
<1>10. EquipmentOf(v) \subseteq AllEquipment
  BY ViewsFinite
<1>11. Sound(t.db)
  BY <1>4, <1>7, <1>9, <1>10 DEF Sound
<1>12. Refs(t.db)
  BY <1>2, <1>5, <1>9 DEF Good, Refs, Ends
<1>13. ASSUME clean PROVE CacheTrue(t.db, t.cache) /\ EndpointsTrue(t.db)
  <2>1. CacheTrue(r.db, r.cache) /\ EndpointsTrue(r.db)
    BY <1>2, <1>13 DEF Good
  <2>2. CacheTrue(t.db, t.cache)
    BY <2>1, <1>8, <1>9 DEF CacheTrue
  <2>3. EndpointsTrue(t.db)
    BY <2>1, <1>2, <1>6, <1>7, <1>9, EndpointsReplaced
  <2> QED BY <2>2, <2>3
<1>14. Good(t, clean)
  BY <1>8, <1>11, <1>12, <1>13 DEF Good
<1> QED BY <1>2, <1>9, <1>14 DEF t

\* All of a batch in one transaction.
LEMMA PersistGood ==
    ASSUME NEW s, NEW clean, Good(s, clean), NEW u \in Units, NEW v \in AllViews
    PROVE  LET t == PersistBatchTx(s, u, v)
           IN  Good(t, clean) /\ s.db.node \subseteq t.db.node
<1> DEFINE s1 == UpsertContainersTx(s, u)
           s2 == UpsertEquipmentTx(s1, u, v)
           s3 == UpsertNodesTx(s2, v)
           s4 == UpsertEdgesTx(s3, v)
           s5 == UpsertAttributesTx(s4, v)
           s6 == UpsertElectricalGroupsTx(s5, u, v)
<1>1. PersistBatchTx(s, u, v) = s6
  BY DEF PersistBatchTx
<1>2. Good(s1, clean) /\ s.db.node \subseteq s1.db.node
  BY ContainersGood
<1> HIDE DEF s1
<1>3. Good(s2, clean) /\ s1.db.node \subseteq s2.db.node
  BY <1>2, EquipmentGood
<1> HIDE DEF s2
<1>4. Good(s3, clean) /\ s2.db.node \cup NodesOf(v) \subseteq s3.db.node
  BY <1>3, NodesGood
<1> HIDE DEF s3
<1>5. Good(s4, clean) /\ s4.db.node = s3.db.node
  BY <1>4, EdgesGood
<1> HIDE DEF s4
<1>6. Good(s5, clean) /\ s4.db.node \subseteq s5.db.node
  BY <1>5, AttributesGood
<1> HIDE DEF s5
<1>7. Good(s6, clean) /\ s5.db.node \subseteq s6.db.node
  BY <1>4, <1>5, <1>6, GroupsGood
<1> HIDE DEF s6
<1> QED BY <1>1, <1>2, <1>3, <1>4, <1>5, <1>6, <1>7

-----------------------------------------------------------------------------
(* DeleteContainers.                                                        *)

\* What t is, after the containers S have gone from d: gone are the nodes deleted with them.
PrunedOf(d, S) == {x \in DOMAIN d.equipment : d.equipment[x] \in S}
Deleted(d, c, S, t, gone) ==
    /\ IsDB(t) /\ t.entity = d.entity /\ t.seq = d.seq
    /\ t.container = d.container \ S /\ t.group = d.group \ OwnedGroups(d, S)
    /\ DOMAIN t.equipment = DOMAIN d.equipment \ PrunedOf(d, S)
    /\ DOMAIN t.edge = DOMAIN d.edge \ PrunedOf(d, S)
    /\ \A e \in DOMAIN t.edge : t.edge[e] = d.edge[e]
    /\ t.node = d.node \ gone /\ \A n \in gone : ~Referenced(t, n)
    /\ t.endpoint = {p \in d.endpoint : p[1] \notin LookupAll(d, c, gone)}

LEMMA DeleteIs ==
    ASSUME NEW d, IsDB(d), NEW c, NEW S
    PROVE  \E gone : Deleted(d, c, S, DeleteContainersTx(d, c, S), gone)
<1> DEFINE eqs == PrunedOf(d, S)
           edge == [e \in DOMAIN d.edge \ eqs |-> d.edge[e]]
           equipment == [x \in DOMAIN d.equipment \ eqs |-> d.equipment[x]]
           group == d.group \ OwnedGroups(d, S)
           container == d.container \ S
           d1 == [d EXCEPT !.edge = edge, !.equipment = equipment, !.group = group,
                           !.container = container]
           candidates == eqs \cup {d.edge[e][i] : e \in DOMAIN d.edge \cap eqs, i \in {1, 2}}
                             \cup {g[1] : g \in OwnedGroups(d, S)}
           gone == {n \in candidates : ~StillReferenced(d1, n)}
           node == d.node \ gone
           attr == d.attr \ LookupAll(d, c, S \cup eqs \cup gone)
           endpoint == {p \in d.endpoint : p[1] \notin LookupAll(d, c, gone)}
           t == [d1 EXCEPT !.node = node, !.attr = attr, !.endpoint = endpoint]
<1>1. d1 = [d EXCEPT !.edge = [e \in DOMAIN @ \ eqs |-> @[e]],
                     !.equipment = [x \in DOMAIN @ \ eqs |-> @[x]],
                     !.group = @ \ OwnedGroups(d, S),
                     !.container = @ \ S]
  OBVIOUS
<1>2. /\ IsDB(d1) /\ d1.edge = edge /\ d1.equipment = equipment /\ d1.group = group
      /\ d1.container = container /\ d1.node = d.node /\ d1.attr = d.attr
      /\ d1.endpoint = d.endpoint /\ d1.entity = d.entity /\ d1.seq = d.seq
  <2> HIDE DEF edge, equipment, group, container
  <2> QED BY DEF IsDB
<1>3. \A n \in gone : ~Referenced(d1, n)
  BY DEF StillReferenced
<1>4. [d1 EXCEPT !.node = @ \ gone,
                 !.attr = @ \ LookupAll(d, c, S \cup eqs \cup gone),
                 !.endpoint = {p \in @ : p[1] \notin LookupAll(d, c, gone)}] = t
  <2> HIDE DEF d1, gone, eqs
  <2> QED BY <1>2
<1>5. DeleteContainersTx(d, c, S) = t
  BY <1>1, <1>4 DEF DeleteContainersTx, PrunedOf
<1>6. /\ DOMAIN edge = DOMAIN d.edge \ eqs /\ DOMAIN equipment = DOMAIN d.equipment \ eqs
      /\ \A e \in DOMAIN edge : edge[e] = d.edge[e]
  OBVIOUS
<1> HIDE DEF d1, gone, attr, edge, equipment, eqs
<1>7. /\ IsDB(t) /\ t.edge = edge /\ t.equipment = equipment /\ t.group = group
      /\ t.container = container /\ t.node = node /\ t.endpoint = endpoint
      /\ t.entity = d.entity /\ t.seq = d.seq
  <2> HIDE DEF group, container, node, endpoint
  <2> QED BY <1>2 DEF IsDB
<1> HIDE DEF t
<1>8. \A n \in gone : ~Referenced(t, n)
  <2> HIDE DEF group
  <2> QED BY <1>2, <1>3, <1>7 DEF Referenced
<1>9. Deleted(d, c, S, t, gone)
  BY <1>6, <1>7, <1>8 DEF Deleted, eqs
<1> QED BY <1>5, <1>9

\* Nothing that is left refers to what has gone.
LEMMA DeleteGood ==
    ASSUME NEW d, Sound(d), Refs(d), NEW clean, clean => EndpointsTrue(d), NEW S
    PROVE  LET t == DeleteContainersTx(d, d.entity, S)
           IN  Sound(t) /\ Refs(t) /\ (clean => EndpointsTrue(t))
<1> DEFINE t == DeleteContainersTx(d, d.entity, S)
<1>1. PICK gone : Deleted(d, d.entity, S, t, gone)
  BY DeleteIs DEF Sound
<1> HIDE DEF t
<1>2. /\ IsDB(t) /\ t.entity = d.entity /\ t.seq = d.seq
      /\ t.container \subseteq d.container /\ t.group \subseteq d.group
      /\ DOMAIN t.edge \subseteq DOMAIN d.edge
      /\ \A e \in DOMAIN t.edge : t.edge[e] = d.edge[e]
      /\ t.node = d.node \ gone /\ \A n \in gone : ~Referenced(t, n)
      /\ t.endpoint = {p \in d.endpoint : p[1] \notin LookupAll(d, d.entity, gone)}
  BY <1>1 DEF Deleted
<1>3. Sound(t)
  BY <1>2 DEF Sound
<1>4. \A e \in DOMAIN t.edge : Ends(t, e) = Ends(d, e) /\ Ends(t, e) \cap gone = {}
  BY <1>2 DEF Ends, Referenced
<1>5. Refs(t)
  <2>1. \A e \in DOMAIN t.edge : Ends(t, e) \subseteq t.node
    BY <1>2, <1>4 DEF Refs
  <2>2. \A g \in t.group : g[1] \in t.node
    BY <1>2 DEF Refs, Referenced
  <2> QED BY <2>1, <2>2 DEF Refs
<1>6. ASSUME clean PROVE EndpointsTrue(t)
  <2>1. EndpointsTrue(d)
    BY <1>6
  <2>2. ASSUME NEW e \in DOMAIN t.edge, NEW n \in Ends(t, e)
        PROVE  <<t.entity[n], t.entity[e]>> \in t.endpoint
    <3>1. <<d.entity[n], d.entity[e]>> \in d.endpoint /\ n \in DOMAIN d.entity /\ n \notin gone
      BY <1>2, <1>4, <2>1 DEF EndpointsTrue
    <3>2. \A k \in LookupAll(d, d.entity, gone) :
             \E x \in gone : x \in DOMAIN d.entity /\ k = d.entity[x]
      BY DEF LookupAll, Lookup
    <3>3. d.entity[n] \notin LookupAll(d, d.entity, gone)
      BY <3>1, <3>2 DEF Sound
    <3> QED BY <1>2, <3>1, <3>3
  <2>3. \A e \in DOMAIN t.edge : {e} \cup Ends(t, e) \subseteq DOMAIN t.entity
    BY <1>2, <1>4, <2>1 DEF EndpointsTrue
  <2>4. \A p \in t.endpoint, e \in DOMAIN t.edge :
           p[2] = t.entity[e] => \E n \in Ends(t, e) : p[1] = t.entity[n]
    BY <1>2, <1>4, <2>1 DEF EndpointsTrue
  <2> QED BY <2>2, <2>3, <2>4 DEF EndpointsTrue
<1> QED BY <1>3, <1>5, <1>6 DEF t

-----------------------------------------------------------------------------
(* The steps.                                                               *)

LEMMA AfterIs ==
    /\ After("attributes") = "containers" /\ After("containers") = "equipment"
    /\ After("equipment") = "nodes" /\ After("nodes") = "edges"
    /\ After("edges") = "groups" /\ After("groups") = "idle"
<1>1. Len(Stages) = 6
  BY DEF Stages
<1>2. /\ Stages[1] = "attributes" /\ Stages[2] = "containers" /\ Stages[3] = "equipment"
      /\ Stages[4] = "nodes" /\ Stages[5] = "edges" /\ Stages[6] = "groups"
  BY DEF Stages
<1>3. ASSUME NEW k \in 1 .. 6 PROVE After(Stages[k]) = IF k = 6 THEN "idle" ELSE Stages[k + 1]
  <2> DEFINE i == CHOOSE i \in 1 .. 6 : Stages[i] = Stages[k]
  <2>1. i \in 1 .. 6 /\ Stages[i] = Stages[k]
    OBVIOUS
  <2>2. i = k
    BY <1>2, <2>1
  <2> HIDE DEF i
  <2>3. After(Stages[k]) = IF i = 6 THEN "idle" ELSE Stages[i + 1]
    BY <1>1 DEF After, i
  <2> QED BY <2>2, <2>3
<1>4. /\ After(Stages[1]) = Stages[2] /\ After(Stages[2]) = Stages[3]
      /\ After(Stages[3]) = Stages[4] /\ After(Stages[4]) = Stages[5]
      /\ After(Stages[5]) = Stages[6] /\ After(Stages[6]) = "idle"
  BY <1>3
<1> QED BY <1>2, <1>4

\* Every transaction of a batch, in its turn.
LEMMA StageGood ==
    ASSUME NEW s, NEW clean, Good(s, clean), NEW u \in Units, NEW st \in StageNames \ {"idle"},
           view[u] \in AllViews, st \in {"edges", "groups"} => NodesOf(view[u]) \subseteq s.db.node
    PROVE  LET t == StageTx(s, u, st)
           IN  /\ Good(t, clean) /\ s.db.node \subseteq t.db.node
               /\ st = "nodes" => NodesOf(view[u]) \subseteq t.db.node
<1>1. CASE st = "attributes"
  BY <1>1, AttributesGood DEF StageTx
<1>2. CASE st = "containers"
  BY <1>2, ContainersGood DEF StageTx
<1>3. CASE st = "equipment"
  BY <1>3, EquipmentGood DEF StageTx
<1>4. CASE st = "nodes"
  BY <1>4, NodesGood DEF StageTx
<1>5. CASE st = "edges"
  BY <1>5, EdgesGood DEF StageTx
<1>6. CASE st = "groups"
  BY <1>6, GroupsGood DEF StageTx
<1> QED BY <1>1, <1>2, <1>3, <1>4, <1>5, <1>6 DEF StageNames
LEMMA InitInv == Init => StoreInv
<1> SUFFICES ASSUME Init PROVE StoreInv
  OBVIOUS
<1>1. DOMAIN NoRow = {}
  BY DEF NoRow
<1>2. /\ IsDB(db) /\ db.container = {} /\ db.node = {} /\ db.edge = NoRow /\ db.endpoint = {}
      /\ db.group = {} /\ db.entity = NoRow /\ db.seq = 0 /\ cache = NoRow
  BY DEF Init, EmptyDB, LoadCache, IsDB
<1>3. Sound(db) /\ Refs(db)
  BY <1>1, <1>2 DEF Sound, Refs
<1>4. Batches
  BY DEF Init, Batches, StageNames
<1>5. CacheTrue(db, cache) /\ EndpointsTrue(db)
  BY <1>1, <1>2 DEF CacheTrue, EndpointsTrue
<1> QED BY <1>3, <1>4, <1>5 DEF StoreInv

\* A batch that has just begun owes its nodes.
LEMMA StartBatchStep == ASSUME StoreInv, NEW u \in Units, StartBatch(u) PROVE StoreInv'
<1>1. PICK v \in ViewsOf[u] : view' = [view EXCEPT ![u] = v]
  BY DEF StartBatch
<1>2. /\ db' = db /\ cache' = cache /\ txFailed' = txFailed /\ ran' = ran \cup {u}
      /\ stage' = [stage EXCEPT ![u] = "attributes"]
  BY DEF StartBatch, Begin, Stages
<1>3. Batches'
  <2>1. stage' \in [Units -> StageNames] /\ DOMAIN view' = Units
    BY <1>1, <1>2 DEF StoreInv, Batches, StageNames
  <2>2. \A w \in Units : stage'[w] # "idle" => view'[w] \in ViewsOf[w] /\ w \in ran'
    BY <1>1, <1>2 DEF StoreInv, Batches
  <2>3. \A w \in Units : stage'[w] \in {"edges", "groups"} => NodesOf(view'[w]) \subseteq db'.node
    <3> TAKE w \in Units
    <3>1. CASE w = u
      BY <1>2, <3>1 DEF StoreInv, Batches
    <3>2. CASE w # u
      BY <1>1, <1>2, <3>2 DEF StoreInv, Batches
    <3> QED BY <3>1, <3>2
  <2> QED BY <2>1, <2>2, <2>3 DEF Batches
<1> QED BY <1>2, <1>3 DEF StoreInv

LEMMA CommitStep == ASSUME StoreInv, NEW u \in Units, Commit(u) PROVE StoreInv'
<1> DEFINE s == [db |-> db, cache |-> cache]
           t == StageTx(s, u, stage[u])
<1>1. /\ db' = t.db /\ cache' = t.cache /\ txFailed' = txFailed /\ ran' = ran /\ view' = view
      /\ stage' = [stage EXCEPT ![u] = After(stage[u])] /\ stage[u] # "idle"
  BY DEF Commit
<1>2. Good(s, ~txFailed) /\ s.db = db
  BY DEF StoreInv, Good
<1>3. stage[u] \in StageNames \ {"idle"} /\ view[u] \in ViewsOf[u] /\ view[u] \in AllViews
      /\ (stage[u] \in {"edges", "groups"} => NodesOf(view[u]) \subseteq db.node)
  BY <1>1 DEF StoreInv, Batches, AllViews
<1> HIDE DEF s
<1>4. /\ Good(t, ~txFailed) /\ db.node \subseteq t.db.node
      /\ stage[u] = "nodes" => NodesOf(view[u]) \subseteq t.db.node
  BY <1>2, <1>3, StageGood
<1> HIDE DEF t
<1>5. Batches'
  <2>1. /\ After(stage[u]) \in StageNames
        /\ After(stage[u]) \in {"edges", "groups"} => stage[u] \in {"nodes", "edges"}
    BY <1>3, AfterIs DEF StageNames
  <2>2. stage' \in [Units -> StageNames]
    BY <1>1, <2>1 DEF StoreInv, Batches
  <2>3. \A w \in Units : stage'[w] # "idle" => view'[w] \in ViewsOf[w] /\ w \in ran'
    BY <1>1, <1>3 DEF StoreInv, Batches
  <2>4. \A w \in Units : stage'[w] \in {"edges", "groups"} => NodesOf(view'[w]) \subseteq db'.node
    <3> TAKE w \in Units
    <3>1. CASE w = u
      BY <1>1, <1>3, <1>4, <2>1, <3>1 DEF StoreInv, Batches
    <3>2. CASE w # u
      BY <1>1, <1>4, <3>2 DEF StoreInv, Batches
    <3> QED BY <3>1, <3>2
  <2> QED BY <1>1, <2>2, <2>3, <2>4 DEF Batches, StoreInv
<1>6. Sound(db') /\ Refs(db') /\ (~txFailed' => CacheTrue(db', cache') /\ EndpointsTrue(db'))
  BY <1>1, <1>4 DEF Good
<1> QED BY <1>5, <1>6 DEF StoreInv

\* A rollback leaves the tables as they were; of the cache nothing is promised after it.
LEMMA RollbackStep == ASSUME StoreInv, NEW u \in Units, Rollback(u) PROVE StoreInv'
<1>1. /\ db' = db /\ txFailed' = TRUE /\ ran' = ran /\ view' = view
      /\ stage' = [stage EXCEPT ![u] = "idle"]
  BY DEF Rollback
<1>2. Batches'
  <2>1. stage' \in [Units -> StageNames] /\ DOMAIN view' = Units
    BY <1>1 DEF StoreInv, Batches, StageNames
  <2>2. \A w \in Units : stage'[w] # "idle" => view'[w] \in ViewsOf[w] /\ w \in ran'
    BY <1>1 DEF StoreInv, Batches
  <2>3. \A w \in Units : stage'[w] \in {"edges", "groups"} => NodesOf(view'[w]) \subseteq db'.node
    <3> TAKE w \in Units
    <3>1. CASE w = u
      BY <1>1, <3>1 DEF StoreInv, Batches
    <3>2. CASE w # u
      BY <1>1, <3>2 DEF StoreInv, Batches
    <3> QED BY <3>1, <3>2
  <2> QED BY <2>1, <2>2, <2>3 DEF Batches
<1> QED BY <1>1, <1>2 DEF StoreInv

\* More tables and more batches that ran leave what is under way as it was.
LEMMA BatchesKept ==
    ASSUME Batches, stage' = stage, view' = view, ran \subseteq ran', db.node \subseteq db'.node
    PROVE  Batches'
<1>1. \A w \in Units : stage'[w] # "idle" => view'[w] \in ViewsOf[w] /\ w \in ran'
  BY DEF Batches
<1>2. \A w \in Units : stage'[w] \in {"edges", "groups"} => NodesOf(view'[w]) \subseteq db'.node
  BY DEF Batches
<1> QED BY <1>1, <1>2 DEF Batches

LEMMA PersistBatchStep == ASSUME StoreInv, NEW u \in Units, PersistBatch(u) PROVE StoreInv'
<1> DEFINE s == [db |-> db, cache |-> cache]
<1>1. PICK v \in ViewsOf[u] : LET t == PersistBatchTx(s, u, v) IN db' = t.db /\ cache' = t.cache
  BY DEF PersistBatch
<1> DEFINE t == PersistBatchTx(s, u, v)
<1>2. /\ db' = t.db /\ cache' = t.cache /\ txFailed' = txFailed /\ ran \subseteq ran'
      /\ view' = view /\ stage' = stage
  BY <1>1 DEF PersistBatch, Begin
<1>3. Good(s, ~txFailed) /\ s.db = db
  BY DEF StoreInv, Good
<1>4. v \in AllViews
  BY DEF AllViews
<1> HIDE DEF s
<1>5. Good(t, ~txFailed) /\ db.node \subseteq t.db.node
  BY <1>3, <1>4, PersistGood
<1> HIDE DEF t
<1>6. Batches'
  BY <1>2, <1>5, BatchesKept DEF StoreInv
<1>7. Sound(db') /\ Refs(db') /\ (~txFailed' => CacheTrue(db', cache') /\ EndpointsTrue(db'))
  BY <1>2, <1>5 DEF Good
<1> QED BY <1>6, <1>7 DEF StoreInv

LEMMA PersistBatchFailsStep == ASSUME StoreInv, NEW u \in Units, PersistBatchFails(u) PROVE StoreInv'
<1>1. /\ db' = db /\ txFailed' = TRUE /\ ran \subseteq ran' /\ view' = view /\ stage' = stage
  BY DEF PersistBatchFails, Begin
<1>2. Batches'
  BY <1>1, BatchesKept DEF StoreInv
<1> QED BY <1>1, <1>2 DEF StoreInv

\* A new process believes the rows, and has nothing under way.
LEMMA ReopenStep == ASSUME StoreInv, Reopen PROVE StoreInv'
<1>1. /\ db' = db /\ cache' = db.entity /\ txFailed' = txFailed /\ ran' = {} /\ view' = view
      /\ stage' = [u \in Units |-> "idle"]
  BY DEF Reopen, LoadCache
<1>2. Batches'
  BY <1>1 DEF StoreInv, Batches, StageNames
<1>3. CacheTrue(db', cache')
  BY <1>1 DEF CacheTrue
<1> QED BY <1>1, <1>2, <1>3 DEF StoreInv

LEMMA PruneStep == ASSUME StoreInv, NEW S, DeleteContainers(S) PROVE StoreInv'
<1>1. /\ db' = DeleteContainersTx(db, db.entity, S) /\ cache' = db'.entity
      /\ txFailed' = txFailed /\ ran = {} /\ ran' = ran /\ view' = view /\ stage' = stage
  BY DEF DeleteContainers, LoadCache
<1>2. Sound(db') /\ Refs(db') /\ (~txFailed => EndpointsTrue(db'))
  BY <1>1, DeleteGood DEF StoreInv
<1>3. CacheTrue(db', cache')
  BY <1>1 DEF CacheTrue
<1>4. \A w \in Units : stage[w] = "idle"
  BY <1>1 DEF StoreInv, Batches
<1>5. Batches'
  BY <1>1, <1>4 DEF StoreInv, Batches
<1> QED BY <1>1, <1>2, <1>3, <1>5 DEF StoreInv

LEMMA NextInv == StoreInv /\ [Next]_vars => StoreInv'
<1> SUFFICES ASSUME StoreInv, [Next]_vars PROVE StoreInv'
  OBVIOUS
<1>1. ASSUME NEW u \in Units, StartBatch(u) PROVE StoreInv'
  BY <1>1, StartBatchStep
<1>2. ASSUME NEW u \in Units, Commit(u) PROVE StoreInv'
  BY <1>2, CommitStep
<1>3. ASSUME NEW u \in Units, Rollback(u) PROVE StoreInv'
  BY <1>3, RollbackStep
<1>4. ASSUME NEW u \in Units, PersistBatch(u) PROVE StoreInv'
  BY <1>4, PersistBatchStep
<1>5. ASSUME NEW u \in Units, PersistBatchFails(u) PROVE StoreInv'
  BY <1>5, PersistBatchFailsStep
<1>6. CASE Reopen
  BY <1>6, ReopenStep
<1>7. CASE Prune
  BY <1>7, PruneStep DEF Prune
<1>8. CASE UNCHANGED vars
  BY <1>8 DEF vars, StoreInv, Batches
<1> QED BY <1>1, <1>2, <1>3, <1>4, <1>5, <1>6, <1>7, <1>8 DEF Next

-----------------------------------------------------------------------------
(* What follows from it.                                                    *)

\* Every reachable state keeps the tables' references, the batches' order and, until a
\* transaction is rolled back, the cache and the endpoint rows in step with the tables.
THEOREM StoreInvariant == Spec => []StoreInv
BY InitInv, NextInv, PTL DEF Spec

\* Tables hold rows of the known units, and no two IDs share a key (resolve,
\* entity_id.go): the AUTOINCREMENT key of a new row was never issued before.
THEOREM TypesHold == Spec => []TypeOK
<1>1. StoreInv => TypeOK
  BY DEF StoreInv, Sound, Batches, TypeOK, AllEquipment
<1> QED BY <1>1, StoreInvariant, PTL

\* No stored edge and no stored group refers to a node that is not there, for any units,
\* views and order of batches, rollbacks, restarts and prunes.
THEOREM ReferencesHold == Spec => []ReferencedNodesExist
<1>1. StoreInv => ReferencedNodesExist
  BY DEF StoreInv, Refs, Ends, ReferencedNodesExist
<1> QED BY <1>1, StoreInvariant, PTL

\* The edges with an endpoint row of a node are the edges at the node.
LEMMA FoundAreThere ==
    ASSUME NEW d, Sound(d), EndpointsTrue(d), NEW n
    PROVE  GetEdgesByNodeIDs(d, n) = {e \in DOMAIN d.edge : n \in Ends(d, e)}
<1>1. ASSUME NEW e \in DOMAIN d.edge, n \in Ends(d, e) PROVE e \in GetEdgesByNodeIDs(d, n)
  BY <1>1 DEF EndpointsTrue, GetEdgesByNodeIDs
<1>2. ASSUME NEW e \in GetEdgesByNodeIDs(d, n) PROVE n \in Ends(d, e)
  <2> DEFINE p == <<d.entity[n], d.entity[e]>>
  <2>1. e \in DOMAIN d.edge /\ n \in DOMAIN d.entity /\ p \in d.endpoint
    BY DEF GetEdgesByNodeIDs
  <2>2. p[1] = d.entity[n] /\ p[2] = d.entity[e]
    OBVIOUS
  <2> HIDE DEF p
  <2>3. PICK m \in Ends(d, e) : d.entity[n] = d.entity[m]
    BY <2>1, <2>2 DEF EndpointsTrue
  <2>4. m \in DOMAIN d.entity
    BY <2>1, <2>3 DEF EndpointsTrue
  <2> QED BY <2>1, <2>3, <2>4 DEF Sound
<1>3. GetEdgesByNodeIDs(d, n) \subseteq DOMAIN d.edge
  BY DEF GetEdgesByNodeIDs
<1> QED BY <1>1, <1>2, <1>3

\* What stored edges connect, the recursive query reaches: the nodes whose keys are in a
\* set that is closed along endpoint rows are closed under edges.
LEMMA ConnectedAreReached ==
    ASSUME NEW d, Sound(d), Refs(d), EndpointsTrue(d), NEW n \in AllNodes, n \in DOMAIN d.entity
    PROVE  StoredReach(d, n) \subseteq GetReachableNodes(d, n)
<1> DEFINE Closed(S) == \A e \in DOMAIN d.edge : Ends(d, e) \cap S # {} => Ends(d, e) \subseteq S
           start == {d.entity[x] : x \in DOMAIN d.entity \cap {n}}
           keys == start \cup {p[1] : p \in d.endpoint}
<1>1. ASSUME NEW x \in StoredReach(d, n), NEW S \in SUBSET AllNodes, n \in S, Closed(S)
      PROVE  x \in S
  BY <1>1 DEF StoredReach
<1>2. \A e \in DOMAIN d.edge : Ends(d, e) \subseteq AllNodes /\ Ends(d, e) \subseteq DOMAIN d.entity
  BY DEF Sound, Refs, EndpointsTrue
<1>3. ASSUME NEW x \in StoredReach(d, n) PROVE x \in DOMAIN d.entity
  <2> DEFINE S == AllNodes \cap DOMAIN d.entity
  <2>1. n \in S /\ Closed(S)
    BY <1>2
  <2> HIDE DEF S, Closed
  <2>2. S \in SUBSET AllNodes /\ S \subseteq DOMAIN d.entity
    BY DEF S
  <2> QED BY <1>1, <2>1, <2>2
<1>4. ASSUME NEW x \in StoredReach(d, n), NEW K \in SUBSET keys, start \cup Along(d, K) \subseteq K
      PROVE  d.entity[x] \in K
  <2> DEFINE S == {y \in AllNodes : y \in DOMAIN d.entity /\ d.entity[y] \in K}
  <2>1. d.entity[n] \in K
    BY <1>4
  <2>2. ASSUME NEW e \in DOMAIN d.edge, NEW y \in Ends(d, e), y \in S, NEW z \in Ends(d, e)
        PROVE  z \in S
    <3> DEFINE p == <<d.entity[z], d.entity[e]>>
               q == <<d.entity[y], d.entity[e]>>
    <3>1. p \in d.endpoint /\ q \in d.endpoint
      BY DEF EndpointsTrue
    <3>2. q[1] \in K /\ q[2] = p[2] /\ p[1] = d.entity[z]
      BY <2>2
    <3>3. p[1] \in Along(d, K)
      <4> HIDE DEF p, q
      <4> QED BY <3>1, <3>2 DEF Along
    <3>4. d.entity[z] \in K
      BY <1>4, <3>2, <3>3
    <3> QED BY <1>2, <3>4
  <2>3. n \in S /\ Closed(S)
    BY <2>1, <2>2
  <2> HIDE DEF S, Closed
  <2>4. S \in SUBSET AllNodes
    BY DEF S
  <2>5. x \in S
    BY <1>1, <2>3, <2>4
  <2> QED BY <2>5 DEF S
<1> QED BY <1>3, <1>4 DEF GetReachableNodes

\* As long as no transaction was rolled back, an edge is found from each of its nodes and
\* from no other, and what edges connect is reached: model_edge_endpoint stays in step
\* with model_edge when terminals move and when containers are pruned.
THEOREM EdgesAreFound == Spec => []EdgesFoundByNode
<1>1. StoreInv => EdgesFoundByNode
  <2> SUFFICES ASSUME StoreInv, ~txFailed, NEW n \in AllNodes
               PROVE  LET at == {e \in DOMAIN db.edge : n \in Ends(db, e)}
                      IN  /\ GetEdgesByNodeIDs(db, n) = at
                          /\ at # {} => StoredReach(db, n) \subseteq GetReachableNodes(db, n)
    BY DEF EdgesFoundByNode
  <2> DEFINE at == {e \in DOMAIN db.edge : n \in Ends(db, e)}
  <2>1. Sound(db) /\ Refs(db) /\ EndpointsTrue(db)
    BY DEF StoreInv
  <2>2. GetEdgesByNodeIDs(db, n) = at
    BY <2>1, FoundAreThere
  <2>3. ASSUME at # {} PROVE StoredReach(db, n) \subseteq GetReachableNodes(db, n)
    <3>1. n \in DOMAIN db.entity
      BY <2>1, <2>3 DEF EndpointsTrue
    <3> QED BY <2>1, <3>1, ConnectedAreReached
  <2> QED BY <2>2, <2>3
<1> QED BY <1>1, StoreInvariant, PTL

\* A prune leaves the equipment, edges and groups of the containers it was not given as
\* they were (DeleteContainers, container_delete.go), in any state with the tables.
THEOREM OthersAreKept == Spec => PruneKeepsOthers
<1>1. ASSUME StoreInv, NEW S \in SUBSET db.container, DeleteContainers(S) PROVE OthersKept(S)
  <2>1. db' = DeleteContainersTx(db, db.entity, S) /\ IsDB(db)
    BY <1>1 DEF DeleteContainers, LoadCache, StoreInv, Sound
  <2>2. PICK gone : Deleted(db, db.entity, S, db', gone)
    BY <2>1, DeleteIs
  <2>3. /\ DOMAIN db'.equipment = DOMAIN db.equipment \ PrunedOf(db, S)
        /\ DOMAIN db'.edge = DOMAIN db.edge \ PrunedOf(db, S)
        /\ \A e \in DOMAIN db'.edge : db'.edge[e] = db.edge[e]
        /\ db'.group = db.group \ OwnedGroups(db, S)
    BY <2>2 DEF Deleted
  <2>4. db'.group = {g \in db.group : g[2] \notin S}
    BY <2>3 DEF OwnedGroups
  <2>5. \A n \in AllNodes :
           GetElectricalGroup(db', n) = {g[3] : g \in {g \in db.group : g[1] = n /\ g[2] \notin S}}
    BY <2>4 DEF GetElectricalGroup
  <2> QED BY <2>3, <2>5 DEF OthersKept, PrunedOf
<1>2. StoreInv => [\A S \in SUBSET db.container : DeleteContainers(S) => OthersKept(S)]_vars
  BY <1>1
<1> QED BY <1>2, StoreInvariant, PTL DEF PruneKeepsOthers, Spec

-----------------------------------------------------------------------------
(* The copy of a store: exact for every content of the two stores, every     *)
(* page size and every number of restarts.                                   *)


\* An AllX page ends with an owner: every row up to its last owner is on it.
LEMMA PageReachesItsLast ==
    ASSUME NEW tab \in Seq(Rows), Sorted(tab), NEW a \in Nat,
           NEW last \in Page(tab, a), NEW k \in Later(tab, a),
           Rank[tab[k].owner] <= Rank[tab[last].owner]
    PROVE  k \in Page(tab, a)
<1>0. /\ DOMAIN tab = 1..Len(tab) /\ Len(tab) \in Nat /\ BatchSize \in Nat \ {0}
      /\ \A i \in 1..Len(tab) : tab[i].owner \in Owners /\ Rank[tab[i].owner] \in Nat
  BY CopyAssumption
<1>1. PICK j \in Limited(tab, a) : tab[j].owner = tab[last].owner
  BY DEF Page
<1>2. j \in Later(tab, a) /\ j - BatchSize \notin Later(tab, a) /\ j \in DOMAIN tab /\ k \in DOMAIN tab
  BY <1>1 DEF Limited, Later
<1>3. CASE k <= j
  <2>1. SUFFICES ASSUME k - BatchSize \in Later(tab, a) PROVE FALSE
    BY DEF Page, Limited
  <2>2. k - BatchSize \in 1..Len(tab) /\ Rank[tab[k - BatchSize].owner] > a
    BY <2>1, <1>0 DEF Later
  <2>3. j - BatchSize \in 1..Len(tab) /\ k - BatchSize <= j - BatchSize
    BY <1>0, <1>2, <1>3, <2>2
  <2>4. Rank[tab[k - BatchSize].owner] <= Rank[tab[j - BatchSize].owner]
    <3>1. CASE k = j
      BY <3>1, <1>0, <2>2
    <3>2. CASE k < j
      <4>1. k - BatchSize < j - BatchSize
        BY <3>2, <1>0, <1>2
      <4> QED BY <4>1, <1>0, <2>2, <2>3 DEF Sorted
    <3> QED BY <3>1, <3>2, <1>0, <1>2, <1>3
  <2>5. j - BatchSize \in Later(tab, a)
    BY <2>2, <2>3, <2>4, <1>0 DEF Later
  <2> QED BY <2>5, <1>2
<1>4. CASE j < k
  <2>1. Rank[tab[j].owner] <= Rank[tab[k].owner]
    BY <1>4, <1>2 DEF Sorted
  <2>2. Rank[tab[j].owner] = Rank[tab[k].owner]
    BY <2>1, <1>0, <1>1, <1>2
  <2>3. tab[j].owner = tab[k].owner
    BY <2>2, <1>0, <1>2, CopyAssumption
  <2> QED BY <2>3, <1>1 DEF Page
<1> QED BY <1>0, <1>2, <1>3, <1>4

\* A page with fewer rows than the limit is the last: it holds all rows left.
LEMMA ShortPageIsLast ==
    ASSUME NEW tab \in Seq(Rows), Sorted(tab), NEW a \in Nat, Short(tab, a), NEW k \in Later(tab, a)
    PROVE  k \in Page(tab, a)
<1>0. /\ DOMAIN tab = 1..Len(tab) /\ Len(tab) \in Nat /\ BatchSize \in Nat \ {0}
      /\ \A i \in 1..Len(tab) : tab[i].owner \in Owners /\ Rank[tab[i].owner] \in Nat
  BY CopyAssumption
<1>1. k \in 1..Len(tab)
  BY <1>0 DEF Later
<1>2. SUFFICES ASSUME k - BatchSize \in Later(tab, a) PROVE FALSE
  BY DEF Page, Limited
<1> DEFINE first == k - BatchSize
           cut == Len(tab) - BatchSize + 1
<1>3. first \in 1..Len(tab) /\ Rank[tab[first].owner] > a
  BY <1>2, <1>0 DEF Later
<1>4. cut \in 1..Len(tab) /\ first < cut
  BY <1>0, <1>1, <1>3
<1>5. Rank[tab[first].owner] <= Rank[tab[cut].owner]
  BY <1>0, <1>3, <1>4 DEF Sorted
<1>6. cut \in Later(tab, a)
  BY <1>0, <1>3, <1>4, <1>5 DEF Later
<1> QED BY <1>6 DEF Short

\* Upserting rows of the source that contain, with a row, all rows of its owner
\* keeps what is settled and settles those rows.
LEMMA UpsertSettles ==
    ASSUME NEW t, NEW all, NEW new \in SUBSET all, NEW old, NEW row \in all,
           \A n \in new : \A r \in all : r.owner = n.owner => r \in new,
           \/ row \in new
           \/ row \in old /\ \A r \in old : Slot(t, r) = Slot(t, row) => r \in all
    PROVE  /\ row \in Upsert(t, old, new)
           /\ \A r \in Upsert(t, old, new) : Slot(t, r) = Slot(t, row) => r \in all
<1>1. \A n \in new : Slot(t, n) = Slot(t, row) => row \in new
  BY DEF Slot
<1>2. row \in Upsert(t, old, new)
  BY <1>1 DEF Upsert
<1>3. ASSUME NEW r \in Upsert(t, old, new), Slot(t, r) = Slot(t, row) PROVE r \in all
  BY <1>1, <1>3 DEF Upsert
<1> QED BY <1>2, <1>3

LEMMA SourceTables ==
    ASSUME CopyTypeOK, NEW t \in Tables
    PROVE  src[t] \in Seq(Rows) /\ Sorted(src[t])
BY CopyAssumption DEF CopyTypeOK

LEMMA OrderOfTables == /\ \A k \in 1..7 : Order[k] \in Tables
                       /\ \A j, k \in 1..7 : Order[j] = Order[k] => j = k
BY DEF Order, Tables

LEMMA CopyInvInit == CopyInit => CopyInv
<1> SUFFICES ASSUME CopyInit PROVE CopyInv
  OBVIOUS
<1> USE CopyAssumption DEF CopyInit
<1>1. CopyTypeOK
  BY DEF CopyTypeOK
<1>2. ASSUME NEW k \in 1..7, NEW i \in DOMAIN src[Order[k]] PROVE ~Copied(k, i)
  <2>1. src[Order[k]] \in Seq(Rows)
    BY <1>1, SourceTables, OrderOfTables
  <2>2. Rank[src[Order[k]][i].owner] \in Nat \ {0}
    BY <2>1, CopyAssumption
  <2> QED BY <2>2 DEF Copied
<1> QED BY <1>1, <1>2 DEF CopyInv, Whole

LEMMA SettledStays ==
    ASSUME dst' = dst, src' = src, NEW t, NEW i, Settled(t, i)
    PROVE  Settled(t, i)'
BY DEF Settled, Whole

\* One page: nothing settled is lost, and every row up to the new position settles.
LEMMA PageKeepsInv ==
    ASSUME CopyInv, phase = "running", table \in 1..7,
           NEW page, page = Page(src[Order[table]], after),
           dst' = [dst EXCEPT ![Order[table]] =
                      Upsert(Order[table], @, {src[Order[table]][i] : i \in page})],
           UNCHANGED <<src, before>>
    PROVE  /\ dst' \in [Tables -> SUBSET Rows]
           /\ \A t \in Tables : dst'[t] \subseteq before'[t] \cup Whole(src'[t])
           /\ \A t \in Tables : \A r \in before'[t] :
                 (\A n \in Whole(src'[t]) : Slot(t, n) # Slot(t, r)) => r \in dst'[t]
           /\ \A k \in 1..7 : \A i \in DOMAIN src'[Order[k]] :
                 (Copied(k, i) \/ (k = table /\ i \in page)) => Settled(Order[k], i)'
<1> DEFINE T == Order[table]
           new == {src[T][i] : i \in page}
<1> USE CopyAssumption
<1>1. CopyTypeOK /\ T \in Tables /\ src[T] \in Seq(Rows) /\ dst \in [Tables -> SUBSET Rows]
  BY SourceTables, OrderOfTables DEF CopyInv, CopyTypeOK
<1>2. page \subseteq DOMAIN src[T] /\ new \subseteq Whole(src[T])
  BY DEF Page, Later, Whole
<1>3. new \subseteq Rows
  BY <1>1, <1>2
<1>4. dst'[T] = Upsert(T, dst[T], new) /\ \A t \in Tables : t # T => dst'[t] = dst[t]
  BY <1>1
<1>5. dst' \in [Tables -> SUBSET Rows]
  <2>1. Upsert(T, dst[T], new) \subseteq Rows
    BY <1>1, <1>3 DEF Upsert
  <2> QED BY <2>1, <1>1
<1>6. ASSUME NEW t \in Tables PROVE dst'[t] \subseteq before'[t] \cup Whole(src'[t])
  <2>1. dst[t] \subseteq before[t] \cup Whole(src[t])
    BY DEF CopyInv
  <2>2. CASE t = T
    BY <2>1, <2>2, <1>2, <1>4 DEF Upsert, Whole
  <2>3. CASE t # T
    BY <2>1, <2>3, <1>4 DEF Whole
  <2> QED BY <2>2, <2>3
<1>7. ASSUME NEW t \in Tables, NEW r \in before'[t],
             \A n \in Whole(src'[t]) : Slot(t, n) # Slot(t, r)
      PROVE  r \in dst'[t]
  <2>1. r \in dst[t] /\ \A n \in Whole(src[t]) : Slot(t, n) # Slot(t, r)
    BY <1>7 DEF CopyInv, Whole
  <2>2. CASE t = T
    BY <2>1, <2>2, <1>2, <1>4 DEF Upsert
  <2>3. CASE t # T
    BY <2>1, <2>3, <1>4
  <2> QED BY <2>2, <2>3
<1>8. \A n \in new : \A r \in Whole(src[T]) : r.owner = n.owner => r \in new
  <2>1. SUFFICES ASSUME NEW i \in page, NEW k \in DOMAIN src[T], src[T][k].owner = src[T][i].owner
                 PROVE  k \in page
    BY DEF Whole
  <2>2. i \in Later(src[T], after) /\ \E j \in Limited(src[T], after) : src[T][j].owner = src[T][i].owner
    BY DEF Page
  <2>3. k \in Later(src[T], after)
    BY <2>1, <2>2 DEF Later
  <2> QED BY <2>1, <2>2, <2>3 DEF Page
<1>9. ASSUME NEW k \in 1..7, NEW i \in DOMAIN src'[Order[k]],
             Copied(k, i) \/ (k = table /\ i \in page)
      PROVE  Settled(Order[k], i)'
  <2>0. i \in DOMAIN src[Order[k]] /\ Order[k] \in Tables
    BY OrderOfTables
  <2>1. Copied(k, i) => Settled(Order[k], i)
    BY <2>0 DEF CopyInv
  <2>2. CASE k = table
    <3>1. \/ src[T][i] \in new
          \/ src[T][i] \in dst[T] /\ \A r \in dst[T] : Slot(T, r) = Slot(T, src[T][i]) => r \in Whole(src[T])
      BY <1>9, <2>1, <2>2 DEF Settled
    <3>2. src[T][i] \in Whole(src[T])
      BY <2>0, <2>2 DEF Whole
    <3>3. /\ src[T][i] \in Upsert(T, dst[T], new)
          /\ \A r \in Upsert(T, dst[T], new) : Slot(T, r) = Slot(T, src[T][i]) => r \in Whole(src[T])
      <4> DEFINE all == Whole(src[T])
                 old == dst[T]
                 row == src[T][i]
      <4>1. /\ new \in SUBSET all /\ row \in all
            /\ \A n \in new : \A r \in all : r.owner = n.owner => r \in new
            /\ \/ row \in new
               \/ row \in old /\ \A r \in old : Slot(T, r) = Slot(T, row) => r \in all
        BY <1>2, <1>8, <3>1, <3>2
      <4> HIDE DEF T, new, all, old, row
      <4>2. /\ row \in Upsert(T, old, new)
            /\ \A r \in Upsert(T, old, new) : Slot(T, r) = Slot(T, row) => r \in all
        BY <4>1, UpsertSettles
      <4> QED BY <4>2 DEF all, old, row
    <3>4. dst'[Order[k]] = Upsert(T, dst[T], new) /\ src' = src
      BY <2>2, <1>4
    <3> QED BY <3>3, <3>4, <2>2 DEF Settled, Whole
  <2>3. CASE k # table
    <3>1. Settled(Order[k], i)
      BY <1>9, <2>1, <2>3
    <3>2. Order[k] # T
      BY <2>3, OrderOfTables
    <3>3. dst'[Order[k]] = dst[Order[k]]
      BY <3>2, <2>0, <1>4
    <3>4. src' = src
      OBVIOUS
    <3> QED BY <3>1, <3>3, <3>4 DEF Settled, Whole
  <2> QED BY <2>2, <2>3
<1> QED BY <1>5, <1>6, <1>7, <1>9

LEMMA CopyInvStep == CopyInv /\ [CopyNext]_copyVars => CopyInv'
<1> SUFFICES ASSUME CopyInv, [CopyNext]_copyVars PROVE CopyInv'
  OBVIOUS
<1> USE CopyAssumption
<1>1. CASE CopyPage
  <2> DEFINE T == Order[table]
             page == Page(src[T], after)
  <2>0. phase = "running" /\ table \in 1..7 /\ CopyTypeOK /\ T \in Tables
    BY <1>1, OrderOfTables DEF CopyPage, CopyInv, CopyTypeOK
  <2>1. src[T] \in Seq(Rows) /\ Sorted(src[T]) /\ after \in Nat
    BY <2>0, SourceTables DEF CopyTypeOK
  <2>2. ASSUME NEW i \in DOMAIN src[T] PROVE Rank[src[T][i].owner] \in Nat /\ src[T][i] \in Rows
    BY <2>1
  <2>3. CASE Later(src[T], after) = {}
    <3>1. table' = table + 1 /\ after' = 0 /\ UNCHANGED <<dst, src, phase, kills, before>>
      BY <1>1, <2>3 DEF CopyPage, NextTable
    <3>2. CopyTypeOK'
      BY <3>1, <2>0 DEF CopyTypeOK
    <3>3. ASSUME NEW k \in 1..7, NEW i \in DOMAIN src'[Order[k]], Copied(k, i)' PROVE Settled(Order[k], i)'
      <4>0. i \in DOMAIN src[Order[k]] /\ src[Order[k]] \in Seq(Rows) /\ Rank[src[Order[k]][i].owner] \in Nat \ {0}
        BY <3>1, <2>0, SourceTables, OrderOfTables
      <4>1. k < table + 1
        BY <3>1, <3>3, <4>0 DEF Copied
      <4>2. CASE k < table
        <5>1. Copied(k, i)
          BY <4>2 DEF Copied
        <5> QED BY <5>1, <4>0, <3>1, <2>0, SettledStays DEF CopyInv
      <4>3. CASE k = table
        <5>1. Rank[src[T][i].owner] <= after
          BY <4>0, <4>3, <2>1, <2>3 DEF Later
        <5>2. Copied(k, i)
          BY <5>1, <4>3 DEF Copied
        <5> QED BY <5>2, <4>0, <3>1, <2>0, SettledStays DEF CopyInv
      <4> QED BY <4>1, <4>2, <4>3, <2>0
    <3>4. \A k \in 1..7 : \A i \in DOMAIN src'[Order[k]] : Copied(k, i)' => Settled(Order[k], i)'
      BY <3>3
    <3>5. /\ \A t \in Tables : dst'[t] \subseteq before'[t] \cup Whole(src'[t])
          /\ \A t \in Tables : \A r \in before'[t] :
                (\A n \in Whole(src'[t]) : Slot(t, n) # Slot(t, r)) => r \in dst'[t]
      BY <3>1 DEF CopyInv
    <3> QED BY <3>1, <3>2, <3>4, <3>5, <2>0 DEF CopyInv
  <2>4. CASE Later(src[T], after) # {}
    <3>1. /\ dst' = [dst EXCEPT ![T] = Upsert(T, @, {src[T][i] : i \in page})]
          /\ UNCHANGED <<src, phase, kills, before>>
      BY <1>1, <2>4 DEF CopyPage
    <3>2. PICK last \in page : IF Short(src[T], after) THEN NextTable
                               ELSE after' = Rank[src[T][last].owner] /\ UNCHANGED table
      BY <1>1, <2>4 DEF CopyPage
    <3>3. last \in DOMAIN src[T]
      BY DEF Page, Later
    <3>4. /\ dst' \in [Tables -> SUBSET Rows]
          /\ \A t \in Tables : dst'[t] \subseteq before'[t] \cup Whole(src'[t])
          /\ \A t \in Tables : \A r \in before'[t] :
                (\A n \in Whole(src'[t]) : Slot(t, n) # Slot(t, r)) => r \in dst'[t]
          /\ \A k \in 1..7 : \A i \in DOMAIN src'[Order[k]] :
                (Copied(k, i) \/ (k = table /\ i \in page)) => Settled(Order[k], i)'
      BY <3>1, <2>0, PageKeepsInv
    <3>5. CopyTypeOK'
      <4>1. table' \in 1..8 /\ after' \in Nat
        BY <3>2, <3>3, <2>0, <2>2 DEF NextTable, CopyTypeOK
      <4> QED BY <4>1, <3>1, <3>4, <2>0 DEF CopyTypeOK
    <3>6. ASSUME NEW k \in 1..7, NEW i \in DOMAIN src'[Order[k]], Copied(k, i)'
          PROVE  Copied(k, i) \/ (k = table /\ i \in page)
      <4>0. i \in DOMAIN src[Order[k]] /\ src[Order[k]] \in Seq(Rows) /\ Rank[src[Order[k]][i].owner] \in Nat \ {0}
        BY <3>1, <2>0, SourceTables, OrderOfTables
      <4>1. CASE k < table
        BY <4>1 DEF Copied
      <4>2. CASE k = table
        <5>1. CASE i \notin Later(src[T], after)
          <6>1. Rank[src[T][i].owner] <= after
            BY <5>1, <4>0, <4>2, <2>1 DEF Later
          <6> QED BY <6>1, <4>2 DEF Copied
        <5>2. CASE i \in Later(src[T], after)
          <6>1. CASE Short(src[T], after)
            BY <6>1, <5>2, <4>2, <2>1, ShortPageIsLast
          <6>2. CASE ~Short(src[T], after)
            <7>1. Rank[src[T][i].owner] <= Rank[src[T][last].owner]
              BY <3>6, <3>1, <3>2, <6>2, <4>2, <2>0 DEF Copied
            <7> QED BY <7>1, <5>2, <4>2, <2>1, PageReachesItsLast
          <6> QED BY <6>1, <6>2
        <5> QED BY <5>1, <5>2
      <4>3. CASE k > table
        <5>1. ~Copied(k, i)'
          BY <4>0, <4>3, <3>1, <3>2, <2>0 DEF Copied, NextTable
        <5> QED BY <5>1, <3>6
      <4> QED BY <4>1, <4>2, <4>3, <2>0
    <3>7. \A k \in 1..7 : \A i \in DOMAIN src'[Order[k]] : Copied(k, i)' => Settled(Order[k], i)'
      BY <3>4, <3>6
    <3> QED BY <3>1, <3>4, <3>5, <3>7, <2>0 DEF CopyInv
  <2> QED BY <2>3, <2>4
<1>2. CASE KillCopy
  BY <1>2 DEF KillCopy, CopyInv, CopyTypeOK, Slot, Whole
<1>3. CASE StartCopy
  <2>1. table' = 1 /\ after' = 0 /\ phase' = "running" /\ UNCHANGED <<src, dst, kills, before>>
    BY <1>3 DEF StartCopy
  <2>2. CopyTypeOK'
    BY <2>1 DEF CopyInv, CopyTypeOK
  <2>3. ASSUME NEW k \in 1..7, NEW i \in DOMAIN src'[Order[k]] PROVE ~Copied(k, i)'
    <3>1. src[Order[k]] \in Seq(Rows) /\ i \in DOMAIN src[Order[k]]
      BY <2>1, SourceTables, OrderOfTables DEF CopyInv
    <3>2. Rank[src[Order[k]][i].owner] \in Nat \ {0}
      BY <3>1
    <3> QED BY <3>2, <2>1 DEF Copied
  <2> QED BY <2>1, <2>2, <2>3 DEF CopyInv, Slot, Whole
<1>4. CASE FinishCopy
  <2>1. phase = "running" /\ table = 8 /\ phase' = "done" /\ UNCHANGED <<src, dst, table, after, kills, before>>
    BY <1>4 DEF FinishCopy
  <2>2. ASSUME NEW t \in Tables, NEW i \in DOMAIN src[t] PROVE Settled(t, i)
    <3>1. PICK k \in 1..7 : t = Order[k]
      BY DEF Tables
    <3>2. Copied(k, i)
      BY <2>1 DEF Copied
    <3> QED BY <3>1, <3>2, <2>1 DEF CopyInv
  <2>3. \A t \in Tables : \A i \in DOMAIN src'[t] : Settled(t, i)'
    BY <2>1, <2>2, SettledStays
  <2>4. /\ CopyTypeOK'
        /\ \A t \in Tables : dst'[t] \subseteq before'[t] \cup Whole(src'[t])
        /\ \A t \in Tables : \A r \in before'[t] :
              (\A n \in Whole(src'[t]) : Slot(t, n) # Slot(t, r)) => r \in dst'[t]
    BY <2>1 DEF CopyInv, CopyTypeOK
  <2> QED BY <2>1, <2>3, <2>4 DEF CopyInv
<1>5. CASE UNCHANGED copyVars
  <2>1. UNCHANGED <<src, dst, table, after, phase, kills, before>>
    BY <1>5 DEF copyVars
  <2>2. \A t, i : Settled(t, i) => Settled(t, i)'
    BY <2>1, SettledStays
  <2>3. \A k, i : Copied(k, i)' => Copied(k, i)
    BY <2>1 DEF Copied
  <2>4. CopyTypeOK'
    BY <2>1 DEF CopyInv, CopyTypeOK
  <2> QED BY <2>1, <2>2, <2>3, <2>4 DEF CopyInv
<1> QED BY <1>1, <1>2, <1>3, <1>4, <1>5 DEF CopyNext

\* CopyTypeOK holds in every state of every copy.
THEOREM CopyTypeCorrect == CopySpec => []CopyTypeOK
<1>1. CopyInv => CopyTypeOK
  BY DEF CopyInv
<1> QED BY <1>1, CopyInvInit, CopyInvStep, PTL DEF CopySpec

\* CopyInv at the end says that the copy is exact.
LEMMA CopyInvIsExact == CopyInv => CopyExact
<1>1. ASSUME CopyInv, phase = "done", NEW t \in Tables
      PROVE  dst[t] = Upsert(t, before[t], Whole(src[t]))
  <2>1. /\ dst[t] \subseteq before[t] \cup Whole(src[t])
        /\ \A r \in before[t] : (\A n \in Whole(src[t]) : Slot(t, n) # Slot(t, r)) => r \in dst[t]
        /\ \A i \in DOMAIN src[t] : Settled(t, i)
    BY <1>1 DEF CopyInv
  <2>2. \A n \in Whole(src[t]) : n \in dst[t] /\ \A r \in dst[t] : Slot(t, r) = Slot(t, n) => r \in Whole(src[t])
    BY <2>1 DEF Whole, Settled
  <2> QED BY <2>1, <2>2 DEF Upsert
<1> QED BY <1>1 DEF CopyExact

\* CopyModel makes an exact copy: no page boundary, no restart loses or keeps a
\* row it should not.
THEOREM CopyIsExact == CopySpec => []CopyExact
BY CopyInvIsExact, CopyInvInit, CopyInvStep, PTL DEF CopySpec

-----------------------------------------------------------------------------
(* ModelExchange: Check and Emit agree.                                      *)

\* Check repeats the guards of Emit by hand; what it lets pass, Emit takes whole.
LEMMA CleanFilesAreTaken ==
    ASSUME NEW files, Findings(files) = {}
    PROVE  ~Aborts(files) /\ EmitErrors(files) = {}
<1>1. /\ \A p \in DOMAIN files : Classified(p)
      /\ \A p \in DOMAIN files : ~Duplicate(files, p) /\ files[p].parses
  <2>1. ASSUME NEW p \in DOMAIN files, ~Classified(p) PROVE FALSE
    <3>1. <<"path", p.id>> \in Findings(files)
      BY <2>1 DEF Findings
    <3> QED BY <3>1
  <2>2. ASSUME NEW p \in DOMAIN files, Duplicate(files, p) PROVE FALSE
    <3>1. <<"duplicate", p.id>> \in Findings(files)
      BY <2>1, <2>2 DEF Findings
    <3> QED BY <3>1
  <2>3. ASSUME NEW p \in DOMAIN files, ~files[p].parses PROVE FALSE
    <3>1. <<"syntax", p.id>> \in Findings(files)
      BY <2>1, <2>3 DEF Findings
    <3> QED BY <3>1
  <2> QED BY <2>1, <2>2, <2>3
<1>2. ASSUME NEW p \in DOMAIN files PROVE FileErrors(p, files[p]) = {}
  <2>1. EquipmentErrors(files[p]) = {}
    BY <1>1 DEF Findings
  <2>2. \A q \in BayEquipment(files[p]) \cup files[p].equipments : q.class # "" /\ ~(Len(q.connects) > 2)
    BY <2>1 DEF EquipmentErrors
  <2> QED BY <2>2 DEF FileErrors
<1>3. ~Aborts(files)
  BY <1>1 DEF Aborts
<1>4. EmitErrors(files) = {}
  BY <1>1, <1>2 DEF EmitErrors, Taken
<1> QED BY <1>3, <1>4

\* The word of Check is about the tree that is there; before an import nothing is reported.
CheckedInv ==
    /\ milestone = "copy" => checked = "no"
    /\ milestone \in {"copy", "tree"} => errors = {}
    /\ checked = "clean" => Findings(tree) = {}
    /\ CheckedImportsClean

LEMMA CheckedInvStep == CheckedInv /\ [ExchangeNext]_exchangeVars => CheckedInv'
<1> SUFFICES ASSUME CheckedInv, [ExchangeNext]_exchangeVars PROVE CheckedInv'
  OBVIOUS
<1> USE DEF CheckedInv, CheckedImportsClean
<1>1. CASE Copy \/ UNCHANGED exchangeVars
  BY <1>1 DEF Copy, exchangeVars
<1>2. CASE Export
  BY <1>2 DEF Export
<1>3. ASSUME NEW files, Edit(files) PROVE CheckedInv'
  BY <1>3 DEF Edit
<1>4. CASE MoveFile \/ CopyFile \/ SpoilFile \/ DropClass \/ AddConnects
  BY <1>3, <1>4 DEF MoveFile, CopyFile, SpoilFile, DropClass, AddConnects
<1>5. CASE Check
  BY <1>5 DEF Check
<1>6. CASE Import
  <2>1. UNCHANGED <<tree, checked>> /\ milestone = "tree" /\ milestone' \in {"failed", "imported"}
    BY <1>6 DEF Import
  <2>2. checked = "clean" => milestone' # "failed" /\ errors' = {}
    BY <1>6, CleanFilesAreTaken DEF Import
  <2> QED BY <2>1, <2>2
<1>7. CASE ExportAgain
  BY <1>7 DEF ExportAgain
<1> QED BY <1>1, <1>2, <1>4, <1>5, <1>6, <1>7 DEF ExchangeNext

\* A tree that Check found nothing wrong with is imported whole, whatever model it was
\* written from, whatever edits came before the check, and however many.
THEOREM CheckedTreesImportClean == ExchangeSpec => []CheckedImportsClean
<1>1. InitExchange => CheckedInv
  BY DEF InitExchange, CheckedInv, CheckedImportsClean
<1>2. CheckedInv => CheckedImportsClean
  BY DEF CheckedInv
<1> QED BY <1>1, <1>2, CheckedInvStep, PTL DEF ExchangeSpec

-----------------------------------------------------------------------------
(* ModelExchange: the comments at the nodes lead to the files at the nodes.  *)

\* A set of naturals has a least one.
LEMMA LeastExists ==
    ASSUME NEW S \in SUBSET Nat, S # {}
    PROVE  \E x \in S : \A y \in S : x <= y
<1>1. IsWellFoundedOn(OpToRel(<, Nat), Nat)
  BY NatLessThanWellFounded
<1>2. PICK x \in S : \A y \in S : ~(<<y, x>> \in OpToRel(<, Nat))
  BY <1>1, WFMin
<1>3. \A y \in S : ~(<<y, x>> \in {p \in Nat \X Nat : p[1] < p[2]})
  BY <1>2 DEF OpToRel
<1>4. ASSUME NEW y \in S, y < x PROVE FALSE
  <2> DEFINE p == <<y, x>>
  <2>1. p \in Nat \X Nat /\ p[1] = y /\ p[2] = x
    OBVIOUS
  <2>2. p[1] < p[2]
    BY <1>4, <2>1
  <2>3. p \notin {q \in Nat \X Nat : q[1] < q[2]}
    BY <1>3
  <2> HIDE DEF p
  <2> QED BY <2>1, <2>2, <2>3
<1>5. \A y \in S : x \in Nat /\ y \in Nat /\ ~(y < x)
  BY <1>4
<1> QED BY <1>5

\* The prefix two lists share: as long as one of them at most, and the same in both.
LEMMA SharedPrefix ==
    ASSUME NEW a, NEW b, IsList(a), IsList(b), NEW n, n = Len(Exporter!LongestCommonPrefix({a, b}))
    PROVE  n \in 0 .. Len(a) /\ n \in 0 .. Len(b) /\ \A i \in 1 .. n : a[i] = b[i]
<1> DEFINE P == Exporter!CommonPrefixes({a, b})
           Lengths == {Len(a) - Len(x) : x \in P}
<1>1. a \in Seq(Range(a)) /\ b \in Seq(Range(b)) /\ Len(a) \in Nat /\ Len(b) \in Nat
  BY DEF IsList
<1>2. ASSUME NEW x \in P
      PROVE  /\ Len(x) \in Nat /\ Len(x) <= Len(a) /\ Len(x) <= Len(b)
             /\ \A i \in 1 .. Len(x) : a[i] = b[i]
  <2>1. \E t \in {a, b} : \E l \in 0 .. Len(t) : x = SubSeq(t, 1, l)
    BY DEF Exporter!CommonPrefixes, Exporter!Prefixes
  <2>2. Exporter!IsPrefix(x, a) /\ Exporter!IsPrefix(x, b)
    BY DEF Exporter!CommonPrefixes
  <2>3. x \in Seq(Range(a)) \/ x \in Seq(Range(b))
    BY <1>1, <2>1
  <2>4. Len(x) \in Nat
    BY <2>3
  <2>5. SubSeq(x, 1, Len(x)) = SubSeq(a, 1, Len(x)) /\ SubSeq(x, 1, Len(x)) = SubSeq(b, 1, Len(x))
    BY <2>2 DEF Exporter!IsPrefix
  <2>6. Len(x) <= Len(a) /\ Len(x) <= Len(b)
    BY <2>2 DEF Exporter!IsPrefix
  <2>7. ASSUME NEW i \in 1 .. Len(x) PROVE a[i] = b[i]
    <3>1. SubSeq(a, 1, Len(x))[i] = a[i] /\ SubSeq(b, 1, Len(x))[i] = b[i]
      BY <1>1, <2>4, <2>6
    <3> QED BY <3>1, <2>5
  <2> QED BY <2>4, <2>6, <2>7
<1>3. <<>> \in P
  <2>1. SubSeq(a, 1, 0) = <<>> /\ SubSeq(b, 1, 0) = <<>>
    BY <1>1
  <2>2. <<>> \in Exporter!Prefixes(a)
    BY <1>1, <2>1 DEF Exporter!Prefixes
  <2>3. Len(<<>>) = 0 /\ SubSeq(<<>>, 1, 0) = <<>>
    OBVIOUS
  <2>4. Exporter!IsPrefix(<<>>, a) /\ Exporter!IsPrefix(<<>>, b)
    BY <1>1, <2>1, <2>3 DEF Exporter!IsPrefix
  <2> QED BY <2>2, <2>4 DEF Exporter!CommonPrefixes
<1>4. \E x \in P : \A y \in P : Len(y) <= Len(x)
  <2> HIDE DEF P
  <2>0. ASSUME NEW x \in P PROVE Len(a) - Len(x) \in Nat
    BY <1>1, <1>2
  <2>1. Lengths \in SUBSET Nat /\ Lengths # {}
    BY <1>3, <2>0
  <2>2. PICK m \in Lengths : \A k \in Lengths : m <= k
    BY <2>1, LeastExists
  <2>3. PICK x \in P : m = Len(a) - Len(x)
    OBVIOUS
  <2>4. ASSUME NEW y \in P PROVE Len(y) <= Len(x)
    <3>1. m <= Len(a) - Len(y)
      BY <2>2
    <3> QED BY <3>1, <2>3, <1>1, <1>2
  <2> QED BY <2>4
<1>5. Exporter!LongestCommonPrefix({a, b}) \in P
  BY <1>4 DEF Exporter!LongestCommonPrefix
<1> HIDE DEF P
<1>6. n \in Nat /\ n <= Len(a) /\ n <= Len(b) /\ \A i \in 1 .. n : a[i] = b[i]
  BY <1>2, <1>5
<1> HIDE DEF Lengths
<1>7. n \in 0 .. Len(a) /\ n \in 0 .. Len(b)
  BY <1>1, <1>6
<1> QED BY <1>6, <1>7

\* A list falls into two wherever it is cut.
LEMMA CutIsJoined ==
    ASSUME NEW s, IsList(s), NEW n \in 0 .. Len(s)
    PROVE  SubSeq(s, 1, n) \o SubSeq(s, n + 1, Len(s)) = s
<1>1. s \in Seq(Range(s)) /\ Len(s) \in Nat
  BY DEF IsList
<1>2. SubSeq(s, 1, n) \o SubSeq(s, n + 1, Len(s)) = SubSeq(s, 1, Len(s))
  BY <1>1, ConcatAdjacentSubSeq, 1 \in 1 .. Len(s) + 1, n \in 1 - 1 .. Len(s), Len(s) \in n .. Len(s)
<1> QED BY <1>1, <1>2, SubSeqFull

\* A reference is undone step by step: up to the shared directories, then down.
LEMMA RefIsFollowed ==
    ASSUME NEW p, NEW f, IsList(p.dir), IsList(f.dir), f = [dir |-> f.dir, id |-> f.id]
    PROVE  Follow(p, Exporter!RelativeFileRef(p.dir, f)) = f
<1> DEFINE n == Len(Exporter!LongestCommonPrefix({p.dir, f.dir}))
           down == SubSeq(f.dir, n + 1, Len(f.dir))
           ref == Exporter!RelativeFileRef(p.dir, f)
<1>1. n \in 0 .. Len(p.dir) /\ n \in 0 .. Len(f.dir) /\ \A i \in 1 .. n : p.dir[i] = f.dir[i]
  BY SharedPrefix
<1>2. /\ p.dir \in Seq(Range(p.dir)) /\ f.dir \in Seq(Range(f.dir))
      /\ Len(p.dir) \in Nat /\ Len(f.dir) \in Nat
  BY DEF IsList
<1>3. ref.ups = Len(p.dir) - n /\ ref.down = down /\ ref.id = f.id
  BY DEF Exporter!RelativeFileRef
<1> HIDE DEF n
<1>4. SubSeq(p.dir, 1, n) = SubSeq(f.dir, 1, n)
  <2> DEFINE up == SubSeq(p.dir, 1, n)
             same == SubSeq(f.dir, 1, n)
             V == Range(p.dir) \cup Range(f.dir)
  <2>1. up \in Seq(Range(p.dir)) /\ Len(up) = n /\ \A i \in 1 .. n : up[i] = p.dir[i]
    BY <1>1, <1>2
  <2>2. same \in Seq(Range(f.dir)) /\ Len(same) = n /\ \A i \in 1 .. n : same[i] = f.dir[i]
    BY <1>1, <1>2
  <2> HIDE DEF up, same
  <2>3. up = [i \in 1 .. n |-> up[i]] /\ same = [i \in 1 .. n |-> same[i]]
    BY <2>1, <2>2
  <2>4. \A i \in 1 .. n : up[i] = same[i]
    BY <1>1, <2>1, <2>2
  <2>5. up = same
    BY <2>3, <2>4
  <2> QED BY <2>5 DEF up, same
<1>5. Len(p.dir) - (Len(p.dir) - n) = n
  BY <1>1, <1>2
<1>6. Follow(p, ref) = [dir |-> SubSeq(p.dir, 1, n) \o down, id |-> f.id]
  <2> HIDE DEF down, ref
  <2> QED BY <1>3, <1>5 DEF Follow
<1>7. SubSeq(f.dir, 1, n) \o down = f.dir
  BY <1>1, CutIsJoined
<1> HIDE DEF down, ref
<1>8. Follow(p, ref) = [dir |-> f.dir, id |-> f.id]
  BY <1>4, <1>6, <1>7
<1> QED BY <1>8 DEF ref

\* A name in a file is resolved to what was shortened.
LEMMA NameIsUndone ==
    ASSUME NEW root, NEW n, IsList(root), root # NoID,
           n \in {NoID, GND} \/ (IsList(n) /\ n[1] # "@")
    PROVE  ResolveID(root, Exporter!Shorten(root, n)) = n
<1> USE DEF Exporter!NoID, Exporter!GND, NoID, GND
<1>1. CASE Exporter!Shorten(root, n) = n
  <2>1. n = NoID \/ n[1] # "@"
    OBVIOUS
  <2> QED BY <1>1, <2>1 DEF ResolveID
<1>2. CASE Exporter!Shorten(root, n) # n
  <2> DEFINE rest == SubSeq(n, Len(root) + 1, Len(n))
             short == <<"@">> \o rest
  <2>1. /\ n # GND /\ Len(n) > Len(root) /\ SubSeq(n, 1, Len(root)) = root
        /\ Exporter!Shorten(root, n) = short
    BY <1>2 DEF Exporter!Shorten
  <2>2. root \in Seq(Range(root)) /\ Len(root) \in Nat
    BY DEF IsList
  <2>3. n # NoID
    BY <2>1, <2>2
  <2>4. IsList(n) /\ n \in Seq(Range(n)) /\ Len(n) \in Nat
    BY <2>1, <2>3 DEF IsList
  <2>5. root \o rest = n
    BY <2>1, <2>2, <2>4, CutIsJoined, Len(root) \in 0 .. Len(n)
  <2>6. rest \in Seq(Range(n))
    BY <2>2, <2>4
  <2> HIDE DEF rest
  <2>7. short # <<>> /\ short[1] = "@" /\ Tail(short) = rest
    <3> DEFINE V == Range(n) \cup {"@"}
    <3>1. rest \in Seq(V) /\ "@" \in V
      BY <2>6
    <3> HIDE DEF V
    <3> QED BY <3>1
  <2> HIDE DEF short
  <2> QED BY <2>1, <2>5, <2>7 DEF ResolveID
<1> QED BY <1>1, <1>2

\* The root above a container that is a root, or stands in one.
LEMMA RootAbove ==
    ASSUME NEW s, IsFiniteSet(DOMAIN s.containers), NEW r \in Exporter!Roots(s),
           NEW c \in DOMAIN s.containers,
           c = r \/ (c \notin Exporter!Roots(s) /\ s.containers[c].parent = r)
    PROVE  Exporter!ContainerRootOf(s, c) = r
<1> DEFINE parents == DOMAIN s.containers \ Exporter!Roots(s)
           N == Exporter!Cardinality(parents)
           Above(d) == IF d \in parents THEN s.containers[d].parent ELSE d
           Recursive(f) == f = [k \in 0 .. N |-> IF k = 0 THEN c ELSE Above(f[k - 1])]
           up == CHOOSE f : Recursive(f)
           w == [k \in 0 .. N |-> IF k = 0 THEN c ELSE r]
<1>1. N \in Nat /\ (c # r => N # 0)
  <2>1. IsFiniteSet(parents)
    BY FS_Difference
  <2>2. c # r => parents # {}
    OBVIOUS
  <2>3. N = Cardinality(parents)
    BY DEF Exporter!Cardinality, Cardinality
  <2> HIDE DEF N
  <2> QED BY <2>1, <2>2, <2>3, FS_CardinalityType, FS_EmptySet
<1>2. Exporter!ContainerRootOf(s, c) = IF up[N] \in Exporter!Roots(s) THEN up[N] ELSE Exporter!NoID
  BY DEF Exporter!ContainerRootOf
<1>3. Above(c) = r /\ Above(r) = r
  BY DEF Exporter!Roots
<1> HIDE DEF N, Above
<1>4. Recursive(w)
  <2>1. \A k \in 0 .. N : w[k] = IF k = 0 THEN c ELSE Above(w[k - 1])
    <3>1. ASSUME NEW k \in 0 .. N, k # 0 PROVE w[k] = r /\ w[k - 1] \in {c, r}
      BY <1>1, <3>1
    <3> QED BY <3>1, <1>1, <1>3
  <2> QED BY <2>1
<1>5. Recursive(up)
  BY <1>4
<1> HIDE DEF up, w
<1>6. /\ up[0] = c
      /\ \A k \in 0 .. N : k # 0 => up[k] = Above(up[k - 1])
  BY <1>1, <1>5
<1> DEFINE Bad == {k \in 0 .. N : k # 0 /\ up[k] # r}
<1>7. Bad = {}
  <2> SUFFICES ASSUME Bad # {} PROVE FALSE
    OBVIOUS
  <2>1. PICK k \in Bad : \A j \in Bad : k <= j
    BY LeastExists, Bad \in SUBSET Nat
  <2>2. k \in 0 .. N /\ k # 0 /\ up[k] = Above(up[k - 1]) /\ up[k] # r
    BY <2>1, <1>6
  <2>3. k - 1 \in 0 .. N /\ ~(k <= k - 1)
    BY <2>2, <1>1
  <2>4. up[k - 1] \in {c, r}
    BY <2>1, <2>3, <1>6
  <2> QED BY <2>2, <2>4, <1>3
<1>8. up[N] = r
  BY <1>1, <1>6, <1>7
<1> QED BY <1>2, <1>8

\* What a root above something is.
LEMMA RootsAreRoots ==
    ASSUME NEW s, NEW e, Exporter!RootOf(s, e) # NoID
    PROVE  e \in DOMAIN s.equipment /\ Exporter!RootOf(s, e) \in Exporter!Roots(s)
BY DEF Exporter!RootOf, Exporter!ContainerRootOf, Exporter!NoID, NoID

\* Whose equipment stands in the file of a root, and what its comments lead to.
StandsIn(s, r) ==
    Exporter!EquipmentOf(s, r)
    \cup (IF s.containers[r].type \notin StationTypes THEN {}
          ELSE (UNION {Exporter!EquipmentOf(s, b) : b \in Exporter!Children(s, r, "Bay")})
               \cup UNION {Exporter!EquipmentOf(s, c) :
                      c \in {c \in Exporter!Roots(s) : Exporter!IsFolded(s, c) /\ Exporter!EffRoot(s, c) = r}})
OwnRoots(s) == {r \in Exporter!Roots(s) : ~Exporter!IsFolded(s, r)}
KindsFrom(s, r) == IF s.containers[r].type = "ACLine" THEN RootTypes \ {"ACLine"} ELSE {"ACLine"}

LEMMA SameNames ==
    /\ Exporter!RootTypes = {"Substation", "DistributionBox", "House", "ACLine"}
    /\ RootTypes = {"Substation", "DistributionBox", "House", "ACLine"}
    /\ Exporter!StationTypes = StationTypes /\ Exporter!NoID = NoID /\ Exporter!GND = GND
    /\ Exporter!DirForType = DirForType /\ Exporter!BoundaryDir = BoundaryDir
BY DEF Exporter!RootTypes, RootTypes, Exporter!DirForType, DirForType, Exporter!StationTypes, StationTypes,
       Exporter!NoID, NoID, Exporter!GND, GND, Exporter!BoundaryDir, BoundaryDir

\* A folded cable goes to a station, nothing else goes anywhere.
LEMMA FoldedGoesToStation ==
    ASSUME NEW s, NEW c \in Exporter!Roots(s)
    PROVE  /\ Exporter!IsFolded(s, c) =>
                /\ s.containers[c].type = "ACLine"
                /\ Exporter!EffRoot(s, c) \in OwnRoots(s)
                /\ s.containers[Exporter!EffRoot(s, c)].type \in StationTypes
           /\ ~Exporter!IsFolded(s, c) => Exporter!EffRoot(s, c) = c /\ c \in OwnRoots(s)
<1>1. ASSUME Exporter!IsFolded(s, c)
      PROVE  /\ s.containers[c].type = "ACLine"
             /\ Exporter!EffRoot(s, c) \in OwnRoots(s)
             /\ s.containers[Exporter!EffRoot(s, c)].type \in StationTypes
  <2>1. s.containers[c].type = "ACLine"
    BY <1>1 DEF Exporter!IsFolded
  <2>2. PICK r \in Exporter!Hosts(s, c) :
          Exporter!Hosts(s, c) = {r} /\ r # NoID /\ s.containers[r].type \in StationTypes
    BY <1>1, SameNames DEF Exporter!IsFolded
  <2>3. (CHOOSE h \in Exporter!Hosts(s, c) : TRUE) = r
    BY <2>2
  <2>4. Exporter!EffRoot(s, c) = r
    BY <1>1, <2>3 DEF Exporter!EffRoot
  <2>5. PICK e : r = Exporter!RootOf(s, e)
    BY <2>2 DEF Exporter!Hosts
  <2>6. r \in Exporter!Roots(s)
    BY <2>2, <2>5, RootsAreRoots, SameNames
  <2>7. ~Exporter!IsFolded(s, r)
    BY <2>2 DEF Exporter!IsFolded, StationTypes
  <2> QED BY <2>1, <2>2, <2>4, <2>6, <2>7 DEF OwnRoots
<1>2. ~Exporter!IsFolded(s, c) => Exporter!EffRoot(s, c) = c /\ c \in OwnRoots(s)
  BY DEF Exporter!EffRoot, OwnRoots
<1> QED BY <1>1, <1>2

\* Equipment with an edge stands in the one file its root goes to.
LEMMA StandsInItsFile ==
    ASSUME NEW s, Exportable(s), NEW r \in OwnRoots(s), NEW e
    PROVE  /\ e \in StandsIn(s, r) =>
                 Exporter!RootOf(s, e) # NoID /\ Exporter!EffRoot(s, Exporter!RootOf(s, e)) = r
           /\ e \in DOMAIN s.edges /\ Exporter!RootOf(s, e) # NoID
              /\ Exporter!EffRoot(s, Exporter!RootOf(s, e)) = r => e \in StandsIn(s, r)
<1>0. /\ IsFiniteSet(DOMAIN s.containers) /\ Exporter!Roots(s) \subseteq DOMAIN s.containers
      /\ r \in Exporter!Roots(s) /\ ~Exporter!IsFolded(s, r)
      /\ \A c \in Exporter!Roots(s) : c # NoID
      /\ \A c \in DOMAIN s.containers :
            s.containers[c] = [type |-> s.containers[c].type, parent |-> s.containers[c].parent]
  BY DEF Exportable, OwnRoots, Exporter!Roots
<1>1. ASSUME NEW c \in Exporter!Roots(s), e \in Exporter!EquipmentOf(s, c)
      PROVE  Exporter!RootOf(s, e) = c
  BY <1>0, <1>1, RootAbove DEF Exporter!EquipmentOf, Exporter!RootOf
<1>2. \A c \in DOMAIN s.containers : s.containers[c].type = "Bay" => c \notin Exporter!Roots(s)
  BY SameNames DEF Exporter!Roots
<1>3. ASSUME NEW c \in DOMAIN s.containers, s.containers[c].type = "Bay",
             s.containers[c].parent \in Exporter!Roots(s), e \in DOMAIN s.equipment, s.equipment[e] = c
      PROVE  Exporter!RootOf(s, e) = s.containers[c].parent
  BY <1>0, <1>2, <1>3, RootAbove DEF Exporter!RootOf
<1>4. ASSUME e \in StandsIn(s, r)
      PROVE  Exporter!RootOf(s, e) # NoID /\ Exporter!EffRoot(s, Exporter!RootOf(s, e)) = r
  <2>1. CASE e \in Exporter!EquipmentOf(s, r)
    BY <1>0, <1>1, <2>1, FoldedGoesToStation
  <2>2. CASE \E b \in Exporter!Children(s, r, "Bay") : e \in Exporter!EquipmentOf(s, b)
    <3>1. PICK b \in Exporter!Children(s, r, "Bay") : e \in Exporter!EquipmentOf(s, b)
      BY <2>2
    <3>2. /\ b \in DOMAIN s.containers /\ s.containers[b].type = "Bay" /\ s.containers[b].parent = r
          /\ e \in DOMAIN s.equipment /\ s.equipment[e] = b
      BY <3>1 DEF Exporter!Children, Exporter!EquipmentOf
    <3> QED BY <1>0, <1>3, <3>2, FoldedGoesToStation
  <2>3. CASE \E c \in Exporter!Roots(s) : Exporter!EffRoot(s, c) = r /\ e \in Exporter!EquipmentOf(s, c)
    BY <1>0, <1>1, <2>3
  <2> QED BY <1>4, <2>1, <2>2, <2>3 DEF StandsIn
<1>5. ASSUME e \in DOMAIN s.edges, Exporter!RootOf(s, e) # NoID,
             Exporter!EffRoot(s, Exporter!RootOf(s, e)) = r
      PROVE  e \in StandsIn(s, r)
  <2>1. e \in DOMAIN s.equipment /\ InItsRoot(s, e)
    BY <1>5, RootsAreRoots DEF Exportable
  <2> DEFINE c == s.equipment[e]
  <2>2. e \in Exporter!EquipmentOf(s, c)
    BY <2>1 DEF Exporter!EquipmentOf
  <2>3. CASE c \in Exporter!Roots(s)
    <3>1. Exporter!RootOf(s, e) = c
      BY <1>1, <2>2, <2>3
    <3>2. CASE Exporter!IsFolded(s, c)
      BY <1>5, <2>2, <2>3, <3>1, <3>2, FoldedGoesToStation DEF StandsIn
    <3>3. CASE ~Exporter!IsFolded(s, c)
      BY <1>5, <2>2, <2>3, <3>1, <3>3, FoldedGoesToStation DEF StandsIn
    <3> QED BY <3>2, <3>3
  <2>4. CASE c \notin Exporter!Roots(s)
    <3>1. /\ c \in DOMAIN s.containers /\ s.containers[c].type = "Bay"
          /\ s.containers[c].parent \in Exporter!Roots(s)
          /\ s.containers[s.containers[c].parent].type \in StationTypes
      BY <2>1, <2>4 DEF InItsRoot
    <3>2. Exporter!RootOf(s, e) = s.containers[c].parent
      BY <1>3, <2>1, <3>1
    <3>3. s.containers[c].parent = r
      BY <1>5, <3>1, <3>2, FoldedGoesToStation DEF StationTypes
    <3>4. c \in Exporter!Children(s, r, "Bay")
      BY <1>0, <3>1, <3>3 DEF Exporter!Children
    <3> QED BY <2>2, <3>1, <3>3, <3>4 DEF StandsIn
  <2> QED BY <2>3, <2>4
<1> QED BY <1>4, <1>5

\* The comments of an entry are at the nodes its edge ends at, and at all of them.
LEMMA EquipmentTouches ==
    ASSUME NEW s, NEW e, NEW root, NEW from, NEW kinds,
           e \in DOMAIN s.edges => IsList(s.edges[e]) /\ Len(s.edges[e]) = 2
    PROVE  LET cs == Range(Exporter!EquipmentEntry(s, root, e, from, kinds).connects)
           IN  /\ \A c \in cs : \E n \in Exporter!Ends(s, e) \cup {NoID, GND} :
                      c = Exporter!Connect(s, root, n, from, kinds)
               /\ \A n \in Exporter!Ends(s, e) : Exporter!Connect(s, root, n, from, kinds) \in cs
<1> DEFINE edge == Exporter!At(s.edges, e, <<>>)
           wired == IF Len(edge) = 2 /\ edge[2] = Exporter!GND THEN <<edge[1]>> ELSE edge
           C(n) == Exporter!Connect(s, root, n, from, kinds)
           connects == [i \in DOMAIN wired |-> C(wired[i])]
<1>1. Exporter!EquipmentEntry(s, root, e, from, kinds).connects = connects
  BY DEF Exporter!EquipmentEntry
<1>2. Exporter!Ends(s, e) = Exporter!Range(edge) \ {NoID, GND}
  BY SameNames DEF Exporter!Ends
<1>3. edge = <<>> \/ (edge \in Seq(Range(edge)) /\ Len(edge) = 2)
  BY DEF Exporter!At, IsList
<1> HIDE DEF edge, C
<1>4. /\ DOMAIN wired \subseteq DOMAIN edge
      /\ \A i \in DOMAIN wired : wired[i] = edge[i]
      /\ \A i \in DOMAIN edge : i \in DOMAIN wired \/ edge[i] = GND
  <2>1. CASE edge = <<>>
    BY <2>1
  <2>2. CASE edge # <<>>
    <3>1. DOMAIN edge = {1, 2} /\ edge \in Seq(Range(edge)) /\ Len(edge) = 2
      BY <1>3, <2>2
    <3>2. CASE edge[2] = GND
      <4>1. wired = <<edge[1]>>
        BY <3>1, <3>2, SameNames
      <4>2. DOMAIN wired = {1} /\ wired[1] = edge[1]
        BY <4>1
      <4> QED BY <3>1, <3>2, <4>2
    <3>3. CASE edge[2] # GND
      <4>1. wired = edge
        BY <3>3, SameNames
      <4> QED BY <4>1
    <3> QED BY <3>2, <3>3
  <2> QED BY <2>1, <2>2
<1> HIDE DEF wired
<1>5. ASSUME NEW c \in Range(connects)
      PROVE  \E n \in Exporter!Ends(s, e) \cup {NoID, GND} : c = C(n)
  <2>1. PICK i \in DOMAIN wired : c = C(wired[i])
    BY DEF Range
  <2>2. edge[i] \in Exporter!Range(edge) /\ wired[i] = edge[i]
    BY <1>4, <2>1 DEF Exporter!Range
  <2> QED BY <1>2, <2>1, <2>2
<1>6. ASSUME NEW n \in Exporter!Ends(s, e) PROVE C(n) \in Range(connects)
  <2>1. PICK i \in DOMAIN edge : n = edge[i]
    BY <1>2 DEF Exporter!Range
  <2>2. i \in DOMAIN wired /\ wired[i] = n
    BY <1>2, <1>4, <2>1
  <2> QED BY <2>2 DEF Range
<1> HIDE DEF connects
<1> QED BY <1>1, <1>5, <1>6 DEF C

LEMMA SegmentTouches ==
    ASSUME NEW s, NEW e, NEW root, NEW from, NEW kinds,
           e \in DOMAIN s.edges => IsList(s.edges[e]) /\ Len(s.edges[e]) = 2
    PROVE  LET cs == Range(Exporter!SegmentEntry(s, root, e, from, kinds).connects)
           IN  /\ \A c \in cs : \E n \in Exporter!Ends(s, e) \cup {NoID, GND} :
                      c = Exporter!Connect(s, root, n, from, kinds)
               /\ \A n \in Exporter!Ends(s, e) : Exporter!Connect(s, root, n, from, kinds) \in cs
<1> DEFINE edge == Exporter!At(s.edges, e, <<Exporter!NoID, Exporter!NoID>>)
           C(n) == Exporter!Connect(s, root, n, from, kinds)
           connects == [i \in 1 .. 2 |-> C(edge[i])]
<1>1. Exporter!SegmentEntry(s, root, e, from, kinds).connects = connects
  BY DEF Exporter!SegmentEntry
<1>2. CASE e \in DOMAIN s.edges
  <2>1. edge = s.edges[e] /\ DOMAIN edge = {1, 2}
    BY <1>2 DEF Exporter!At, IsList
  <2>2. Exporter!Ends(s, e) = {edge[1], edge[2]} \ {NoID, GND}
    BY <1>2, <2>1, SameNames DEF Exporter!Ends, Exporter!At, Exporter!Range
  <2>3. Range(connects) = {C(edge[1]), C(edge[2])}
    <3> HIDE DEF edge, C
    <3> QED BY DEF Range
  <2> HIDE DEF edge, connects
  <2> QED BY <1>1, <2>2, <2>3
<1>3. CASE e \notin DOMAIN s.edges
  <2>1. edge = <<NoID, NoID>> /\ Exporter!Ends(s, e) = {}
    BY <1>3, SameNames DEF Exporter!Ends, Exporter!At, Exporter!Range
  <2>2. edge[1] = NoID /\ edge[2] = NoID
    BY <2>1
  <2>3. Range(connects) = {C(NoID)}
    <3> HIDE DEF edge, C
    <3> QED BY <2>2 DEF Range
  <2> HIDE DEF edge, connects
  <2> QED BY <1>1, <2>1, <2>3
<1> QED BY <1>2, <1>3

\* The parts of a file that have comments.
EntriesIn(s, r, c) ==
    {Exporter!EquipmentEntry(s, r, e, Exporter!FileOf(s, r).dir, {"ACLine"}) : e \in Exporter!EquipmentOf(s, c)}
SegmentsOf(s, r, E) ==
    {Exporter!SegmentEntry(s, r, e, Exporter!FileOf(s, r).dir, KindsFrom(s, r)) : e \in E}
FoldedInto(s, r) ==
    {c \in Exporter!Roots(s) : Exporter!IsFolded(s, c) /\ Exporter!EffRoot(s, c) = r}

LEMMA PartsOfDocument ==
    ASSUME NEW s, NEW r \in Exporter!Roots(s)
    PROVE  LET doc == Exporter!Document(s, r)
               type == s.containers[r].type
           IN  /\ type \in StationTypes =>
                    /\ doc.equipments = EntriesIn(s, r, r)
                    /\ doc.bays = {[id |-> Exporter!Shorten(r, b),
                                    attributes |-> Exporter!Written(Exporter!Attributes(s, b, {})),
                                    equipments |-> EntriesIn(s, r, b)] : b \in Exporter!Children(s, r, "Bay")}
                    /\ doc.segments = SegmentsOf(s, r, UNION {Exporter!EquipmentOf(s, c) : c \in FoldedInto(s, r)})
               /\ type = "House" => doc.equipments = EntriesIn(s, r, r) /\ doc.bays = {} /\ doc.segments = {}
               /\ type = "ACLine" =>
                    /\ doc.equipments = {} /\ doc.bays = {}
                    /\ doc.segments = SegmentsOf(s, r, Exporter!EquipmentOf(s, r))
<1> DEFINE type == s.containers[r].type
           from == Exporter!FileOf(s, r).dir
           doc == Exporter!Document(s, r)
<1>1. CASE type \in StationTypes
  <2>1. type # "ACLine" /\ type # "House" /\ type \in Exporter!StationTypes
    BY <1>1, SameNames DEF StationTypes
  <2>2. KindsFrom(s, r) = {"ACLine"}
    BY <2>1 DEF KindsFrom
  <2> DEFINE file == Exporter!StationFile(s, r, from)
  <2>3. /\ file.equipments = EntriesIn(s, r, r)
        /\ file.bays = {[id |-> Exporter!Shorten(r, b),
                         attributes |-> Exporter!Written(Exporter!Attributes(s, b, {})),
                         equipments |-> EntriesIn(s, r, b)] : b \in Exporter!Children(s, r, "Bay")}
        /\ file.segments = SegmentsOf(s, r, UNION {Exporter!EquipmentOf(s, c) : c \in FoldedInto(s, r)})
    BY <2>2 DEF Exporter!StationFile, Exporter!Empty, EntriesIn, SegmentsOf, FoldedInto
  <2>4. doc.equipments = file.equipments /\ doc.bays = file.bays /\ doc.segments = file.segments
    <3>1. doc = [file EXCEPT !.attributes = Exporter!Written(Exporter!Attributes(s, r, {})),
                             !.geometry = Exporter!OwnerPoint(s, r)]
      BY <2>1 DEF Exporter!Document
    <3> HIDE DEF doc, file
    <3> QED BY <3>1
  <2> HIDE DEF file, doc
  <2> QED BY <1>1, <2>1, <2>3, <2>4 DEF doc
<1>2. CASE type = "House"
  <2>1. type # "ACLine" /\ type \notin StationTypes /\ type \notin Exporter!StationTypes
    BY <1>2, SameNames DEF StationTypes
  <2> DEFINE file == [Exporter!Empty EXCEPT !.equipments = EntriesIn(s, r, r)]
  <2>2. file.equipments = EntriesIn(s, r, r) /\ file.bays = {} /\ file.segments = {}
    BY DEF Exporter!Empty
  <2>3. doc = [file EXCEPT !.attributes = Exporter!Written(Exporter!Attributes(s, r, {})),
                           !.geometry = Exporter!OwnerPoint(s, r)]
    BY <1>2, <2>1 DEF Exporter!Document, EntriesIn
  <2> HIDE DEF doc, file
  <2>4. doc.equipments = file.equipments /\ doc.bays = file.bays /\ doc.segments = file.segments
    BY <2>3
  <2> QED BY <1>2, <2>1, <2>2, <2>4 DEF doc
<1>3. CASE type = "ACLine"
  <2>1. type # "House" /\ type \notin StationTypes /\ type \notin Exporter!StationTypes
    BY <1>3, SameNames DEF StationTypes
  <2>2. KindsFrom(s, r) = Exporter!RootTypes \ {"ACLine"}
    BY <1>3, SameNames DEF KindsFrom
  <2> DEFINE file == [Exporter!Empty EXCEPT !.segments = SegmentsOf(s, r, Exporter!EquipmentOf(s, r))]
  <2>3. /\ file.segments = SegmentsOf(s, r, Exporter!EquipmentOf(s, r))
        /\ file.bays = {} /\ file.equipments = {}
    BY DEF Exporter!Empty
  <2>4. doc = [file EXCEPT !.attributes = Exporter!Written(Exporter!Attributes(s, r, {})),
                           !.geometry = Exporter!OwnerPoint(s, r)]
    BY <1>3, <2>1, <2>2 DEF Exporter!Document, SegmentsOf
  <2> HIDE DEF doc, file
  <2>5. doc.equipments = file.equipments /\ doc.bays = file.bays /\ doc.segments = file.segments
    BY <2>4
  <2> QED BY <1>3, <2>1, <2>3, <2>5 DEF doc
<1>4. type \in StationTypes \cup {"House", "ACLine"}
  BY SameNames DEF Exporter!Roots, StationTypes
<1> QED BY <1>1, <1>2, <1>3, <1>4

\* The comments of a file are at the nodes of the equipment that stands in it.
LEMMA DocumentTouches ==
    ASSUME NEW s, Exportable(s), NEW r \in Exporter!Roots(s)
    PROVE  LET dir == Exporter!FileOf(s, r).dir
               cs == Connects(Exporter!Document(s, r))
           IN  /\ \A c \in cs : \E e \in StandsIn(s, r) : \E n \in Exporter!Ends(s, e) \cup {NoID, GND} :
                      c = Exporter!Connect(s, r, n, dir, KindsFrom(s, r))
               /\ \A e \in StandsIn(s, r) : \A n \in Exporter!Ends(s, e) :
                      Exporter!Connect(s, r, n, dir, KindsFrom(s, r)) \in cs
<1> DEFINE type == s.containers[r].type
           dir == Exporter!FileOf(s, r).dir
           doc == Exporter!Document(s, r)
           cs == Connects(doc)
           C(n) == Exporter!Connect(s, r, n, dir, KindsFrom(s, r))
           entries == EquipmentOfFile(doc) \cup doc.segments
           Touches(q, e) ==
               /\ \A c \in Range(q.connects) : \E n \in Exporter!Ends(s, e) \cup {NoID, GND} : c = C(n)
               /\ \A n \in Exporter!Ends(s, e) : C(n) \in Range(q.connects)
<1>0. \A e \in DOMAIN s.edges : IsList(s.edges[e]) /\ Len(s.edges[e]) = 2
  BY DEF Exportable
<1>1. ASSUME NEW e, type # "ACLine"
      PROVE  Touches(Exporter!EquipmentEntry(s, r, e, dir, {"ACLine"}), e)
  <2>1. KindsFrom(s, r) = {"ACLine"}
    BY <1>1 DEF KindsFrom
  <2>2. Touches(Exporter!EquipmentEntry(s, r, e, dir, KindsFrom(s, r)), e)
    BY <1>0, EquipmentTouches
  <2> HIDE DEF Touches
  <2> QED BY <2>1, <2>2
<1>2. ASSUME NEW e PROVE Touches(Exporter!SegmentEntry(s, r, e, dir, KindsFrom(s, r)), e)
  BY <1>0, SegmentTouches
<1>3. cs = UNION {Range(q.connects) : q \in entries}
  BY DEF Connects
<1>4. /\ \A q \in entries : \E e \in StandsIn(s, r) : Touches(q, e)
      /\ \A e \in StandsIn(s, r) : \E q \in entries : Touches(q, e)
  <2> HIDE DEF Touches, dir, doc
  <2>1. CASE type \in StationTypes
    <3> DEFINE bays == Exporter!Children(s, r, "Bay")
               folded == UNION {Exporter!EquipmentOf(s, c) : c \in FoldedInto(s, r)}
    <3>1. type # "ACLine"
      BY <2>1 DEF StationTypes
    <3>2. /\ doc.equipments = EntriesIn(s, r, r)
          /\ doc.bays = {[id |-> Exporter!Shorten(r, b),
                          attributes |-> Exporter!Written(Exporter!Attributes(s, b, {})),
                          equipments |-> EntriesIn(s, r, b)] : b \in bays}
          /\ doc.segments = SegmentsOf(s, r, folded)
      BY <2>1, PartsOfDocument DEF doc
    <3>3. BayEquipment(doc) = UNION {EntriesIn(s, r, b) : b \in bays}
      <4> DEFINE Bay(b) == [id |-> Exporter!Shorten(r, b),
                            attributes |-> Exporter!Written(Exporter!Attributes(s, b, {})),
                            equipments |-> EntriesIn(s, r, b)]
      <4>1. doc.bays = {Bay(b) : b \in bays} /\ \A b : Bay(b).equipments = EntriesIn(s, r, b)
        BY <3>2
      <4> HIDE DEF Bay, bays
      <4> QED BY <4>1 DEF BayEquipment
    <3>4. StandsIn(s, r) = Exporter!EquipmentOf(s, r)
                           \cup (UNION {Exporter!EquipmentOf(s, b) : b \in bays}) \cup folded
      BY <2>1 DEF StandsIn, FoldedInto
    <3> HIDE DEF folded, bays
    <3>5. entries = EntriesIn(s, r, r) \cup (UNION {EntriesIn(s, r, b) : b \in bays}) \cup SegmentsOf(s, r, folded)
      BY <3>2, <3>3 DEF EquipmentOfFile
    <3>6. \A c : /\ \A q \in EntriesIn(s, r, c) : \E e \in Exporter!EquipmentOf(s, c) : Touches(q, e)
                 /\ \A e \in Exporter!EquipmentOf(s, c) : \E q \in EntriesIn(s, r, c) : Touches(q, e)
      BY <1>1, <3>1 DEF EntriesIn, dir
    <3>7. /\ \A q \in SegmentsOf(s, r, folded) : \E e \in folded : Touches(q, e)
          /\ \A e \in folded : \E q \in SegmentsOf(s, r, folded) : Touches(q, e)
      BY <1>2 DEF SegmentsOf, dir
    <3> HIDE DEF entries
    <3> QED BY <3>4, <3>5, <3>6, <3>7
  <2>2. CASE type = "House"
    <3>1. doc.equipments = EntriesIn(s, r, r) /\ doc.bays = {} /\ doc.segments = {}
      BY <2>2, PartsOfDocument DEF doc
    <3>2. entries = EntriesIn(s, r, r)
      BY <3>1 DEF EquipmentOfFile, BayEquipment
    <3>3. StandsIn(s, r) = Exporter!EquipmentOf(s, r)
      BY <2>2 DEF StandsIn, StationTypes
    <3> QED BY <2>2, <1>1, <3>2, <3>3 DEF EntriesIn, dir
  <2>3. CASE type = "ACLine"
    <3>1. doc.equipments = {} /\ doc.bays = {} /\ doc.segments = SegmentsOf(s, r, Exporter!EquipmentOf(s, r))
      BY <2>3, PartsOfDocument DEF doc
    <3>2. entries = SegmentsOf(s, r, Exporter!EquipmentOf(s, r))
      BY <3>1 DEF EquipmentOfFile, BayEquipment
    <3>3. StandsIn(s, r) = Exporter!EquipmentOf(s, r)
      BY <2>3 DEF StandsIn, StationTypes
    <3> QED BY <1>2, <3>2, <3>3 DEF SegmentsOf, dir
  <2>4. type \in StationTypes \cup {"House", "ACLine"}
    BY SameNames DEF Exporter!Roots, StationTypes
  <2> QED BY <2>1, <2>2, <2>3, <2>4
<1>5. ASSUME NEW c \in cs
      PROVE  \E e \in StandsIn(s, r) : \E n \in Exporter!Ends(s, e) \cup {NoID, GND} : c = C(n)
  <2>1. PICK q \in entries : c \in Range(q.connects)
    BY <1>3
  <2> QED BY <1>4, <2>1
<1>6. ASSUME NEW e \in StandsIn(s, r), NEW n \in Exporter!Ends(s, e) PROVE C(n) \in cs
  <2>1. PICK q \in entries : Touches(q, e)
    BY <1>4
  <2>2. C(n) \in Range(q.connects)
    BY <2>1
  <2> QED BY <1>3, <2>2
<1> QED BY <1>5, <1>6

\* The place of a root's file tells the root.
LEMMA PlaceOfFile ==
    ASSUME NEW s, Exportable(s), NEW r \in Exporter!Roots(s)
    PROVE  LET f == Exporter!FileOf(s, r)
           IN  /\ f = [dir |-> f.dir, id |-> f.id] /\ IsList(f.dir)
               /\ DirOf(f) = DirForType[s.containers[r].type]
               /\ s.containers[r].type = "ACLine" => r = <<"acline:">> \o f.id
               /\ s.containers[r].type # "ACLine" => r = f.id
<1> DEFINE type == s.containers[r].type
           f == Exporter!FileOf(s, r)
           path == Exporter!RegionPath(s, r)
           last == DirForType[type]
<1>1. r # NoID /\ IsList(r) /\ IsList(path) /\ (type = "ACLine" => r[1] = "acline:")
  BY DEF Exportable
<1>2. f = [dir |-> Append(path, last),
           id |-> IF type = "ACLine" /\ r[1] = "acline:" THEN Tail(r) ELSE r]
  BY SameNames DEF Exporter!FileOf
<1> HIDE DEF path, last, f, type
<1>3. f = [dir |-> f.dir, id |-> f.id] /\ f.dir = Append(path, last)
      /\ f.id = IF type = "ACLine" /\ r[1] = "acline:" THEN Tail(r) ELSE r
  BY <1>2
<1>4. IsList(f.dir) /\ DirOf(f) = last
  <2> DEFINE V == Range(path) \cup {last}
  <2>1. path \in Seq(Range(path))
    BY <1>1 DEF IsList
  <2>2. path \in Seq(V) /\ last \in V
    BY <2>1
  <2> HIDE DEF V
  <2>3. /\ Append(path, last) \in Seq(V) /\ Len(Append(path, last)) = Len(path) + 1
        /\ Append(path, last)[Len(path) + 1] = last
    BY <2>2
  <2>4. f.dir \in Seq(Range(f.dir))
    <3>1. \A i \in 1 .. Len(f.dir) : f.dir[i] \in Range(f.dir)
      BY <1>3, <2>3 DEF Range
    <3> QED BY <1>3, <2>3, <3>1
  <2> QED BY <1>3, <2>3, <2>4 DEF IsList, DirOf
<1>5. type = "ACLine" => r = <<"acline:">> \o Tail(r)
  <2> SUFFICES ASSUME type = "ACLine" PROVE r = <<"acline:">> \o Tail(r)
    OBVIOUS
  <2>1. r \in Seq(Range(r)) /\ r # <<>> /\ r[1] = "acline:"
    BY <1>1 DEF IsList, NoID
  <2>2. Len(r) \in Nat /\ 1 \in 0 .. Len(r) /\ SubSeq(r, 1, 1) = <<r[1]>>
    <3>1. Len(r) \in Nat /\ Len(r) # 0
      BY <2>1
    <3> DEFINE one == SubSeq(r, 1, 1)
    <3>2. one \in Seq(Range(r)) /\ Len(one) = 1 /\ one[1] = r[1]
      BY <2>1, <3>1
    <3> HIDE DEF one
    <3>3. one = <<r[1]>>
      BY <3>2
    <3>4. 1 \in 0 .. Len(r)
      BY <3>1
    <3> QED BY <3>1, <3>3, <3>4 DEF one
  <2>3. Tail(r) = SubSeq(r, 2, Len(r))
    BY <2>1, TailIsSubSeq
  <2>4. SubSeq(r, 1, 1) \o SubSeq(r, 1 + 1, Len(r)) = r
    BY <1>1, <2>2, CutIsJoined
  <2> QED BY <2>1, <2>2, <2>3, <2>4
<1>6. DirOf(f) = DirForType[type]
  BY <1>4 DEF last
<1> QED BY <1>1, <1>3, <1>4, <1>5, <1>6 DEF f, type

LEMMA DirsApart ==
    /\ \A a, b \in RootTypes : DirForType[a] = DirForType[b] => a = b
    /\ \A a \in RootTypes : DirForType[a] # BoundaryDir /\ (DirForType[a] = "Kabel" <=> a = "ACLine")
BY SameNames DEF DirForType, BoundaryDir

LEMMA FilesApart ==
    ASSUME NEW s, Exportable(s), NEW r \in Exporter!Roots(s), NEW q \in Exporter!Roots(s),
           Exporter!FileOf(s, r) = Exporter!FileOf(s, q)
    PROVE  r = q
<1>1. s.containers[r].type \in RootTypes /\ s.containers[q].type \in RootTypes
  BY SameNames DEF Exporter!Roots
<1>2. s.containers[r].type = s.containers[q].type
  BY <1>1, PlaceOfFile, DirsApart
<1> DEFINE f == Exporter!FileOf(s, r)  cable == s.containers[r].type = "ACLine"
<1>3. (cable => r = <<"acline:">> \o f.id) /\ (~cable => r = f.id)
  BY PlaceOfFile
<1>4. (cable => q = <<"acline:">> \o f.id) /\ (~cable => q = f.id)
  BY <1>2, PlaceOfFile
<1> QED BY <1>3, <1>4

\* The files that are no boundary files are those of the roots that are not folded.
LEMMA FilesOfBuild ==
    ASSUME NEW s, Exportable(s)
    PROVE  /\ \A r \in OwnRoots(s) :
                 /\ Exporter!FileOf(s, r) \in DOMAIN Exporter!Build(s)
                 /\ Exporter!Build(s)[Exporter!FileOf(s, r)] = Exporter!Document(s, r)
           /\ \A p \in DOMAIN Exporter!Build(s) :
                 DirOf(p) # BoundaryDir => \E r \in OwnRoots(s) : p = Exporter!FileOf(s, r)
<1> DEFINE own == {r \in Exporter!Roots(s) : ~Exporter!IsFolded(s, r)}
           Owner(path) == CHOOSE r \in own : Exporter!FileOf(s, r) = path
           boundary == {Exporter!BoundaryPath(s, e) : e \in Exporter!Orphans(s)}
           places == {Exporter!FileOf(s, r) : r \in own}
           f == [path \in places |-> Exporter!Document(s, Owner(path))]
           g == [path \in boundary |-> Exporter!BoundaryFile(s, path)]
<1>1. Exporter!Build(s) = [x \in places \cup boundary |-> IF x \in places THEN f[x] ELSE g[x]]
  BY DEF Exporter!Build, Exporter!Over
<1>2. own = OwnRoots(s) /\ own \subseteq Exporter!Roots(s)
  BY DEF OwnRoots
<1>3. ASSUME NEW r \in own PROVE Owner(Exporter!FileOf(s, r)) = r
  BY <1>2, FilesApart
<1>4. ASSUME NEW p \in boundary PROVE DirOf(p) = BoundaryDir
  <2>1. PICK e \in Exporter!Orphans(s) : p = Exporter!BoundaryPath(s, e)
    OBVIOUS
  <2> DEFINE path == Exporter!RegionPath(s, e)
             V == Range(path) \cup {BoundaryDir}
  <2>2. p.dir = Append(path, BoundaryDir)
    BY <2>1, SameNames DEF Exporter!BoundaryPath
  <2>3. path \in Seq(Range(path))
    BY DEF Exportable, IsList
  <2>4. path \in Seq(V) /\ BoundaryDir \in V
    BY <2>3
  <2> HIDE DEF V, path
  <2>5. Len(Append(path, BoundaryDir)) = Len(path) + 1 /\ Append(path, BoundaryDir)[Len(path) + 1] = BoundaryDir
    BY <2>4
  <2> QED BY <2>2, <2>5 DEF DirOf
<1> HIDE DEF Owner, boundary
<1>5. ASSUME NEW r \in own
      PROVE  /\ Exporter!FileOf(s, r) \in DOMAIN Exporter!Build(s)
             /\ Exporter!Build(s)[Exporter!FileOf(s, r)] = Exporter!Document(s, r)
  BY <1>1, <1>3
<1>6. ASSUME NEW p \in DOMAIN Exporter!Build(s), DirOf(p) # BoundaryDir
      PROVE  \E r \in own : p = Exporter!FileOf(s, r)
  BY <1>1, <1>4, <1>6
<1> QED BY <1>2, <1>5, <1>6

\* A node's name in the file of a root is resolved to the node.
LEMMA NodeIsResolved ==
    ASSUME NEW s, Exportable(s), NEW r \in Exporter!Roots(s), NEW n,
           n \in {NoID, GND} \/ (IsList(n) /\ n[1] \notin {"@", "acline:"})
    PROVE  ResolveID(Exporter!FileOf(s, r).id, Exporter!Shorten(r, n)) = n
<1> DEFINE id == Exporter!FileOf(s, r).id
<1>1. r # NoID /\ IsList(r) /\ (s.containers[r].type = "ACLine" => r[1] = "acline:")
  BY DEF Exportable
<1>2. CASE s.containers[r].type # "ACLine"
  <2>1. id = r
    BY <1>2, PlaceOfFile
  <2> HIDE DEF id
  <2>2. ResolveID(r, Exporter!Shorten(r, n)) = n
    BY <1>1, NameIsUndone
  <2> QED BY <2>1, <2>2 DEF id
<1>3. CASE s.containers[r].type = "ACLine"
  <2>1. Exporter!Shorten(r, n) = n
    <3> SUFFICES ASSUME n # GND, Len(n) > Len(r), SubSeq(n, 1, Len(r)) = r PROVE FALSE
      BY SameNames DEF Exporter!Shorten
    <3>1. r \in Seq(Range(r)) /\ Len(r) \in Nat /\ Len(r) >= 1 /\ r[1] = "acline:"
      <4>1. r \in Seq(Range(r)) /\ r # <<>>
        BY <1>1 DEF IsList, NoID
      <4> QED BY <1>1, <1>3, <4>1
    <3>2. n # NoID
      BY <3>1 DEF NoID
    <3>3. n \in Seq(Range(n)) /\ Len(n) \in Nat /\ n[1] # "acline:"
      BY <3>2 DEF IsList
    <3>4. SubSeq(n, 1, Len(r))[1] = n[1]
      BY <3>1, <3>3
    <3> QED BY <3>1, <3>3, <3>4
  <2>2. n = NoID \/ n[1] # "@"
    BY DEF NoID, GND
  <2> QED BY <2>1, <2>2 DEF ResolveID
<1> QED BY <1>2, <1>3

\* The comments of a root's file name the nodes where its equipment ends.
LEMMA NodesOfFile ==
    ASSUME NEW s, Exportable(s), NEW r \in OwnRoots(s)
    PROVE  LET p == Exporter!FileOf(s, r)
               files == Exporter!Build(s)
           IN  /\ NodesAt(files, p) = UNION {Exporter!Ends(s, e) : e \in StandsIn(s, r)}
               /\ \A c \in Connects(files[p]) : \E n :
                     /\ c = Exporter!Connect(s, r, n, p.dir, KindsFrom(s, r))
                     /\ ResolveID(p.id, c.node) = n
<1> DEFINE p == Exporter!FileOf(s, r)
           cs == Connects(Exporter!Build(s)[p])
           C(n) == Exporter!Connect(s, r, n, p.dir, KindsFrom(s, r))
           Nodes(e) == Exporter!Ends(s, e)
<1>1. r \in Exporter!Roots(s) /\ Exporter!Build(s)[p] = Exporter!Document(s, r)
  BY FilesOfBuild DEF OwnRoots
<1>2. /\ \A c \in cs : \E e \in StandsIn(s, r) : \E n \in Nodes(e) \cup {NoID, GND} : c = C(n)
      /\ \A e \in StandsIn(s, r) : \A n \in Nodes(e) : C(n) \in cs
  BY <1>1, DocumentTouches
<1>3. ASSUME NEW e, NEW n \in Nodes(e) PROVE n \notin {NoID, GND} /\ IsList(n) /\ n[1] \notin {"@", "acline:"}
  <2>1. n \notin {NoID, GND}
    BY SameNames DEF Exporter!Ends
  <2>2. e \in DOMAIN s.edges
    <3> SUFFICES ASSUME e \notin DOMAIN s.edges PROVE FALSE
      OBVIOUS
    <3>1. Exporter!At(s.edges, e, <<>>) = <<>>
      BY DEF Exporter!At
    <3> QED BY <3>1 DEF Exporter!Ends, Exporter!Range
  <2> QED BY <2>1, <2>2 DEF Exportable
<1>4. ASSUME NEW e, NEW n \in Nodes(e) \cup {NoID, GND} PROVE ResolveID(p.id, C(n).node) = n
  <2>1. n \in {NoID, GND} \/ (IsList(n) /\ n[1] \notin {"@", "acline:"})
    BY <1>3
  <2>2. C(n).node = Exporter!Shorten(r, n)
    BY DEF Exporter!Connect
  <2> HIDE DEF C
  <2>3. ResolveID(p.id, Exporter!Shorten(r, n)) = n
    BY <1>1, <2>1, NodeIsResolved
  <2> QED BY <2>2, <2>3
<1> HIDE DEF C, Nodes, cs, p
<1>5. {ResolveID(p.id, c.node) : c \in cs} \ {NoID, GND} = UNION {Nodes(e) : e \in StandsIn(s, r)}
  BY <1>2, <1>3, <1>4
<1>6. \A c \in cs : \E n : c = C(n) /\ ResolveID(p.id, c.node) = n
  BY <1>2, <1>4
<1>7. NodesAt(Exporter!Build(s), p) = {ResolveID(p.id, c.node) : c \in cs} \ {NoID, GND}
  BY DEF NodesAt, cs
<1> QED BY <1>5, <1>6, <1>7 DEF p, cs, C, Nodes

\* The files of the other kind that a node is mentioned in.
LEMMA FilesAtNode ==
    ASSUME NEW s, Exportable(s), NEW r \in OwnRoots(s), NEW n
    PROVE  Exporter!FilesAt(s, n, KindsFrom(s, r)) = Across(Exporter!Build(s), Exporter!FileOf(s, r), n)
<1> DEFINE files == Exporter!Build(s)
           p == Exporter!FileOf(s, r)
           F == Exporter!FilesAt(s, n, KindsFrom(s, r))
           Type(q) == s.containers[q].type
<1>1. ASSUME NEW q \in Exporter!Roots(s)
      PROVE  /\ DirOf(Exporter!FileOf(s, q)) # BoundaryDir
             /\ DirOf(Exporter!FileOf(s, q)) = "Kabel" <=> Type(q) = "ACLine"
             /\ Type(q) \in RootTypes
  <2>1. Type(q) \in RootTypes
    BY SameNames DEF Exporter!Roots
  <2>2. DirOf(Exporter!FileOf(s, q)) = DirForType[Type(q)]
    BY PlaceOfFile
  <2> QED BY <2>1, <2>2, DirsApart
<1>2. r \in Exporter!Roots(s) /\ OwnRoots(s) \subseteq Exporter!Roots(s)
  BY DEF OwnRoots
<1>3. ASSUME NEW q \in Exporter!Roots(s)
      PROVE  Type(q) \in KindsFrom(s, r)
             <=> (DirOf(Exporter!FileOf(s, q)) = "Kabel") # (DirOf(p) = "Kabel")
  <2>1. Type(q) \in KindsFrom(s, r) <=> ((Type(q) = "ACLine") # (Type(r) = "ACLine"))
    BY <1>1 DEF KindsFrom
  <2>2. DirOf(p) = "Kabel" <=> Type(r) = "ACLine"
    BY <1>1, <1>2
  <2> QED BY <1>1, <2>1, <2>2
<1>4. ASSUME NEW q \in OwnRoots(s)
      PROVE  n \in NodesAt(files, Exporter!FileOf(s, q))
             <=> \E e \in Exporter!Touching(s, n) :
                    Exporter!RootOf(s, e) # NoID /\ Exporter!EffRoot(s, Exporter!RootOf(s, e)) = q
  <2>1. n \in NodesAt(files, Exporter!FileOf(s, q)) <=> \E e \in StandsIn(s, q) : n \in Exporter!Ends(s, e)
    BY NodesOfFile
  <2>2. ASSUME NEW e, n \in Exporter!Ends(s, e) PROVE e \in Exporter!Touching(s, n)
    <3> SUFFICES ASSUME e \notin DOMAIN s.edges PROVE FALSE
      BY <2>2 DEF Exporter!Touching
    <3>1. Exporter!At(s.edges, e, <<>>) = <<>>
      BY DEF Exporter!At
    <3> QED BY <2>2, <3>1 DEF Exporter!Ends, Exporter!Range
  <2>3. ASSUME NEW e \in Exporter!Touching(s, n) PROVE n \in Exporter!Ends(s, e) /\ e \in DOMAIN s.edges
    BY DEF Exporter!Touching
  <2> QED BY <2>1, <2>2, <2>3, StandsInItsFile
<1>5. ASSUME NEW f \in F PROVE f \in Across(files, p, n)
  <2>1. PICK q \in Exporter!Roots(s) :
          /\ f = Exporter!FileOf(s, q) /\ Type(q) \in KindsFrom(s, r)
          /\ \E e \in Exporter!Touching(s, n) :
                Exporter!RootOf(s, e) # NoID /\ Exporter!EffRoot(s, Exporter!RootOf(s, e)) = q
    BY SameNames DEF Exporter!FilesAt
  <2>2. q \in OwnRoots(s)
    BY <2>1, RootsAreRoots, SameNames, FoldedGoesToStation
  <2>3. f \in DOMAIN files
    BY <2>1, <2>2, FilesOfBuild
  <2> HIDE DEF files, p
  <2> QED BY <1>1, <1>3, <1>4, <2>1, <2>2, <2>3 DEF Across
<1>6. ASSUME NEW f \in Across(files, p, n) PROVE f \in F
  <2>1. /\ f \in DOMAIN files /\ n \in NodesAt(files, f) /\ DirOf(f) # BoundaryDir
        /\ (DirOf(f) = "Kabel") # (DirOf(p) = "Kabel")
    BY DEF Across
  <2>2. PICK q \in OwnRoots(s) : f = Exporter!FileOf(s, q)
    BY <2>1, FilesOfBuild
  <2>3. PICK e \in Exporter!Touching(s, n) :
          Exporter!RootOf(s, e) # NoID /\ Exporter!EffRoot(s, Exporter!RootOf(s, e)) = q
    BY <1>4, <2>1, <2>2
  <2>4. q \in Exporter!Roots(s) /\ Type(q) \in KindsFrom(s, r)
    BY <1>2, <1>3, <2>1, <2>2
  <2> QED BY <2>2, <2>3, <2>4, SameNames DEF Exporter!FilesAt
<1> QED BY <1>5, <1>6

\* The references of an exported model lead to the files that go on at their node.
THEOREM ExportedRefsLead == ASSUME NEW s, Exportable(s) PROVE RefsLead(Exporter!Build(s))
<1> DEFINE files == Exporter!Build(s)
<1> SUFFICES ASSUME NEW p \in DOMAIN files, DirOf(p) # BoundaryDir, NEW c \in Connects(files[p])
             PROVE  {Follow(p, ref) : ref \in c.refs} = Across(files, p, ResolveID(p.id, c.node))
  BY DEF RefsLead
<1>1. PICK r \in OwnRoots(s) : p = Exporter!FileOf(s, r)
  BY FilesOfBuild
<1>2. PICK n : /\ c = Exporter!Connect(s, r, n, p.dir, KindsFrom(s, r))
               /\ ResolveID(p.id, c.node) = n
  BY <1>1, NodesOfFile
<1> DEFINE F == Exporter!FilesAt(s, n, KindsFrom(s, r))
<1>3. c.refs = {Exporter!RelativeFileRef(p.dir, f) : f \in F}
  BY <1>2 DEF Exporter!Connect
<1>4. ASSUME NEW f \in F PROVE Follow(p, Exporter!RelativeFileRef(p.dir, f)) = f
  <2>1. PICK q \in Exporter!Roots(s) : f = Exporter!FileOf(s, q)
    BY DEF Exporter!FilesAt
  <2>2. f = [dir |-> f.dir, id |-> f.id] /\ IsList(f.dir) /\ IsList(p.dir)
    BY <1>1, <2>1, PlaceOfFile DEF OwnRoots
  <2> QED BY <2>2, RefIsFollowed
<1>5. F = Across(files, p, n)
  BY <1>1, FilesAtNode
<1> HIDE DEF F, files
<1>6. {Follow(p, ref) : ref \in c.refs} = F
  BY <1>3, <1>4
<1> QED BY <1>2, <1>5, <1>6

\* What was read for an export is a copy of a source, and the trees nobody touched are what
\* Build made of the model.
UntouchedInv ==
    /\ CopyInv
    /\ before \in Targets /\ edits \in Nat
    /\ milestone # "copy" /\ edits = 0 =>
          /\ \E s \in Sources, d \in Targets : loaded = Load(CopyOf(s, d))
          /\ tree = Exporter!Build(loaded)
    /\ milestone = "exported" => again = Exporter!Build(model)

\* Whatever the hand does to a tree, it is an edit.
LEMMA HandsEdit ==
    MoveFile \/ CopyFile \/ SpoilFile \/ DropClass \/ AddConnects => \E files : Edit(files)
<1>1. MoveFile => \E files : Edit(files)
  BY Zenon DEF MoveFile
<1>2. CopyFile => \E files : Edit(files)
  BY Zenon DEF CopyFile
<1>3. SpoilFile => \E files : Edit(files)
  BY Zenon DEF SpoilFile
<1>4. DropClass => \E files : Edit(files)
  BY Zenon DEF DropClass
<1>5. AddConnects => \E files : Edit(files)
  BY Zenon DEF AddConnects
<1> QED BY <1>1, <1>2, <1>3, <1>4, <1>5

LEMMA UntouchedInvStep == UntouchedInv /\ [ExchangeNext]_exchangeVars => UntouchedInv'
<1> SUFFICES ASSUME UntouchedInv, [ExchangeNext]_exchangeVars PROVE UntouchedInv'
  OBVIOUS
<1>1. CopyInv'
  <2>1. [CopyNext]_copyVars
    BY HandsEdit DEF ExchangeNext, exchangeVars, Copy, Export, Edit, Check, Import, ExportAgain
  <2> QED BY <2>1, CopyInvStep DEF UntouchedInv
<1>2. UNCHANGED before
  <2>1. CopyNext => UNCHANGED before
    BY DEF CopyNext, CopyPage, KillCopy, StartCopy, FinishCopy
  <2> QED BY <2>1, HandsEdit
          DEF ExchangeNext, exchangeVars, copyVars, Copy, Export, Edit, Check, Import, ExportAgain
<1>3. CASE Export
  <2>1. dst = CopyOf(src, before)
    <3>1. CopyExact /\ phase = "done"
      BY <1>3, CopyInvIsExact DEF UntouchedInv, Export
    <3>2. dst = [t \in Tables |-> dst[t]]
      BY DEF UntouchedInv, CopyInv, CopyTypeOK
    <3> QED BY <3>1, <3>2 DEF CopyExact, CopyOf
  <2>2. src \in Sources /\ before \in Targets
    BY DEF UntouchedInv, CopyInv, CopyTypeOK
  <2>3. loaded' = Load(dst) /\ tree' = Exporter!Build(loaded') /\ milestone' = "tree"
    BY <1>3 DEF Export
  <2>4. \E s \in Sources, d \in Targets : loaded' = Load(CopyOf(s, d))
    BY <2>1, <2>2, <2>3
  <2>5. edits' = edits /\ before' = before
    BY <1>2, <1>3 DEF Export
  <2> QED BY <1>1, <2>3, <2>4, <2>5 DEF UntouchedInv
<1>4. ASSUME NEW files, Edit(files) PROVE UntouchedInv'
  <2>1. edits' \in Nat /\ edits' # 0 /\ milestone' = "tree"
    BY <1>4 DEF Edit, UntouchedInv
  <2> QED BY <1>1, <1>2, <1>4, <2>1 DEF Edit, UntouchedInv
<1>5. CASE MoveFile \/ CopyFile \/ SpoilFile \/ DropClass \/ AddConnects
  BY <1>4, <1>5, HandsEdit
<1>6. CASE Copy \/ UNCHANGED exchangeVars
  BY <1>1, <1>2, <1>6 DEF Copy, exchangeVars, UntouchedInv
<1>7. CASE Check
  BY <1>1, <1>2, <1>7 DEF Check, UntouchedInv
<1>8. CASE Import
  <2>1. UNCHANGED <<loaded, tree, edits, again>> /\ milestone = "tree" /\ milestone' # "exported" /\ milestone' # "copy"
    BY <1>8 DEF Import
  <2> QED BY <1>1, <1>2, <2>1 DEF UntouchedInv
<1>9. CASE ExportAgain
  BY <1>1, <1>2, <1>9 DEF ExportAgain, UntouchedInv
<1> QED BY <1>3, <1>5, <1>6, <1>7, <1>8, <1>9 DEF ExchangeNext

\* The comments at the nodes of every exported tree lead to the files that go on from there:
\* of the first export for all sources that make an exportable model, of the second one
\* whenever what was imported is such a model again.
THEOREM RefsAlwaysResolve ==
    ExchangeSpec /\ [](milestone = "exported" => Exportable(model)) => []RefsResolve
<1> DEFINE Imported == milestone = "exported" => Exportable(model)
<1>1. InitExchange => UntouchedInv
  BY CopyInvInit DEF InitExchange, UntouchedInv, CopyInit
<1>2. UntouchedInv /\ Imported => RefsResolve
  <2> SUFFICES ASSUME UntouchedInv, Imported PROVE RefsResolve
    OBVIOUS
  <2>1. ASSUME milestone = "tree", edits = 0 PROVE RefsLead(tree)
    BY <2>1, ExportAssumption, ExportedRefsLead DEF UntouchedInv
  <2>2. ASSUME milestone = "exported" PROVE RefsLead(again)
    BY <2>2, ExportedRefsLead DEF UntouchedInv
  <2> QED BY <2>1, <2>2 DEF RefsResolve
<1> HIDE DEF Imported
<1>3. ExchangeSpec => []UntouchedInv
  BY <1>1, UntouchedInvStep, PTL DEF ExchangeSpec
<1>4. ExchangeSpec /\ []Imported => []RefsResolve
  BY <1>2, <1>3, PTL
<1> QED BY <1>4 DEF Imported


-----------------------------------------------------------------------------
(* ModelExchange: what an export writes, Check finds clean.                  *)

\* The equipment a file of a root lists with its class: that of a cable's file stands there as segments.
ListedIn(s, r) ==
    IF s.containers[r].type = "ACLine" THEN {}
    ELSE Exporter!EquipmentOf(s, r)
         \cup (IF s.containers[r].type \notin StationTypes THEN {}
               ELSE UNION {Exporter!EquipmentOf(s, b) : b \in Exporter!Children(s, r, "Bay")})

\* What a model must be for its files to pass Check: every file lies in a region, none but that of a
\* cable between the regions; no two files bear the same ID, so all border equipment is in one
\* region; and what is listed with its class has one.
Placed(path, cable) == path # <<>> /\ (path[1] = "interregional" => cable /\ Len(path) = 1)
Importable(s) ==
    /\ \A r \in OwnRoots(s) : Placed(Exporter!RegionPath(s, r), s.containers[r].type = "ACLine")
    /\ \A e \in Exporter!Orphans(s) : Placed(Exporter!RegionPath(s, e), FALSE)
    /\ \A r, q \in OwnRoots(s) : Exporter!FileOf(s, r).id = Exporter!FileOf(s, q).id => r = q
    /\ \A r \in OwnRoots(s) : Exporter!Orphans(s) # {} => Exporter!FileOf(s, r).id # <<"Boundary">>
    /\ \A d, e \in Exporter!Orphans(s) : Exporter!RegionPath(s, d) = Exporter!RegionPath(s, e)
    /\ \A e \in Exporter!Orphans(s) \cup UNION {ListedIn(s, r) : r \in OwnRoots(s)} : ClassOf(s, e) # ""

\* An entry has the class of its equipment and at most two comments.
LEMMA EntryIsWellFormed ==
    ASSUME NEW s, NEW e, NEW root, NEW from, NEW kinds,
           e \in DOMAIN s.edges => IsList(s.edges[e]) /\ Len(s.edges[e]) = 2
    PROVE  LET q == Exporter!EquipmentEntry(s, root, e, from, kinds)
           IN  q.class = ClassOf(s, e) /\ ~(Len(q.connects) > 2)
<1> DEFINE edge == Exporter!At(s.edges, e, <<>>)
           wired == IF Len(edge) = 2 /\ edge[2] = Exporter!GND THEN <<edge[1]>> ELSE edge
           C(n) == Exporter!Connect(s, root, n, from, kinds)
           connects == [i \in DOMAIN wired |-> C(wired[i])]
           q == Exporter!EquipmentEntry(s, root, e, from, kinds)
<1>1. q.class = ClassOf(s, e) /\ q.connects = connects
  BY DEF Exporter!EquipmentEntry, ClassOf, Exporter!Class, Class
<1>2. edge = <<>> \/ (edge \in Seq(Range(edge)) /\ Len(edge) = 2)
  BY DEF Exporter!At, IsList
<1> HIDE DEF edge, C, q
<1>3. \E n \in 0 .. 2 : DOMAIN wired = 1 .. n
  <2>1. CASE edge = <<>>
    <3>1. wired = <<>>
      BY <2>1
    <3> QED BY <3>1
  <2>2. CASE edge # <<>> /\ edge[2] = Exporter!GND
    <3>1. wired = <<edge[1]>>
      BY <1>2, <2>2
    <3>2. DOMAIN wired = 1 .. 1
      BY <3>1
    <3> QED BY <3>2
  <2>3. CASE edge # <<>> /\ edge[2] # Exporter!GND
    <3>1. wired = edge /\ DOMAIN edge = 1 .. 2
      BY <1>2, <2>3
    <3> QED BY <3>1
  <2> QED BY <2>1, <2>2, <2>3
<1> HIDE DEF wired
<1>4. PICK n \in 0 .. 2 : DOMAIN connects = 1 .. n
  BY <1>3
<1>5. Len(connects) = n
  <2>1. connects \in Seq(Range(connects))
    <3>1. connects \in [1 .. n -> Range(connects)]
      BY <1>4 DEF Range
    <3> QED BY <3>1
  <2> HIDE DEF connects
  <2> QED BY <1>4, <2>1
<1> HIDE DEF connects
<1> QED BY <1>1, <1>5 DEF q

\* What Check says of the equipment of one file, for any of its entries.
LEMMA ErrorsOfEntries ==
    ASSUME NEW doc, NEW E, NEW s, NEW root, NEW from, NEW kinds,
           \A e \in DOMAIN s.edges : IsList(s.edges[e]) /\ Len(s.edges[e]) = 2,
           \A q \in BayEquipment(doc) \cup doc.equipments :
               \E e \in E : q = Exporter!EquipmentEntry(s, root, e, from, kinds),
           \A e \in E : Exporter!EquipmentEntry(s, root, e, from, kinds) \in BayEquipment(doc) \cup doc.equipments
    PROVE  EquipmentErrors(doc) = {} <=> \A e \in E : ClassOf(s, e) # ""
<1> DEFINE Entry(e) == Exporter!EquipmentEntry(s, root, e, from, kinds)
           all == BayEquipment(doc) \cup doc.equipments
<1>1. \A e : Entry(e).class = ClassOf(s, e) /\ ~(Len(Entry(e).connects) > 2)
  BY EntryIsWellFormed
<1>2. (\A q \in all : \E e \in E : q = Entry(e)) /\ (\A e \in E : Entry(e) \in all)
  OBVIOUS
<1> DEFINE Classless == {q \in all : q.class = ""}
           Crowded == {q \in all : Len(q.connects) > 2}
<1>3. EquipmentErrors(doc) = {<<"class", q.id>> : q \in Classless} \cup {<<"connects", q.id>> : q \in Crowded}
  BY DEF EquipmentErrors
<1> HIDE DEF Entry, all
<1>4. Crowded = {}
  BY <1>1, <1>2
<1>5. Classless = {} <=> \A e \in E : ClassOf(s, e) # ""
  BY <1>1, <1>2
<1> HIDE DEF Classless, Crowded
<1>6. EquipmentErrors(doc) = {} <=> Classless = {}
  <2>1. Classless = {} => EquipmentErrors(doc) = {}
    BY <1>3, <1>4
  <2>2. ASSUME NEW q \in Classless PROVE <<"class", q.id>> \in EquipmentErrors(doc)
    BY <1>3
  <2> QED BY <2>1, <2>2
<1> QED BY <1>5, <1>6

LEMMA DocumentErrors ==
    ASSUME NEW s, Exportable(s), NEW r \in Exporter!Roots(s)
    PROVE  LET doc == Exporter!Document(s, r)
           IN  doc.parses /\ (EquipmentErrors(doc) = {} <=> \A e \in ListedIn(s, r) : ClassOf(s, e) # "")
<1> DEFINE type == s.containers[r].type
           dir == Exporter!FileOf(s, r).dir
           doc == Exporter!Document(s, r)
           all == BayEquipment(doc) \cup doc.equipments
           Entry(e) == Exporter!EquipmentEntry(s, r, e, dir, {"ACLine"})
<1>1. doc.parses
  <2> DEFINE file == IF type \in Exporter!StationTypes THEN Exporter!StationFile(s, r, dir)
                     ELSE IF type = "House"
                     THEN [Exporter!Empty EXCEPT !.equipments =
                             {Exporter!EquipmentEntry(s, r, e, dir, {"ACLine"}) : e \in Exporter!EquipmentOf(s, r)}]
                     ELSE [Exporter!Empty EXCEPT !.segments =
                             {Exporter!SegmentEntry(s, r, e, dir, Exporter!RootTypes \ {"ACLine"})
                              : e \in Exporter!EquipmentOf(s, r)}]
  <2>1. file.parses
    BY DEF Exporter!StationFile, Exporter!Empty
  <2>2. doc = [file EXCEPT !.attributes = Exporter!Written(Exporter!Attributes(s, r, {})),
                           !.geometry = Exporter!OwnerPoint(s, r)]
    BY DEF Exporter!Document
  <2> HIDE DEF doc, file
  <2> QED BY <2>1, <2>2
<1>2. all = {Entry(e) : e \in ListedIn(s, r)}
  <2> HIDE DEF doc, Entry
  <2>1. CASE type \in StationTypes
    <3> DEFINE bays == Exporter!Children(s, r, "Bay")
               Bay(b) == [id |-> Exporter!Shorten(r, b),
                          attributes |-> Exporter!Written(Exporter!Attributes(s, b, {})),
                          equipments |-> EntriesIn(s, r, b)]
    <3>1. doc.equipments = EntriesIn(s, r, r) /\ doc.bays = {Bay(b) : b \in bays}
      BY <2>1, PartsOfDocument DEF doc
    <3>2. \A b : Bay(b).equipments = EntriesIn(s, r, b)
      OBVIOUS
    <3> HIDE DEF Bay, bays
    <3>3. BayEquipment(doc) = UNION {EntriesIn(s, r, b) : b \in bays}
      BY <3>1, <3>2 DEF BayEquipment
    <3>4. \A c : EntriesIn(s, r, c) = {Entry(e) : e \in Exporter!EquipmentOf(s, c)}
      BY DEF EntriesIn, Entry
    <3>5. ListedIn(s, r) = Exporter!EquipmentOf(s, r) \cup UNION {Exporter!EquipmentOf(s, b) : b \in bays}
      BY <2>1 DEF ListedIn, StationTypes, bays
    <3> QED BY <3>1, <3>3, <3>4, <3>5
  <2>2. CASE type = "House"
    <3>1. doc.equipments = EntriesIn(s, r, r) /\ BayEquipment(doc) = {}
      BY <2>2, PartsOfDocument DEF doc, BayEquipment
    <3>2. ListedIn(s, r) = Exporter!EquipmentOf(s, r)
      BY <2>2 DEF ListedIn, StationTypes
    <3> QED BY <3>1, <3>2 DEF EntriesIn, Entry
  <2>3. CASE type = "ACLine"
    <3>1. doc.equipments = {} /\ BayEquipment(doc) = {}
      BY <2>3, PartsOfDocument DEF doc, BayEquipment
    <3> QED BY <2>3, <3>1 DEF ListedIn
  <2>4. type \in StationTypes \cup {"House", "ACLine"}
    BY SameNames DEF Exporter!Roots, StationTypes
  <2> QED BY <2>1, <2>2, <2>3, <2>4
<1>3. EquipmentErrors(doc) = {} <=> \A e \in ListedIn(s, r) : ClassOf(s, e) # ""
  <2>1. \A e \in DOMAIN s.edges : IsList(s.edges[e]) /\ Len(s.edges[e]) = 2
    BY DEF Exportable
  <2> HIDE DEF doc
  <2>2. /\ \A q \in all : \E e \in ListedIn(s, r) : q = Entry(e)
        /\ \A e \in ListedIn(s, r) : Entry(e) \in all
    <3> HIDE DEF all, Entry
    <3> QED BY <1>2
  <2> QED BY <2>1, <2>2, ErrorsOfEntries
<1> QED BY <1>1, <1>3

\* The files of the border.
LEMMA BoundaryOfBuild ==
    ASSUME NEW s, Exportable(s)
    PROVE  /\ \A e \in Exporter!Orphans(s) :
                 LET p == Exporter!BoundaryPath(s, e)
                 IN  /\ p = [dir |-> p.dir, id |-> <<"Boundary">>]
                     /\ p.dir = Append(Exporter!RegionPath(s, e), BoundaryDir)
                     /\ DirOf(p) = BoundaryDir
                     /\ p \in DOMAIN Exporter!Build(s)
                     /\ Exporter!Build(s)[p] = Exporter!BoundaryFile(s, p)
           /\ \A p \in DOMAIN Exporter!Build(s) :
                 \/ \E r \in OwnRoots(s) : p = Exporter!FileOf(s, r)
                 \/ \E e \in Exporter!Orphans(s) : p = Exporter!BoundaryPath(s, e)
<1> DEFINE own == {r \in Exporter!Roots(s) : ~Exporter!IsFolded(s, r)}
           Owner(path) == CHOOSE r \in own : Exporter!FileOf(s, r) = path
           boundary == {Exporter!BoundaryPath(s, e) : e \in Exporter!Orphans(s)}
           places == {Exporter!FileOf(s, r) : r \in own}
           f == [path \in places |-> Exporter!Document(s, Owner(path))]
           g == [path \in boundary |-> Exporter!BoundaryFile(s, path)]
<1>1. Exporter!Build(s) = [x \in places \cup boundary |-> IF x \in places THEN f[x] ELSE g[x]]
  BY DEF Exporter!Build, Exporter!Over
<1>2. own = OwnRoots(s) /\ own \subseteq Exporter!Roots(s)
  BY DEF OwnRoots
<1>3. ASSUME NEW r \in own PROVE DirOf(Exporter!FileOf(s, r)) # BoundaryDir
  <2>1. s.containers[r].type \in RootTypes
    BY <1>2, SameNames DEF Exporter!Roots
  <2>2. DirOf(Exporter!FileOf(s, r)) = DirForType[s.containers[r].type]
    BY <1>2, PlaceOfFile
  <2> QED BY <2>1, <2>2, DirsApart
<1>4. ASSUME NEW e \in Exporter!Orphans(s)
      PROVE  LET p == Exporter!BoundaryPath(s, e)
             IN  /\ p = [dir |-> p.dir, id |-> <<"Boundary">>]
                 /\ p.dir = Append(Exporter!RegionPath(s, e), BoundaryDir)
                 /\ DirOf(p) = BoundaryDir
  <2> DEFINE path == Exporter!RegionPath(s, e)
             V == Range(path) \cup {BoundaryDir}
             p == Exporter!BoundaryPath(s, e)
  <2>1. p = [dir |-> Append(path, BoundaryDir), id |-> <<"Boundary">>]
    BY SameNames DEF Exporter!BoundaryPath
  <2>2. path \in Seq(Range(path))
    BY DEF Exportable, IsList
  <2>3. path \in Seq(V) /\ BoundaryDir \in V
    BY <2>2
  <2> HIDE DEF V, path, p
  <2>4. Len(Append(path, BoundaryDir)) = Len(path) + 1 /\ Append(path, BoundaryDir)[Len(path) + 1] = BoundaryDir
    BY <2>3
  <2>5. DirOf(p) = BoundaryDir
    BY <2>1, <2>4 DEF DirOf
  <2> QED BY <2>1, <2>5 DEF p, path
<1> HIDE DEF Owner
<1>5. ASSUME NEW e \in Exporter!Orphans(s)
      PROVE  LET p == Exporter!BoundaryPath(s, e)
             IN  p \in DOMAIN Exporter!Build(s) /\ Exporter!Build(s)[p] = Exporter!BoundaryFile(s, p)
  <2> DEFINE p == Exporter!BoundaryPath(s, e)
  <2>1. p \in boundary /\ p \notin places
    BY <1>3, <1>4
  <2> HIDE DEF p, boundary, places
  <2> QED BY <1>1, <2>1 DEF p
<1>6. ASSUME NEW p \in DOMAIN Exporter!Build(s) PROVE p \in places \/ p \in boundary
  BY <1>1, <1>6
<1> QED BY <1>2, <1>4, <1>5, <1>6

LEMMA BoundaryErrors ==
    ASSUME NEW s, Exportable(s), NEW p
    PROVE  LET doc == Exporter!BoundaryFile(s, p)
           IN  /\ doc.parses
               /\ EquipmentErrors(doc) = {}
                  <=> \A e \in {e \in Exporter!Orphans(s) : Exporter!BoundaryPath(s, e) = p} : ClassOf(s, e) # ""
<1> DEFINE doc == Exporter!BoundaryFile(s, p)
           E == {e \in Exporter!Orphans(s) : Exporter!BoundaryPath(s, e) = p}
           entries == {Exporter!EquipmentEntry(s, Exporter!NoID, e, p.dir, {}) : e \in E}
<1>1. doc = [Exporter!Empty EXCEPT !.equipments = entries]
  BY DEF Exporter!BoundaryFile
<1> HIDE DEF doc, entries
<1>2. doc.parses /\ doc.bays = {} /\ doc.equipments = entries
  BY <1>1 DEF Exporter!Empty
<1>3. BayEquipment(doc) \cup doc.equipments = entries
  BY <1>2 DEF BayEquipment
<1> DEFINE Entry(e) == Exporter!EquipmentEntry(s, Exporter!NoID, e, p.dir, {})
<1>4. \A e \in DOMAIN s.edges : IsList(s.edges[e]) /\ Len(s.edges[e]) = 2
  BY DEF Exportable
<1>5. /\ \A q \in BayEquipment(doc) \cup doc.equipments : \E e \in E : q = Entry(e)
      /\ \A e \in E : Entry(e) \in BayEquipment(doc) \cup doc.equipments
  <2>1. entries = {Entry(e) : e \in E}
    BY DEF entries
  <2> HIDE DEF E, Entry
  <2> QED BY <1>3, <2>1
<1> HIDE DEF E
<1>6. EquipmentErrors(doc) = {} <=> \A e \in E : ClassOf(s, e) # ""
  BY <1>4, <1>5, ErrorsOfEntries
<1> QED BY <1>2, <1>6 DEF doc, E

\* The importer understands a path that lies in a region.
LEMMA ClassifiedIsPlaced ==
    ASSUME NEW f, NEW path, NEW last \in Dirs, IsList(path), f.dir = Append(path, last)
    PROVE  Classified(f) <=> Placed(path, last = "Kabel")
<1> DEFINE V == Range(path) \cup {last}
<1>1. path \in Seq(Range(path))
  BY DEF IsList
<1>2. path \in Seq(V) /\ last \in V
  BY <1>1
<1> HIDE DEF V
<1>3. /\ Len(path) \in Nat /\ (path = <<>> <=> Len(path) = 0)
      /\ Len(f.dir) = Len(path) + 1 /\ f.dir[Len(path) + 1] = last
  BY <1>2
<1>4. path # <<>> => f.dir[1] = path[1]
  BY <1>2, <1>3
<1>5. DirOf(f) = last
  BY <1>3 DEF DirOf
<1>6. Len(f.dir) >= 2 <=> path # <<>>
  BY <1>3
<1>7. Len(f.dir) = 2 <=> Len(path) = 1
  <2>1. \A m, n \in Nat : m = n + 1 => (m = 2 <=> n = 1)
    OBVIOUS
  <2>2. Len(f.dir) \in Nat /\ Len(path) \in Nat /\ Len(f.dir) = Len(path) + 1
    BY <1>3
  <2> QED BY <2>1, <2>2
<1> QED BY <1>4, <1>5, <1>6, <1>7 DEF Classified, Placed

\* What it takes for Check to find nothing.
LEMMA NothingFound ==
    ASSUME NEW files
    PROVE  Findings(files) = {}
           <=> /\ \A p \in DOMAIN files : Classified(p) /\ files[p].parses /\ EquipmentErrors(files[p]) = {}
               /\ \A p, q \in DOMAIN files : p.id = q.id => p = q
<1> DEFINE good == {p \in DOMAIN files : Classified(p)}
<1>1. Findings(files) =
        {<<"path", p.id>> : p \in DOMAIN files \ good}
        \cup {<<"duplicate", p.id>> : p \in {p \in good : Duplicate(files, p)}}
        \cup {<<"syntax", p.id>> : p \in {p \in good : ~files[p].parses}}
        \cup UNION {EquipmentErrors(files[p]) : p \in {p \in good : files[p].parses}}
  BY DEF Findings
<1>2. Findings(files) = {}
      <=> /\ DOMAIN files \ good = {} /\ {p \in good : Duplicate(files, p)} = {}
          /\ {p \in good : ~files[p].parses} = {}
          /\ \A p \in good : files[p].parses => EquipmentErrors(files[p]) = {}
  <2> DEFINE A == DOMAIN files \ good  B == {p \in good : Duplicate(files, p)}
             C == {p \in good : ~files[p].parses}  D == {p \in good : files[p].parses}
  <2>1. Findings(files) = {<<"path", p.id>> : p \in A} \cup {<<"duplicate", p.id>> : p \in B}
                          \cup {<<"syntax", p.id>> : p \in C} \cup UNION {EquipmentErrors(files[p]) : p \in D}
    BY <1>1
  <2> HIDE DEF A, B, C, D
  <2>2. Findings(files) = {} <=> A = {} /\ B = {} /\ C = {} /\ \A p \in D : EquipmentErrors(files[p]) = {}
    BY <2>1, ZenonT(30)
  <2> QED BY <2>2 DEF A, B, C, D
<1>3. ASSUME \A p \in DOMAIN files : Classified(p)
      PROVE  {p \in good : Duplicate(files, p)} = {} <=> \A p, q \in DOMAIN files : p.id = q.id => p = q
  BY <1>3 DEF Duplicate
<1>4. DOMAIN files \ good = {} <=> \A p \in DOMAIN files : Classified(p)
  OBVIOUS
<1> QED BY <1>2, <1>3, <1>4

\* An exported tree passes the check of its own importer exactly when the model is importable:
\* every entry that an export writes is well formed, and places and names are the model's.
THEOREM ExportPassesCheck ==
    ASSUME NEW s, Exportable(s) PROVE Findings(Exporter!Build(s)) = {} <=> Importable(s)
<1> DEFINE files == Exporter!Build(s)
           own == OwnRoots(s)
           border == Exporter!Orphans(s)
           F(r) == Exporter!FileOf(s, r)
           B(e) == Exporter!BoundaryPath(s, e)
<1>1. own \subseteq Exporter!Roots(s)
  BY DEF OwnRoots
<1>2. ASSUME NEW r \in own
      PROVE  /\ F(r) \in DOMAIN files /\ files[F(r)].parses
             /\ EquipmentErrors(files[F(r)]) = {} <=> \A e \in ListedIn(s, r) : ClassOf(s, e) # ""
  <2>1. r \in Exporter!Roots(s) /\ F(r) \in DOMAIN files /\ files[F(r)] = Exporter!Document(s, r)
    BY <1>1, FilesOfBuild
  <2> DEFINE doc == Exporter!Document(s, r)
  <2>2. doc.parses /\ (EquipmentErrors(doc) = {} <=> \A e \in ListedIn(s, r) : ClassOf(s, e) # "")
    BY <2>1, DocumentErrors
  <2> HIDE DEF F, files, doc
  <2> QED BY <2>1, <2>2 DEF doc
<1>3. ASSUME NEW e \in border
      PROVE  /\ B(e) \in DOMAIN files /\ files[B(e)].parses
             /\ EquipmentErrors(files[B(e)]) = {} <=> \A d \in border : B(d) = B(e) => ClassOf(s, d) # ""
  <2>1. B(e) \in DOMAIN files /\ files[B(e)] = Exporter!BoundaryFile(s, B(e))
    BY BoundaryOfBuild
  <2> DEFINE doc == Exporter!BoundaryFile(s, B(e))
             E == {d \in border : B(d) = B(e)}
  <2>2. doc.parses /\ (EquipmentErrors(doc) = {} <=> \A d \in E : ClassOf(s, d) # "")
    BY BoundaryErrors
  <2> HIDE DEF B, files, doc
  <2> QED BY <2>1, <2>2 DEF doc
<1>4. \A p \in DOMAIN files : (\E r \in own : p = F(r)) \/ (\E e \in border : p = B(e))
  BY BoundaryOfBuild
<1>5. ASSUME NEW r \in own
      PROVE  Classified(F(r)) <=> Placed(Exporter!RegionPath(s, r), s.containers[r].type = "ACLine")
  <2>1. s.containers[r].type \in RootTypes
    BY <1>1, SameNames DEF Exporter!Roots
  <2> DEFINE last == DirForType[s.containers[r].type]
  <2>2. last \in Dirs /\ (last = "Kabel" <=> s.containers[r].type = "ACLine")
    BY <2>1, DirsApart, SameNames DEF Dirs, Range, DirForType
  <2>3. F(r).dir = Append(Exporter!RegionPath(s, r), last) /\ IsList(Exporter!RegionPath(s, r))
    BY <1>1, SameNames DEF Exporter!FileOf, Exportable
  <2> HIDE DEF F, last
  <2>4. Classified(F(r)) <=> Placed(Exporter!RegionPath(s, r), last = "Kabel")
    BY <2>2, <2>3, ClassifiedIsPlaced
  <2> QED BY <2>2, <2>4 DEF Placed
<1>6. ASSUME NEW e \in border PROVE Classified(B(e)) <=> Placed(Exporter!RegionPath(s, e), FALSE)
  <2>1. BoundaryDir \in Dirs /\ BoundaryDir # "Kabel"
    BY DEF Dirs, BoundaryDir
  <2>2. B(e).dir = Append(Exporter!RegionPath(s, e), BoundaryDir) /\ IsList(Exporter!RegionPath(s, e))
    BY BoundaryOfBuild DEF Exportable
  <2> HIDE DEF B
  <2>3. Classified(B(e)) <=> Placed(Exporter!RegionPath(s, e), BoundaryDir = "Kabel")
    BY <2>1, <2>2, ClassifiedIsPlaced
  <2> QED BY <2>1, <2>3 DEF Placed
<1>7. ASSUME NEW d \in border, NEW e \in border
      PROVE  /\ B(e).id = <<"Boundary">>
             /\ B(d) = B(e) <=> Exporter!RegionPath(s, d) = Exporter!RegionPath(s, e)
  <2> DEFINE P(x) == Exporter!RegionPath(s, x)
  <2>1. \A x \in border : B(x) = [dir |-> Append(P(x), BoundaryDir), id |-> <<"Boundary">>]
    BY SameNames DEF Exporter!BoundaryPath
  <2>2. P(d) \in Seq(Range(P(d))) /\ P(e) \in Seq(Range(P(e)))
    BY DEF Exportable, IsList
  <2> DEFINE V == Range(P(d)) \cup Range(P(e)) \cup {BoundaryDir}
  <2>3. P(d) \in Seq(V) /\ P(e) \in Seq(V) /\ BoundaryDir \in V
    BY <2>2
  <2> HIDE DEF P, V, B
  <2>4. Append(P(d), BoundaryDir) = Append(P(e), BoundaryDir) => P(d) = P(e)
    BY <2>3, AppendInjective
  <2> QED BY <2>1, <2>4, SMTT(30) DEF P
<1>8. \A r \in own, e \in border : F(r) # B(e)
  <2>1. ASSUME NEW r \in own PROVE DirOf(F(r)) # BoundaryDir
    <3>1. s.containers[r].type \in RootTypes
      BY <1>1, SameNames DEF Exporter!Roots
    <3>2. DirOf(F(r)) = DirForType[s.containers[r].type]
      BY <1>1, PlaceOfFile
    <3> QED BY <3>1, <3>2, DirsApart
  <2> QED BY <2>1, BoundaryOfBuild
<1>9. \A r, q \in own : F(r) = F(q) => r = q
  BY <1>1, FilesApart
<1> HIDE DEF files, own, border, F, B
<1>10. (\A p \in DOMAIN files : Classified(p))
       <=> /\ \A r \in own : Placed(Exporter!RegionPath(s, r), s.containers[r].type = "ACLine")
           /\ \A e \in border : Placed(Exporter!RegionPath(s, e), FALSE)
  BY <1>2, <1>3, <1>4, <1>5, <1>6
<1>11. \A p \in DOMAIN files : files[p].parses
  BY <1>2, <1>3, <1>4
<1>12. (\A p \in DOMAIN files : EquipmentErrors(files[p]) = {})
       <=> \A e \in border \cup UNION {ListedIn(s, r) : r \in own} : ClassOf(s, e) # ""
  <2>1. (\A p \in DOMAIN files : EquipmentErrors(files[p]) = {})
        <=> /\ \A r \in own : EquipmentErrors(files[F(r)]) = {}
            /\ \A e \in border : EquipmentErrors(files[B(e)]) = {}
    BY <1>2, <1>3, <1>4
  <2>2. (\A r \in own : EquipmentErrors(files[F(r)]) = {})
        <=> \A e \in UNION {ListedIn(s, r) : r \in own} : ClassOf(s, e) # ""
    BY <1>2
  <2>3. (\A e \in border : EquipmentErrors(files[B(e)]) = {}) <=> \A e \in border : ClassOf(s, e) # ""
    BY <1>3
  <2> QED BY <2>1, <2>2, <2>3
<1>13. (\A p, q \in DOMAIN files : p.id = q.id => p = q)
       <=> /\ \A r, q \in own : F(r).id = F(q).id => r = q
           /\ \A r \in own : border # {} => F(r).id # <<"Boundary">>
           /\ \A d, e \in border : Exporter!RegionPath(s, d) = Exporter!RegionPath(s, e)
  <2>1. ASSUME \A p, q \in DOMAIN files : p.id = q.id => p = q
        PROVE  /\ \A r, q \in own : F(r).id = F(q).id => r = q
               /\ \A r \in own : border # {} => F(r).id # <<"Boundary">>
               /\ \A d, e \in border : Exporter!RegionPath(s, d) = Exporter!RegionPath(s, e)
    BY <2>1, <1>2, <1>3, <1>7, <1>8, <1>9
  <2>2. ASSUME \A r, q \in own : F(r).id = F(q).id => r = q,
               \A r \in own : border # {} => F(r).id # <<"Boundary">>,
               \A d, e \in border : Exporter!RegionPath(s, d) = Exporter!RegionPath(s, e),
               NEW p \in DOMAIN files, NEW q \in DOMAIN files, p.id = q.id
        PROVE  p = q
    <3>1. CASE (\E r \in own : p = F(r)) /\ (\E r \in own : q = F(r))
      BY <2>2, <3>1
    <3>2. CASE (\E e \in border : p = B(e)) /\ (\E e \in border : q = B(e))
      BY <2>2, <3>2, <1>7
    <3>3. ASSUME NEW r \in own, NEW e \in border PROVE F(r).id # B(e).id
      BY <2>2, <1>7
    <3> QED BY <1>4, <2>2, <3>1, <3>2, <3>3
  <2> QED BY <2>1, <2>2
<1>14. Importable(s)
       <=> /\ \A r \in own : Placed(Exporter!RegionPath(s, r), s.containers[r].type = "ACLine")
           /\ \A e \in border : Placed(Exporter!RegionPath(s, e), FALSE)
           /\ \A r, q \in own : F(r).id = F(q).id => r = q
           /\ \A r \in own : border # {} => F(r).id # <<"Boundary">>
           /\ \A d, e \in border : Exporter!RegionPath(s, d) = Exporter!RegionPath(s, e)
           /\ \A e \in border \cup UNION {ListedIn(s, r) : r \in own} : ClassOf(s, e) # ""
  BY DEF Importable, own, border, F
<1>15. Findings(files) = {}
       <=> /\ \A p \in DOMAIN files : Classified(p) /\ files[p].parses /\ EquipmentErrors(files[p]) = {}
           /\ \A p, q \in DOMAIN files : p.id = q.id => p = q
  BY NothingFound
<1>16. Findings(files) = {} <=> Importable(s)
  BY <1>10, <1>11, <1>12, <1>13, <1>14, <1>15
<1> QED BY <1>16 DEF files

\* What Check and an import said is about the tree that is there.
VerdictInv ==
    /\ checked \in {"no", "clean", "findings"}
    /\ checked = "findings" => Findings(tree) # {}
    /\ milestone = "failed" => Aborts(tree)
    /\ errors # {} => EmitErrors(tree) # {}

LEMMA VerdictInvStep == CheckedInv /\ VerdictInv /\ [ExchangeNext]_exchangeVars => VerdictInv'
<1> SUFFICES ASSUME CheckedInv, VerdictInv, [ExchangeNext]_exchangeVars PROVE VerdictInv'
  OBVIOUS
<1> USE DEF VerdictInv
<1>1. CASE Copy \/ UNCHANGED exchangeVars
  BY <1>1 DEF Copy, exchangeVars
<1>2. CASE Export
  BY <1>2 DEF Export, CheckedInv
<1>3. ASSUME NEW files, Edit(files) PROVE VerdictInv'
  <2>1. errors' = {} /\ milestone' = "tree" /\ checked' = "no"
    BY <1>3 DEF Edit, CheckedInv
  <2> QED BY <2>1
<1>4. CASE MoveFile \/ CopyFile \/ SpoilFile \/ DropClass \/ AddConnects
  BY <1>3, <1>4, HandsEdit
<1>5. CASE Check
  BY <1>5 DEF Check
<1>6. CASE Import
  <2>1. CASE Aborts(tree)
    <3>1. milestone' = "failed" /\ UNCHANGED <<tree, checked, errors>>
      BY <1>6, <2>1 DEF Import
    <3>2. Aborts(tree)'
      BY <2>1, <3>1 DEF Aborts
    <3> QED BY <3>1, <3>2
  <2>2. CASE ~Aborts(tree)
    <3>1. milestone' = "imported" /\ errors' = EmitErrors(tree) /\ UNCHANGED <<tree, checked>>
      BY <1>6, <2>2 DEF Import
    <3> QED BY <3>1
  <2> QED BY <2>1, <2>2
<1>7. CASE ExportAgain
  BY <1>7 DEF ExportAgain
<1> QED BY <1>1, <1>2, <1>4, <1>5, <1>6, <1>7 DEF ExchangeNext

\* An exported tree that nobody touched: Check finds it clean if and only if the model is importable,
\* and then an import takes all of it.
ExportsPass ==
    milestone # "copy" /\ edits = 0 =>
        /\ checked # "no" => (checked = "clean" <=> Importable(loaded))
        /\ Importable(loaded) => milestone # "failed" /\ errors = {}

\* The half of RoundTripKeeps that says nothing is reported on the way, for all stores and models:
\* exporter and importer agree on places, names, classes and ends, whatever was exported.
THEOREM ExportedTreesImportClean == ExchangeSpec => []ExportsPass
<1>1. InitExchange => UntouchedInv /\ CheckedInv /\ VerdictInv
  BY CopyInvInit DEF InitExchange, UntouchedInv, CopyInit, CheckedInv, CheckedImportsClean, VerdictInv
<1>2. UntouchedInv /\ CheckedInv /\ VerdictInv => ExportsPass
  <2> SUFFICES ASSUME UntouchedInv, CheckedInv, VerdictInv, milestone # "copy", edits = 0
               PROVE  /\ checked # "no" => (checked = "clean" <=> Importable(loaded))
                      /\ Importable(loaded) => milestone # "failed" /\ errors = {}
    BY DEF ExportsPass
  <2>1. Exportable(loaded) /\ tree = Exporter!Build(loaded)
    BY ExportAssumption DEF UntouchedInv
  <2>2. Findings(tree) = {} <=> Importable(loaded)
    BY <2>1, ExportPassesCheck
  <2>3. Findings(tree) = {} => ~Aborts(tree) /\ EmitErrors(tree) = {}
    BY CleanFilesAreTaken
  <2> QED BY <2>2, <2>3 DEF CheckedInv, VerdictInv
<1> QED BY <1>1, <1>2, UntouchedInvStep, CheckedInvStep, VerdictInvStep, PTL DEF ExchangeSpec

-----------------------------------------------------------------------------
(* ModelExchange: attributes that are written come back.                     *)

\* A key that is written without its class comes back if it is the one the importer supposes.
SupposedClass(name, class) ==
    IF class \notin SvClasses /\ name \in DOMAIN UniqueAttrClass THEN UniqueAttrClass[name] ELSE class
Shortened(k, keys) == Exporter!Splittable(k) /\ ~Exporter!Collides(k, keys)
ComesBack(k, keys, class) ==
    k = Lead \/ (Shortened(k, keys) => k[2] # "name" /\ k[1] = SupposedClass(k[2], class))

\* What becomes of the values of a key: a number that is written as one is read as a string again,
\* and taken for kW where the key's numbers are.
Returned(k, vals) ==
    [i \in DOMAIN vals |->
        IF vals[i][1] = "float" \/ (vals[i][1] = "num" /\ Len(vals) = 1 /\ k \in Exporter!NumericAttrKeys)
        THEN <<"num", vals[i][2], IF k \in KwToMWKeys THEN vals[i][3] - 1 ELSE vals[i][3]>>
        ELSE vals[i]]

\* A value as an import stores it, of a key whose numbers keep their unit.
Plain(k, v) == v[1] \notin {"float", "num"} \/ (k \notin KwToMWKeys /\ \E n, e : v = <<"num", n, e>>)

LEMMA ListsAreFunctions == ASSUME NEW l, IsList(l) PROVE l = [i \in DOMAIN l |-> l[i]]
<1>1. l \in Seq(Range(l))
  BY DEF IsList
<1> QED BY <1>1

LEMMA KeyIsUndone ==
    ASSUME NEW c, NEW n, NEW keys, NEW class, c # ""
    PROVE  DenormalizeAttrKey(Exporter!RenderKey(<<c, n>>, keys), class) = <<c, n>>
           <=> ComesBack(<<c, n>>, keys, class)
<1> DEFINE k == <<c, n>>
           rk == Exporter!RenderKey(k, keys)
<1>0. /\ Exporter!Lead = Lead /\ Exporter!Name = Name /\ Lead # Name
      /\ k[1] = c /\ k[2] = n /\ k # Name
      /\ \A d, m : k = <<d, m>> <=> c = d /\ n = m
  BY DEF Exporter!Lead, Exporter!Name, Lead, Name
<1> HIDE DEF k
<1>1. CASE k = Lead
  <2>1. rk = Name
    BY <1>0, <1>1 DEF Exporter!RenderKey
  <2> HIDE DEF rk
  <2>2. DenormalizeAttrKey(rk, class) = Lead
    BY <2>1 DEF DenormalizeAttrKey
  <2> QED BY <1>1, <2>2 DEF ComesBack, rk, k
<1>2. CASE k # Lead /\ ~Shortened(k, keys)
  <2>1. rk = k
    BY <1>0, <1>2 DEF Exporter!RenderKey, Shortened
  <2> HIDE DEF rk
  <2>2. DenormalizeAttrKey(rk, class) = k
    BY <1>0, <2>1 DEF DenormalizeAttrKey
  <2> QED BY <1>2, <2>2 DEF ComesBack, rk, k
<1>3. CASE k # Lead /\ Shortened(k, keys)
  <2> DEFINE short == <<"", n>>
  <2>1. rk = short
    BY <1>0, <1>3 DEF Exporter!RenderKey, Shortened
  <2>2. (short = Name <=> n = "name") /\ short[1] = "" /\ short[2] = n
    BY DEF Name
  <2> HIDE DEF rk, short
  <2>3. rk # Name => DenormalizeAttrKey(rk, class) = <<SupposedClass(n, class), n>>
    BY <2>1, <2>2 DEF DenormalizeAttrKey, SupposedClass
  <2>4. rk = Name => DenormalizeAttrKey(rk, class) = Lead
    BY DEF DenormalizeAttrKey
  <2>5. DenormalizeAttrKey(rk, class) = k <=> n # "name" /\ c = SupposedClass(n, class)
    BY <1>0, <1>3, <2>1, <2>2, <2>3, <2>4
  <2> QED BY <1>0, <1>3, <2>5 DEF ComesBack, rk, k
<1> QED BY <1>1, <1>2, <1>3

\* What Write makes of the values of a key, Emit reads as Returned says.
LEMMA ValuesAreRead ==
    ASSUME NEW k, NEW vals, IsList(vals)
    PROVE  Formatted(k, IF Len(vals) = 1 THEN <<Exporter!RenderValue(k, vals[1])>> ELSE vals) = Returned(k, vals)
<1> DEFINE written == IF Len(vals) = 1 THEN <<Exporter!RenderValue(k, vals[1])>> ELSE vals
           w == [i \in DOMAIN vals |-> IF Len(vals) = 1 THEN Exporter!RenderValue(k, vals[i]) ELSE vals[i]]
<1>1. vals \in Seq(Range(vals)) /\ DOMAIN vals = 1 .. Len(vals) /\ Len(vals) \in Nat
  BY DEF IsList
<1>2. /\ DOMAIN written = DOMAIN vals
      /\ \A i \in DOMAIN vals : written[i] = IF Len(vals) = 1 THEN Exporter!RenderValue(k, vals[i]) ELSE vals[i]
  <2>1. CASE Len(vals) = 1
    <3> DEFINE v == Exporter!RenderValue(k, vals[1])
    <3>1. written = <<v>>
      BY <2>1
    <3> HIDE DEF v, written
    <3>2. DOMAIN written = 1 .. 1 /\ written[1] = v
      BY <3>1
    <3> QED BY <1>1, <2>1, <3>2 DEF v
  <2>2. CASE Len(vals) # 1
    BY <2>2
  <2> QED BY <2>1, <2>2
<1> HIDE DEF written
<1>3. ASSUME NEW i \in DOMAIN vals PROVE FormatAttrValue(k, written[i]) = Returned(k, vals)[i]
  <2> DEFINE v == vals[i]
             number == <<"num", v[2], IF k \in KwToMWKeys THEN v[3] - 1 ELSE v[3]>>
  <2>1. Returned(k, vals)[i] =
          IF v[1] = "float" \/ (v[1] = "num" /\ Len(vals) = 1 /\ k \in Exporter!NumericAttrKeys)
          THEN number ELSE v
    BY DEF Returned
  <2>2. CASE Len(vals) = 1 /\ v[1] = "num" /\ k \in Exporter!NumericAttrKeys
    <3> DEFINE f == <<"float", v[2], v[3]>>
    <3>1. written[i] = f
      BY <1>2, <2>2 DEF Exporter!RenderValue
    <3>2. FormatAttrValue(k, f) = number
      BY DEF FormatAttrValue
    <3> HIDE DEF f, number
    <3> QED BY <2>1, <2>2, <3>1, <3>2
  <2>3. CASE ~(Len(vals) = 1 /\ v[1] = "num" /\ k \in Exporter!NumericAttrKeys)
    <3>1. written[i] = v
      BY <1>2, <2>3 DEF Exporter!RenderValue
    <3>2. FormatAttrValue(k, v) = IF v[1] = "float" THEN number ELSE v
      BY DEF FormatAttrValue
    <3> HIDE DEF v, number
    <3> QED BY <2>1, <2>3, <3>1, <3>2
  <2> QED BY <2>2, <2>3
<1>4. Formatted(k, written) = [i \in DOMAIN vals |-> FormatAttrValue(k, written[i])]
  BY <1>2 DEF Formatted
<1>5. DOMAIN Returned(k, vals) = DOMAIN vals /\ Returned(k, vals) = [i \in DOMAIN vals |-> Returned(k, vals)[i]]
  BY DEF Returned
<1>6. Formatted(k, written) = Returned(k, vals)
  BY <1>3, <1>4, <1>5
<1> QED BY <1>6 DEF written

\* A block of attributes, written to a file and read from it: what is no default comes back under
\* its own key, whatever keys share a name and whatever values there are.
THEOREM WrittenComesBack ==
    ASSUME NEW b, NEW class,
           \A k \in DOMAIN b : IsList(b[k]) /\ \E c, n : k = <<c, n>> /\ c # "",
           \A k \in Exporter!Visible(b) : ComesBack(k, Exporter!Visible(b), class)
    PROVE  EntityLits(class, Exporter!Written(b)) = [k \in Exporter!Visible(b) |-> Returned(k, b[k])]
<1> DEFINE keys == Exporter!Visible(b)
           Brief(k) == Exporter!RenderKey(k, keys)
           Long(rk) == DenormalizeAttrKey(rk, class)
           Of(rk) == CHOOSE k \in keys : Brief(k) = rk
           Rendered(k) == IF Len(b[k]) = 1 THEN <<Exporter!RenderValue(k, b[k][1])>> ELSE b[k]
           short == {Brief(k) : k \in keys}
           written == Exporter!Written(b)
           From(k) == CHOOSE rk \in short : Long(rk) = k
<1>1. written = [rk \in short |-> Rendered(Of(rk))]
  BY DEF Exporter!Written
<1>2. ASSUME NEW k \in keys PROVE Long(Brief(k)) = k /\ IsList(b[k])
  <2>1. k \in DOMAIN b
    BY DEF Exporter!Visible
  <2>2. PICK c, n : k = <<c, n>> /\ c # ""
    BY <2>1
  <2>3. ComesBack(k, keys, class)
    OBVIOUS
  <2>4. DenormalizeAttrKey(Exporter!RenderKey(<<c, n>>, keys), class) = <<c, n>>
        <=> ComesBack(<<c, n>>, keys, class)
    BY <2>2, KeyIsUndone
  <2> HIDE DEF keys
  <2>5. DenormalizeAttrKey(Exporter!RenderKey(k, keys), class) = k
    BY <2>2, <2>3, <2>4
  <2> QED BY <2>1, <2>5 DEF keys
<1>3. EntityLits(class, written) = [k \in {Long(rk) : rk \in short} |-> Formatted(k, written[From(k)])]
  <2>1. EntityLits(class, written) =
          [k \in {Long(rk) : rk \in DOMAIN written} |->
             Formatted(k, written[CHOOSE rk \in DOMAIN written : Long(rk) = k])]
    BY DEF EntityLits
  <2>2. DOMAIN written = short
    BY <1>1
  <2> DEFINE G(D) == [k \in {Long(rk) : rk \in D} |-> Formatted(k, written[CHOOSE rk \in D : Long(rk) = k])]
  <2>3. EntityLits(class, written) = G(DOMAIN written)
    BY <2>1
  <2>4. G(DOMAIN written) = G(short)
    <3> HIDE DEF G, written, short
    <3> QED BY <2>2
  <2> QED BY <2>3, <2>4
<1> HIDE DEF keys, Short, Long, Rendered, written
<1>4. {Long(rk) : rk \in short} = keys
  BY <1>2
<1>5. ASSUME NEW k \in keys PROVE From(k) = Brief(k) /\ Of(Brief(k)) = k
  <2>1. Brief(k) \in short /\ Long(Brief(k)) = k
    BY <1>2
  <2>2. \A rk \in short : Long(rk) = k => rk = Brief(k)
    BY <1>2
  <2>3. \A q \in keys : Brief(q) = Brief(k) => q = k
    BY <1>2
  <2> QED BY <2>1, <2>2, <2>3
<1> HIDE DEF From, Of, short
<1>6. ASSUME NEW k \in keys PROVE Formatted(k, written[From(k)]) = Returned(k, b[k])
  <2>1. written[From(k)] = Rendered(k)
    <3>1. Brief(k) \in short
      BY DEF short
    <3> QED BY <1>1, <1>5, <3>1
  <2>2. Formatted(k, Rendered(k)) = Returned(k, b[k])
    BY <1>2, ValuesAreRead DEF Rendered
  <2> QED BY <2>1, <2>2
<1>7. EntityLits(class, written) = [k \in keys |-> Returned(k, b[k])]
  BY <1>3, <1>4, <1>6
<1> QED BY <1>7 DEF keys, written

\* The attributes of an object but for those the program keeps for itself; and what they must be to
\* survive: strings as an import stores them, under keys that come back.
OwnAttrs(s, o) == Without(At(s.attrs, o, NoAttrs), {Class, Satellite, BusbarNode})
Storable(attrs, class) ==
    /\ \A k \in DOMAIN attrs : /\ IsList(attrs[k]) /\ \E c, n : k = <<c, n>> /\ c # ""
                              /\ \A v \in Range(attrs[k]) : Plain(k, v)
    /\ \A k \in Exporter!Visible(attrs) : ComesBack(k, Exporter!Visible(attrs), class)

\* The attributes of an object as a model has them after an import: every one that is no default
\* comes back as it was.
THEOREM AttributesSurvive ==
    ASSUME NEW s, NEW o, NEW class, Storable(OwnAttrs(s, o), class)
    PROVE  EntityLits(class, Exporter!Written(Exporter!Attributes(s, o, {Class}))) = Shown(OwnAttrs(s, o))
<1> DEFINE a == OwnAttrs(s, o)
<1>0. /\ \A k \in DOMAIN a : /\ IsList(a[k]) /\ \E c, n : k = <<c, n>> /\ c # ""
                            /\ \A v \in Range(a[k]) : Plain(k, v)
      /\ \A k \in Exporter!Visible(a) : ComesBack(k, Exporter!Visible(a), class)
      /\ a = Without(At(s.attrs, o, NoAttrs), {Class, Satellite, BusbarNode})
  BY DEF Storable, OwnAttrs
<1> HIDE DEF a
<1>1. Exporter!Attributes(s, o, {Class}) = a
  <2> DEFINE Scaled(k, v) == IF k \in Exporter!KwToMWKeys /\ v[1] = "float" THEN <<"float", v[2], v[3] + 1>> ELSE v
             b == Exporter!Without(Exporter!At(s.attrs, o, Exporter!NoAttrs),
                                   {Class} \cup {Exporter!Satellite, Exporter!BusbarNode})
  <2>1. b = a
    BY DEF Exporter!Without, Without, Exporter!At, At, Exporter!NoAttrs, NoAttrs, Exporter!Satellite, Satellite,
           Exporter!BusbarNode, BusbarNode, Exporter!Restrict, Restrict, a, OwnAttrs
  <2>2. Exporter!Attributes(s, o, {Class}) = [k \in DOMAIN b |-> [i \in DOMAIN b[k] |-> Scaled(k, b[k][i])]]
    BY DEF Exporter!Attributes
  <2>3. a = [k \in DOMAIN a |-> a[k]]
    BY <1>0 DEF Without, Restrict
  <2>4. ASSUME NEW k \in DOMAIN a PROVE [i \in DOMAIN a[k] |-> Scaled(k, a[k][i])] = a[k]
    <3> DEFINE vals == a[k]
    <3>1. IsList(vals) /\ \A v \in Range(vals) : Plain(k, v)
      BY <1>0
    <3>2. ASSUME NEW i \in DOMAIN vals PROVE Scaled(k, vals[i]) = vals[i]
      <4> HIDE DEF vals
      <4> DEFINE v == vals[i]
      <4>1. Plain(k, v)
        BY <3>1 DEF Range
      <4> HIDE DEF v
      <4>2. v[1] # "float"
        <5>1. CASE v[1] \notin {"float", "num"}
          BY <5>1
        <5>2. ASSUME NEW n, NEW e, v = <<"num", n, e>> PROVE v[1] # "float"
          BY <5>2
        <5> QED BY <4>1, <5>1, <5>2 DEF Plain
      <4>3. Scaled(k, v) = v
        BY <4>2
      <4> QED BY <4>3 DEF v
    <3> HIDE DEF Scaled, vals
    <3>3. vals = [i \in DOMAIN vals |-> vals[i]]
      BY <3>1, ListsAreFunctions
    <3>4. [i \in DOMAIN vals |-> Scaled(k, vals[i])] = vals
      BY <3>2, <3>3
    <3> QED BY <3>4 DEF vals
  <2> HIDE DEF b, Scaled
  <2>5. [k \in DOMAIN a |-> [i \in DOMAIN a[k] |-> Scaled(k, a[k][i])]] = [k \in DOMAIN a |-> a[k]]
    BY <2>4
  <2> QED BY <2>1, <2>2, <2>3, <2>5
<1>2. EntityLits(class, Exporter!Written(a)) = [k \in Exporter!Visible(a) |-> Returned(k, a[k])]
  <2>1. \A k \in DOMAIN a : IsList(a[k]) /\ \E c, n : k = <<c, n>> /\ c # ""
    BY <1>0
  <2> QED BY <1>0, <2>1, WrittenComesBack
<1>3. ASSUME NEW k \in Exporter!Visible(a) PROVE Returned(k, a[k]) = a[k]
  <2> DEFINE vals == a[k]
  <2>1. k \in DOMAIN a
    BY DEF Exporter!Visible
  <2>2. IsList(vals) /\ \A v \in Range(vals) : Plain(k, v)
    BY <1>0, <2>1
  <2> HIDE DEF vals
  <2>3. ASSUME NEW i \in DOMAIN vals PROVE Returned(k, vals)[i] = vals[i]
    <3> DEFINE v == vals[i]
    <3>1. v \in Range(vals)
      BY DEF Range
    <3>2. Returned(k, vals)[i] =
            IF v[1] = "float" \/ (v[1] = "num" /\ Len(vals) = 1 /\ k \in Exporter!NumericAttrKeys)
            THEN <<"num", v[2], IF k \in KwToMWKeys THEN v[3] - 1 ELSE v[3]>> ELSE v
      BY DEF Returned
    <3> HIDE DEF v
    <3>3. CASE v[1] \notin {"float", "num"}
      BY <3>2, <3>3 DEF v
    <3>4. CASE k \notin KwToMWKeys /\ \E n, e : v = <<"num", n, e>>
      <4>1. PICK n, e : v = <<"num", n, e>>
        BY <3>4
      <4>2. v[1] = "num" /\ v[2] = n /\ v[3] = e
        BY <4>1
      <4>3. Returned(k, vals)[i] = v
        BY <3>2, <3>4, <4>1, <4>2
      <4> QED BY <4>3 DEF v
    <3> QED BY <2>2, <3>1, <3>3, <3>4 DEF Plain
  <2>4. vals = [i \in DOMAIN vals |-> vals[i]]
    BY <2>2, ListsAreFunctions
  <2>5. Returned(k, vals) = [i \in DOMAIN vals |-> Returned(k, vals)[i]]
    BY DEF Returned
  <2>6. Returned(k, vals) = vals
    BY <2>3, <2>4, <2>5
  <2> QED BY <2>6 DEF vals
<1>4. Shown(a) = [k \in Exporter!Visible(a) |-> a[k]]
  <2>1. Satellite \notin DOMAIN a /\ Exporter!Visible(a) \subseteq DOMAIN a
    BY <1>0 DEF Exporter!Visible, Without, Restrict
  <2>2. Shown(a) = [k \in Exporter!Visible(a) \ {Satellite} |-> a[k]]
    BY DEF Shown, Restrict
  <2>3. Exporter!Visible(a) \ {Satellite} = Exporter!Visible(a)
    BY <2>1
  <2> QED BY <2>2, <2>3
<1>5. EntityLits(class, Exporter!Written(Exporter!Attributes(s, o, {Class}))) = Shown(a)
  BY <1>1, <1>2, <1>3, <1>4
<1> QED BY <1>5 DEF a

-----------------------------------------------------------------------------
(* ModelExchange: equipment that is exported is staged again.                *)

\* A name that is no local one and none of a cable; what an entry says of the ends of its equipment;
\* and a staging object that says of equipment what the model did.
IsName(n) == n \in {NoID, GND} \/ (IsList(n) /\ n[1] \notin {"@", "acline:"})
EndsWritten(s, e) ==
    LET edge == At(s.edges, e, <<>>) IN IF Len(edge) = 2 /\ edge[2] = GND THEN <<edge[1]>> ELSE edge
HasClass(s, e) == ClassOf(s, e) # ""
SaysOf(o, s, e, class, ends) ==
    o.id = e /\ o.class = class /\ o.lits = Shown(OwnAttrs(s, e)) /\ o.ends = ends

\* What no import refuses it takes.
LEMMA FilesAreTaken ==
    ASSUME NEW s, Exportable(s), Importable(s)
    PROVE  Taken(Exporter!Build(s)) = DOMAIN Exporter!Build(s)
<1> DEFINE files == Exporter!Build(s)
<1>1. Findings(files) = {}
  BY ExportPassesCheck
<1> HIDE DEF files
<1>2. /\ \A p \in DOMAIN files : files[p].parses
      /\ \A p, q \in DOMAIN files : p.id = q.id => p = q
  BY <1>1, NothingFound
<1>3. Taken(files) = DOMAIN files
  BY <1>2 DEF Taken, Duplicate
<1> QED BY <1>3 DEF files

\* The ends of an edge are names that an import resolves; no node is named like a cable.
LEMMA EndsAreNames ==
    ASSUME NEW s, Exportable(s), NEW e \in DOMAIN s.edges, NEW i \in 1 .. 2
    PROVE  IsName(s.edges[e][i]) /\ DOMAIN s.edges[e] = 1 .. 2
<1> DEFINE edge == s.edges[e]
<1>1. edge \in Seq(Range(edge)) /\ Len(edge) = 2
  BY DEF Exportable, IsList
<1>2. DOMAIN edge = 1 .. 2 /\ Exporter!At(s.edges, e, <<>>) = edge
  BY <1>1 DEF Exporter!At
<1>3. edge[i] \in {NoID, GND} \/ edge[i] \in Exporter!Ends(s, e)
  <2> HIDE DEF edge
  <2> QED BY <1>2, SameNames DEF Exporter!Ends, Exporter!Range
<1>4. IsName(edge[i])
  BY <1>3 DEF IsName, Exportable
<1> QED BY <1>2, <1>4

\* What is written of an edge's ends is again a list of names.
LEMMA ListOfOne ==
    ASSUME NEW n, NEW w, w = <<n>>
    PROVE  DOMAIN w = {1} /\ w[1] = n /\ w = [i \in DOMAIN w |-> w[i]]
<1>1. w \in Seq({n}) /\ Len(w) = 1 /\ w[1] = n
  OBVIOUS
<1> QED BY <1>1

LEMMA ListOfNone == ASSUME NEW w, w = <<>> PROVE DOMAIN w = {} /\ w = [i \in DOMAIN w |-> w[i]]
<1>1. w \in Seq({}) /\ Len(w) = 0
  OBVIOUS
<1> QED BY <1>1

LEMMA EndsAreWired ==
    ASSUME NEW s, Exportable(s), NEW e
    PROVE  LET wired == EndsWritten(s, e)
           IN  wired = [i \in DOMAIN wired |-> wired[i]] /\ \A i \in DOMAIN wired : IsName(wired[i])
<1> DEFINE edge == At(s.edges, e, <<>>)
           wired == EndsWritten(s, e)
<1>1. CASE e \notin DOMAIN s.edges
  <2>1. edge = <<>>
    BY <1>1 DEF At
  <2>2. Len(edge) # 2
    BY <2>1
  <2>3. wired = edge
    BY <2>2 DEF EndsWritten
  <2> HIDE DEF edge, wired
  <2>4. DOMAIN wired = {} /\ wired = [i \in DOMAIN wired |-> wired[i]]
    BY <2>1, <2>3, ListOfNone
  <2> QED BY <2>4 DEF wired
<1>2. CASE e \in DOMAIN s.edges
  <2>1. edge = s.edges[e]
    BY <1>2 DEF At
  <2>2. IsList(edge)
    BY <1>2, <2>1 DEF Exportable
  <2>3. DOMAIN s.edges[e] = 1 .. 2 /\ \A i \in 1 .. 2 : IsName(s.edges[e][i])
    BY <1>2, EndsAreNames
  <2>4. wired = <<edge[1]>> \/ wired = edge
    BY DEF EndsWritten
  <2> HIDE DEF edge, wired
  <2>5. CASE wired = <<edge[1]>>
    <3>1. IsName(edge[1])
      BY <2>1, <2>3
    <3>2. DOMAIN wired = {1} /\ wired[1] = edge[1] /\ wired = [i \in DOMAIN wired |-> wired[i]]
      BY <2>5, ListOfOne
    <3> QED BY <3>1, <3>2 DEF wired
  <2>6. CASE wired = edge
    <3>1. edge = [i \in DOMAIN edge |-> edge[i]]
      BY <2>2, ListsAreFunctions
    <3>2. \A i \in DOMAIN edge : IsName(edge[i])
      BY <2>1, <2>3
    <3> QED BY <2>6, <3>1, <3>2 DEF wired
  <2> QED BY <2>4, <2>5, <2>6
<1> QED BY <1>1, <1>2

\* The references of a staging object: one to its Location, one to where it is.
LEMMA LocationIsOnlyThat ==
    ASSUME NEW owner, NEW points, NEW x \in LocationRefs(owner, points)
    PROVE  x[1] # "Equipment.EquipmentContainer"
<1>1. x = <<"PowerSystemResource.Location", LocationOf(owner)>>
  BY DEF LocationRefs
<1> DEFINE loc == LocationOf(owner)
<1> HIDE DEF loc
<1>2. x = <<"PowerSystemResource.Location", loc>>
  BY <1>1 DEF loc
<1>3. x[1] = "PowerSystemResource.Location"
  BY <1>2
<1> QED BY <1>3

LEMMA OneReference ==
    ASSUME NEW o, NEW name, NEW t, <<name, t>> \in o.refs, \A x \in o.refs : x[1] = name => x = <<name, t>>
    PROVE  RefsOf(o, name) = {t} /\ Ref(o, name) = t
<1> DEFINE here == {r \in o.refs : r[1] = name}
           pair == <<name, t>>
<1>1. pair[1] = name /\ pair[2] = t
  OBVIOUS
<1> HIDE DEF pair
<1>2. here = {pair}
  BY <1>1 DEF pair
<1> HIDE DEF here
<1>3. {r[2] : r \in here} = {t}
  BY <1>1, <1>2
<1>4. RefsOf(o, name) = {t}
  BY <1>3 DEF RefsOf, here
<1> QED BY <1>4 DEF Ref

\* An entry of a file, read with the ID of the file.
LEMMA EntryIsStaged ==
    ASSUME NEW s, Exportable(s), NEW e, NEW root, NEW id, NEW from, NEW kinds, NEW container,
           IsName(e), \A n : IsName(n) => ResolveID(id, Exporter!Shorten(root, n)) = n,
           HasClass(s, e), Storable(OwnAttrs(s, e), ClassOf(s, e))
    PROVE  \E o \in EquipmentObjects(id, Exporter!EquipmentEntry(s, root, e, from, kinds), container) :
              /\ SaysOf(o, s, e, ClassOf(s, e), EndsWritten(s, e))
              /\ container # NoID => RefsOf(o, "Equipment.EquipmentContainer") = {container}
<1> DEFINE edge == Exporter!At(s.edges, e, <<>>)
           wired == IF Len(edge) = 2 /\ edge[2] = Exporter!GND THEN <<edge[1]>> ELSE edge
           C(n) == Exporter!Connect(s, root, n, from, kinds)
           connects == [i \in DOMAIN wired |-> C(wired[i])]
           q == Exporter!EquipmentEntry(s, root, e, from, kinds)
           refs == LocationRefs(e, PointSeq(q.geometry))
                   \cup (IF container = NoID THEN {} ELSE {<<"Equipment.EquipmentContainer", container>>})
           lits == EntityLits(q.class, q.attributes)
           ends == Wired(id, q.connects)
           class == q.class
           o == Object(e, class, lits, refs, ends)
<1>1. /\ q.class = ClassOf(s, e) /\ q.connects = connects /\ q.id = Exporter!Shorten(root, e)
      /\ q.attributes = Exporter!Written(Exporter!Attributes(s, e, {Class}))
  BY DEF Exporter!EquipmentEntry, ClassOf, Exporter!Class, Class
<1>2. ~(Len(q.connects) > 2)
  BY EntryIsWellFormed DEF Exportable
<1>3. EntityLits(q.class, q.attributes) = Shown(OwnAttrs(s, e))
  BY <1>1, AttributesSurvive
<1>4. wired = EndsWritten(s, e)
  BY SameNames DEF EndsWritten, Exporter!At, At
<1> HIDE DEF q
<1>5. ResolveID(id, q.id) = e
  BY <1>1
<1>6. o \in EquipmentObjects(id, q, container)
  <2>1. q.class # ""
    BY <1>1 DEF HasClass
  <2> QED BY <1>2, <1>5, <2>1 DEF EquipmentObjects
<1>7. wired = [i \in DOMAIN wired |-> wired[i]] /\ \A i \in DOMAIN wired : IsName(wired[i])
  BY <1>4, EndsAreWired
<1> HIDE DEF edge, wired
<1>8. Wired(id, connects) = wired
  <2>1. \A n : C(n).node = Exporter!Shorten(root, n)
    BY DEF Exporter!Connect
  <2> HIDE DEF C
  <2>2. Wired(id, connects) = [i \in DOMAIN wired |-> ResolveID(id, Exporter!Shorten(root, wired[i]))]
    BY <2>1 DEF Wired
  <2> QED BY <1>7, <2>2
<1>9. SaysOf(o, s, e, ClassOf(s, e), EndsWritten(s, e)) /\ o.refs = refs
  <2>1. lits = Shown(OwnAttrs(s, e)) /\ ends = EndsWritten(s, e) /\ class = ClassOf(s, e)
    BY <1>1, <1>3, <1>4, <1>8
  <2> HIDE DEF lits, ends, refs, class
  <2>2. o.id = e /\ o.class = class /\ o.lits = lits /\ o.refs = refs /\ o.ends = ends
    BY DEF Object
  <2> HIDE DEF o
  <2> QED BY <2>1, <2>2 DEF SaysOf
<1>10. container # NoID => RefsOf(o, "Equipment.EquipmentContainer") = {container}
  <2> SUFFICES ASSUME container # NoID PROVE RefsOf(o, "Equipment.EquipmentContainer") = {container}
    OBVIOUS
  <2> DEFINE location == LocationRefs(e, PointSeq(q.geometry))
             name == "Equipment.EquipmentContainer"
  <2>1. \A x \in location : x[1] # name
    BY LocationIsOnlyThat
  <2>2. o.refs = location \cup {<<name, container>>}
    BY <1>9
  <2> HIDE DEF o, location, name
  <2>3. <<name, container>> \in o.refs /\ \A x \in o.refs : x[1] = name => x = <<name, container>>
    BY <2>1, <2>2
  <2>4. RefsOf(o, name) = {container}
    BY <2>3, OneReference
  <2> QED BY <2>4 DEF name
<1> HIDE DEF o
<1> QED BY <1>6, <1>9, <1>10 DEF q

\* A segment of a file, read with the ID of the file.
LEMMA SegmentIsStaged ==
    ASSUME NEW s, Exportable(s), NEW e, NEW root, NEW id, NEW from, NEW kinds,
           IsName(e), \A n : IsName(n) => ResolveID(id, Exporter!Shorten(root, n)) = n,
           Storable(OwnAttrs(s, e), "ACLineSegment")
    PROVE  \E o \in SegmentObjects(id, Exporter!SegmentEntry(s, root, e, from, kinds)) :
              SaysOf(o, s, e, "ACLineSegment", At(s.edges, e, <<NoID, NoID>>))
<1> DEFINE edge == Exporter!At(s.edges, e, <<Exporter!NoID, Exporter!NoID>>)
           C(n) == Exporter!Connect(s, root, n, from, kinds)
           connects == [i \in 1 .. 2 |-> C(edge[i])]
           q == Exporter!SegmentEntry(s, root, e, from, kinds)
           refs == LocationRefs(e, q.geometry)
           lits == EntityLits("ACLineSegment", q.attributes)
           ends == Wired(id, q.connects)
           o == Object(e, "ACLineSegment", lits, refs, ends)
<1>1. /\ q.connects = connects /\ q.id = Exporter!Shorten(root, e)
      /\ q.attributes = Exporter!Written(Exporter!Attributes(s, e, {Class}))
  BY DEF Exporter!SegmentEntry, Exporter!Class, Class
<1>2. EntityLits("ACLineSegment", q.attributes) = Shown(OwnAttrs(s, e))
  BY <1>1, AttributesSurvive
<1>3. edge = At(s.edges, e, <<NoID, NoID>>)
  BY SameNames DEF Exporter!At, At
<1> HIDE DEF q
<1>4. ResolveID(id, q.id) = e
  BY <1>1
<1>5. o \in SegmentObjects(id, q)
  BY <1>4 DEF SegmentObjects
<1>6. edge = [i \in 1 .. 2 |-> edge[i]] /\ \A i \in 1 .. 2 : IsName(edge[i])
  <2>1. CASE e \notin DOMAIN s.edges
    <3> DEFINE n == NoID
    <3>1. edge = <<n, n>>
      BY <2>1, SameNames DEF Exporter!At
    <3>2. IsName(n)
      BY DEF IsName
    <3> HIDE DEF edge, n
    <3>3. edge \in Seq({n}) /\ Len(edge) = 2 /\ edge[1] = n /\ edge[2] = n
      BY <3>1
    <3> QED BY <3>2, <3>3
  <2>2. CASE e \in DOMAIN s.edges
    <3>1. edge = s.edges[e]
      BY <2>2 DEF Exporter!At
    <3>2. IsList(edge)
      BY <2>2, <3>1 DEF Exportable
    <3>3. DOMAIN s.edges[e] = 1 .. 2 /\ \A i \in 1 .. 2 : IsName(s.edges[e][i])
      BY <2>2, EndsAreNames
    <3>4. edge = [i \in DOMAIN edge |-> edge[i]]
      BY <3>2, ListsAreFunctions
    <3> HIDE DEF edge
    <3> QED BY <3>1, <3>3, <3>4
  <2> QED BY <2>1, <2>2
<1> HIDE DEF edge
<1>7. Wired(id, connects) = edge
  <2>1. \A n : C(n).node = Exporter!Shorten(root, n)
    BY DEF Exporter!Connect
  <2> HIDE DEF C
  <2>2. Wired(id, connects) = [i \in 1 .. 2 |-> ResolveID(id, Exporter!Shorten(root, edge[i]))]
    BY <2>1 DEF Wired
  <2> QED BY <1>6, <2>2
<1>8. SaysOf(o, s, e, "ACLineSegment", At(s.edges, e, <<NoID, NoID>>))
  <2>1. lits = Shown(OwnAttrs(s, e)) /\ ends = At(s.edges, e, <<NoID, NoID>>)
    BY <1>1, <1>2, <1>3, <1>7
  <2> HIDE DEF lits, ends, refs
  <2>2. o.id = e /\ o.class = "ACLineSegment" /\ o.lits = lits /\ o.ends = ends
    BY DEF Object
  <2> HIDE DEF o
  <2> QED BY <2>1, <2>2 DEF SaysOf
<1> HIDE DEF o
<1> QED BY <1>5, <1>8 DEF q

\* Which parts of a file become objects.
LEMMA ObjectsOfFile ==
    ASSUME NEW p, NEW doc
    PROVE  /\ DirOf(p) \in {"ONS", "KVS"} =>
                /\ \A q \in doc.equipments : EquipmentObjects(p.id, q, p.id) \subseteq FileObjects(p, doc)
                /\ \A b \in doc.bays : BayObjects(p.id, b) \subseteq FileObjects(p, doc)
                /\ ContainerObjects(p, "Substation", doc) \subseteq FileObjects(p, doc)
           /\ DirOf(p) \in {"ONS", "KVS", "Kabel"} =>
                \A q \in doc.segments : SegmentObjects(p.id, q) \subseteq FileObjects(p, doc)
           /\ DirOf(p) = "Haushalte" =>
                /\ \A q \in doc.equipments : EquipmentObjects(p.id, q, p.id) \subseteq FileObjects(p, doc)
                /\ ContainerObjects(p, "Building", doc) \subseteq FileObjects(p, doc)
           /\ DirOf(p) = BoundaryDir =>
                \A q \in doc.equipments : EquipmentObjects(p.id, q, NoID) \subseteq FileObjects(p, doc)
<1> DEFINE Own(c) == UNION {EquipmentObjects(p.id, q, c) : q \in doc.equipments}
           segments == UNION {SegmentObjects(p.id, q) : q \in doc.segments}
           busbars == UNION {BusbarObjects(p.id, b) : b \in doc.busbars}
           bays == UNION {BayObjects(p.id, b) : b \in doc.bays}
           station == ContainerObjects(p, "Substation", doc)
           house == ContainerObjects(p, "Building", doc)
           all == FileObjects(p, doc)
<1>1. all = CASE DirOf(p) \in {"ONS", "KVS"} -> station \cup Own(p.id) \cup segments \cup busbars \cup bays
              [] DirOf(p) = "Kabel" -> segments
              [] DirOf(p) = "Haushalte" -> house \cup Own(p.id)
              [] DirOf(p) = BoundaryDir -> Own(NoID)
  BY DEF FileObjects
<1>2. /\ \A c : \A q \in doc.equipments : EquipmentObjects(p.id, q, c) \subseteq Own(c)
      /\ \A q \in doc.segments : SegmentObjects(p.id, q) \subseteq segments
      /\ \A b \in doc.bays : BayObjects(p.id, b) \subseteq bays
  OBVIOUS
<1> HIDE DEF Own, segments, busbars, bays, station, house, all
<1>3. DirOf(p) \in {"ONS", "KVS"} =>
        Own(p.id) \subseteq all /\ segments \subseteq all /\ bays \subseteq all /\ station \subseteq all
  BY <1>1 DEF BoundaryDir
<1>4. DirOf(p) = "Kabel" => all = segments
  BY <1>1 DEF BoundaryDir
<1>5. DirOf(p) = "Haushalte" => Own(p.id) \subseteq all /\ house \subseteq all
  BY <1>1 DEF BoundaryDir
<1>6. DirOf(p) = BoundaryDir => all = Own(NoID)
  BY <1>1 DEF BoundaryDir
<1> QED BY <1>2, <1>3, <1>4, <1>5, <1>6 DEF all, station, house

\* Equipment that a file lists with its class is staged again under its ID, with the class, the
\* attributes and the ends it had, and refers to the container it was in.
THEOREM EquipmentComesBack ==
    ASSUME NEW s, Exportable(s), Importable(s), NEW r \in OwnRoots(s), NEW e \in ListedIn(s, r),
           IsName(e), IsName(s.equipment[e]), s.equipment[e] # NoID,
           Storable(OwnAttrs(s, e), ClassOf(s, e))
    PROVE  \E o \in Emit(Exporter!Build(s)) :
              /\ SaysOf(o, s, e, ClassOf(s, e), EndsWritten(s, e))
              /\ RefsOf(o, "Equipment.EquipmentContainer") = {s.equipment[e]}
<1> DEFINE p == Exporter!FileOf(s, r)
           doc == Exporter!Document(s, r)
           type == s.containers[r].type
           Entry == Exporter!EquipmentEntry(s, r, e, p.dir, {"ACLine"})
           c == s.equipment[e]
           bays == Exporter!Children(s, r, "Bay")
           Bay(b) == [id |-> Exporter!Shorten(r, b),
                      attributes |-> Exporter!Written(Exporter!Attributes(s, b, {})),
                      equipments |-> EntriesIn(s, r, b)]
<1>1. r \in Exporter!Roots(s) /\ p \in DOMAIN Exporter!Build(s) /\ Exporter!Build(s)[p] = doc
  BY FilesOfBuild DEF OwnRoots
<1>2. p \in Taken(Exporter!Build(s))
  BY <1>1, FilesAreTaken
<1>3. \A n : IsName(n) => ResolveID(p.id, Exporter!Shorten(r, n)) = n
  BY <1>1, NodeIsResolved DEF IsName
<1>4. HasClass(s, e)
  BY DEF Importable, HasClass
<1>5. \E o \in EquipmentObjects(p.id, Entry, c) :
         SaysOf(o, s, e, ClassOf(s, e), EndsWritten(s, e)) /\ RefsOf(o, "Equipment.EquipmentContainer") = {c}
  <2> HIDE DEF p, c
  <2>1. \E o \in EquipmentObjects(p.id, Entry, c) :
           /\ SaysOf(o, s, e, ClassOf(s, e), EndsWritten(s, e))
           /\ c # NoID => RefsOf(o, "Equipment.EquipmentContainer") = {c}
    BY <1>3, <1>4, EntryIsStaged
  <2> QED BY <2>1 DEF c
<1>6. type \in StationTypes \cup {"House"} /\ DirOf(p) = DirForType[type]
  <2>1. type \in RootTypes /\ type # "ACLine"
    BY <1>1, SameNames DEF Exporter!Roots, ListedIn
  <2>2. type \in StationTypes \cup {"House"}
    BY <2>1, SameNames DEF StationTypes
  <2> QED BY <1>1, <2>2, PlaceOfFile
<1>7. EquipmentObjects(p.id, Entry, c) \subseteq FileObjects(p, doc)
  <2>1. CASE c = r
    <3>1. e \in Exporter!EquipmentOf(s, r)
      <4>1. e \in DOMAIN s.equipment
        BY DEF ListedIn, Exporter!EquipmentOf
      <4> QED BY <2>1, <4>1 DEF Exporter!EquipmentOf
    <3>2. Entry \in EntriesIn(s, r, r)
      BY <3>1 DEF EntriesIn
    <3>3. doc.equipments = EntriesIn(s, r, r)
      BY <1>1, <1>6, PartsOfDocument
    <3>4. p.id = r
      BY <1>1, <1>6, PlaceOfFile DEF StationTypes
    <3>5. DirOf(p) \in {"ONS", "KVS", "Haushalte"}
      BY <1>6 DEF StationTypes, DirForType
    <3> HIDE DEF Entry, doc, p
    <3> QED BY <2>1, <3>2, <3>3, <3>4, <3>5, ObjectsOfFile
  <2>2. CASE c # r
    <3>1. type \in StationTypes /\ c \in bays /\ e \in Exporter!EquipmentOf(s, c)
      BY <2>2 DEF ListedIn, Exporter!EquipmentOf
    <3>2. Entry \in EntriesIn(s, r, c)
      BY <3>1 DEF EntriesIn
    <3>3. doc.bays = {Bay(b) : b \in bays}
      BY <1>1, <3>1, PartsOfDocument
    <3>4. Bay(c) \in doc.bays /\ Bay(c).id = Exporter!Shorten(r, c) /\ Bay(c).equipments = EntriesIn(s, r, c)
      BY <3>1, <3>3
    <3>5. p.id = r /\ ResolveID(p.id, Exporter!Shorten(r, c)) = c
      BY <1>1, <1>3, <3>1, PlaceOfFile DEF StationTypes
    <3>6. DirOf(p) \in {"ONS", "KVS"}
      BY <1>6, <3>1 DEF StationTypes, DirForType
    <3> DEFINE bay == Bay(c)
    <3> HIDE DEF Entry, doc, p, bay, bays
    <3>7. bay \in doc.bays /\ ResolveID(p.id, bay.id) = c /\ Entry \in bay.equipments
      BY <3>2, <3>4, <3>5 DEF bay
    <3>8. EquipmentObjects(p.id, Entry, c) \subseteq BayObjects(p.id, bay)
      BY <3>7 DEF BayObjects
    <3>9. BayObjects(p.id, bay) \subseteq FileObjects(p, doc)
      BY <3>6, <3>7, ObjectsOfFile
    <3> QED BY <3>8, <3>9
  <2> QED BY <2>1, <2>2
<1> HIDE DEF p, doc, Entry, c
<1>8. PICK o \in FileObjects(p, doc) :
         SaysOf(o, s, e, ClassOf(s, e), EndsWritten(s, e)) /\ RefsOf(o, "Equipment.EquipmentContainer") = {c}
  BY <1>5, <1>7
<1>9. o \in Emit(Exporter!Build(s))
  <2>1. o.refs # {}
    BY <1>8 DEF RefsOf
  <2> QED BY <1>1, <1>2, <1>8, <2>1 DEF Emit
<1> QED BY <1>8, <1>9 DEF c

\* The segments of a cable, in its own file or folded into that of a station, are staged again with
\* both their ends.
THEOREM SegmentsComeBack ==
    ASSUME NEW s, Exportable(s), Importable(s), NEW r \in OwnRoots(s),
           NEW e \in StandsIn(s, r) \ ListedIn(s, r),
           IsName(e), Storable(OwnAttrs(s, e), "ACLineSegment"), Shown(OwnAttrs(s, e)) # NoAttrs
    PROVE  \E o \in Emit(Exporter!Build(s)) :
              SaysOf(o, s, e, "ACLineSegment", At(s.edges, e, <<NoID, NoID>>))
<1> DEFINE p == Exporter!FileOf(s, r)
           doc == Exporter!Document(s, r)
           type == s.containers[r].type
           Segment == Exporter!SegmentEntry(s, r, e, p.dir, KindsFrom(s, r))
<1>1. r \in Exporter!Roots(s) /\ p \in DOMAIN Exporter!Build(s) /\ Exporter!Build(s)[p] = doc
  BY FilesOfBuild DEF OwnRoots
<1>2. p \in Taken(Exporter!Build(s))
  BY <1>1, FilesAreTaken
<1>3. \A n : IsName(n) => ResolveID(p.id, Exporter!Shorten(r, n)) = n
  BY <1>1, NodeIsResolved DEF IsName
<1>4. \E o \in SegmentObjects(p.id, Segment) : SaysOf(o, s, e, "ACLineSegment", At(s.edges, e, <<NoID, NoID>>))
  <2> HIDE DEF p
  <2> QED BY <1>3, SegmentIsStaged
<1>5. Segment \in doc.segments /\ DirOf(p) \in {"ONS", "KVS", "Kabel"}
  <2>1. CASE type = "ACLine"
    <3>1. e \in Exporter!EquipmentOf(s, r)
      BY <2>1 DEF StandsIn, StationTypes
    <3>2. doc.segments = SegmentsOf(s, r, Exporter!EquipmentOf(s, r))
      BY <1>1, <2>1, PartsOfDocument
    <3>3. DirOf(p) = "Kabel"
      BY <1>1, <2>1, PlaceOfFile DEF DirForType
    <3> QED BY <3>1, <3>2, <3>3 DEF SegmentsOf
  <2>2. CASE type # "ACLine"
    <3>1. type \in StationTypes /\ e \in UNION {Exporter!EquipmentOf(s, c) : c \in FoldedInto(s, r)}
      BY <2>2 DEF StandsIn, ListedIn, FoldedInto
    <3>2. doc.segments = SegmentsOf(s, r, UNION {Exporter!EquipmentOf(s, c) : c \in FoldedInto(s, r)})
      BY <1>1, <3>1, PartsOfDocument
    <3>3. DirOf(p) \in {"ONS", "KVS"}
      BY <1>1, <3>1, PlaceOfFile DEF DirForType, StationTypes
    <3> QED BY <3>1, <3>2, <3>3 DEF SegmentsOf
  <2> QED BY <2>1, <2>2
<1> HIDE DEF p, doc, Segment
<1>6. SegmentObjects(p.id, Segment) \subseteq FileObjects(p, doc)
  BY <1>5, ObjectsOfFile
<1>7. PICK o \in FileObjects(p, doc) : SaysOf(o, s, e, "ACLineSegment", At(s.edges, e, <<NoID, NoID>>))
  BY <1>4, <1>6
<1>8. o \in Emit(Exporter!Build(s))
  BY <1>1, <1>2, <1>7 DEF Emit, SaysOf
<1> QED BY <1>7, <1>8

\* Equipment at the border, which is in no container, is staged again from the file of its region.
THEOREM BorderComesBack ==
    ASSUME NEW s, Exportable(s), Importable(s), NEW e \in Exporter!Orphans(s),
           IsName(e), Storable(OwnAttrs(s, e), ClassOf(s, e)), Shown(OwnAttrs(s, e)) # NoAttrs
    PROVE  \E o \in Emit(Exporter!Build(s)) : SaysOf(o, s, e, ClassOf(s, e), EndsWritten(s, e))
<1> DEFINE p == Exporter!BoundaryPath(s, e)
           doc == Exporter!BoundaryFile(s, p)
           Entry == Exporter!EquipmentEntry(s, NoID, e, p.dir, {})
<1>1. DirOf(p) = BoundaryDir /\ p \in DOMAIN Exporter!Build(s) /\ Exporter!Build(s)[p] = doc
  BY BoundaryOfBuild
<1>2. p \in Taken(Exporter!Build(s))
  BY <1>1, FilesAreTaken
<1>3. p.id = <<"Boundary">>
  BY DEF Exporter!BoundaryPath
<1>4. ASSUME NEW n, IsName(n) PROVE ResolveID(p.id, Exporter!Shorten(NoID, n)) = n
  <2>1. Exporter!Shorten(NoID, n) = n
    BY SameNames DEF Exporter!Shorten
  <2>2. n = NoID \/ n[1] # "@"
    BY <1>4 DEF IsName, NoID, GND
  <2> QED BY <2>1, <2>2 DEF ResolveID
<1>5. HasClass(s, e)
  BY DEF Importable, HasClass
<1>6. \E o \in EquipmentObjects(p.id, Entry, NoID) : SaysOf(o, s, e, ClassOf(s, e), EndsWritten(s, e))
  <2> HIDE DEF p
  <2> QED BY <1>4, <1>5, EntryIsStaged
<1>7. Entry \in doc.equipments
  <2> DEFINE entries == {Exporter!EquipmentEntry(s, Exporter!NoID, d, p.dir, {})
                         : d \in {d \in Exporter!Orphans(s) : Exporter!BoundaryPath(s, d) = p}}
  <2>1. Entry \in entries
    BY SameNames
  <2>2. doc = [Exporter!Empty EXCEPT !.equipments = entries]
    BY DEF Exporter!BoundaryFile
  <2> HIDE DEF doc, entries
  <2>3. doc.equipments = entries
    BY <2>2 DEF Exporter!Empty
  <2> QED BY <2>1, <2>3
<1> HIDE DEF p, doc, Entry
<1>8. EquipmentObjects(p.id, Entry, NoID) \subseteq FileObjects(p, doc)
  BY <1>1, <1>7, ObjectsOfFile
<1>9. PICK o \in FileObjects(p, doc) : SaysOf(o, s, e, ClassOf(s, e), EndsWritten(s, e))
  BY <1>6, <1>8
<1>10. o \in Emit(Exporter!Build(s))
  BY <1>1, <1>2, <1>9 DEF Emit, SaysOf
<1> QED BY <1>9, <1>10

-----------------------------------------------------------------------------
(* ModelExchange: what is staged again becomes the model again.              *)

\* No ID is given to two staging objects.
Distinct(objs) == \A o, q \in objs : o.id = q.id => o = q

\* Equipment as an import records it: its class is a word of its own, and its attributes survive.
Recorded(s, e, class) ==
    /\ IsName(e) /\ class \notin {"", "BusbarSection"}
    /\ Class \in DOMAIN At(s.attrs, e, NoAttrs) /\ At(s.attrs, e, NoAttrs)[Class] = <<<<"text", class>>>>
    /\ BusbarNode \notin DOMAIN At(s.attrs, e, NoAttrs)
    /\ Storable(OwnAttrs(s, e), class) /\ Shown(OwnAttrs(s, e)) # NoAttrs

\* The same attributes, and the same ends if the model has any; an end that is missing is an anomaly.
SameEquipment(s, m, e) ==
    /\ e \in DOMAIN m.attrs /\ Shown(m.attrs[e]) = Shown(At(s.attrs, e, NoAttrs))
    /\ e \notin DOMAIN s.edges => e \notin DOMAIN m.edges
    /\ e \in DOMAIN s.edges /\ NoID \notin Range(s.edges[e]) => e \in DOMAIN m.edges /\ m.edges[e] = s.edges[e]

\* Stations, which all become substations, houses and the bays of stations; the equipment in them; the
\* segments of cables; the injections at the border.
SameContainers(s, m) ==
    \A r \in OwnRoots(s) :
        /\ s.containers[r].type \in StationTypes =>
              /\ r \in DOMAIN m.containers /\ m.containers[r] = [type |-> "Substation", parent |-> NoID]
              /\ \A b \in Exporter!Children(s, r, "Bay") : IsName(b) =>
                    b \in DOMAIN m.containers /\ m.containers[b] = s.containers[b]
        /\ s.containers[r].type = "House" =>
              r \in DOMAIN m.containers /\ m.containers[r] = [type |-> "House", parent |-> NoID]
SameContents(s, m) ==
    /\ \A r \in OwnRoots(s) : \A e \in ListedIn(s, r) :
          Recorded(s, e, ClassOf(s, e)) /\ IsName(s.equipment[e]) /\ s.equipment[e] # NoID =>
              e \in DOMAIN m.equipment /\ m.equipment[e] = s.equipment[e] /\ SameEquipment(s, m, e)
    /\ \A r \in OwnRoots(s) : \A e \in StandsIn(s, r) \ ListedIn(s, r) :
          Recorded(s, e, "ACLineSegment") => e \in DOMAIN m.equipment /\ SameEquipment(s, m, e)
    /\ \A e \in Exporter!Orphans(s) :
          Recorded(s, e, ClassOf(s, e)) /\ ClassOf(s, e) = "EquivalentInjection" => SameEquipment(s, m, e)

\* Stations, houses and bays are staged under their own IDs, a bay with its station.
LEMMA ContainersAreStaged ==
    ASSUME NEW s, Exportable(s), Importable(s), NEW r \in OwnRoots(s)
    PROVE  LET objs == Emit(Exporter!Build(s))
           IN  /\ s.containers[r].type \in StationTypes =>
                    /\ \E o \in objs : o.id = r /\ o.class = "Substation"
                    /\ \A b \in Exporter!Children(s, r, "Bay") : IsName(b) =>
                          \E o \in objs : /\ o.id = b /\ o.class = "Feeder"
                                          /\ Ref(o, "Feeder.NormalEnergizingSubstation") = r
               /\ s.containers[r].type = "House" => \E o \in objs : o.id = r /\ o.class = "Building"
<1> DEFINE p == Exporter!FileOf(s, r)
           doc == Exporter!Document(s, r)
           objs == Emit(Exporter!Build(s))
           type == s.containers[r].type
<1>1. r \in Exporter!Roots(s) /\ p \in DOMAIN Exporter!Build(s) /\ Exporter!Build(s)[p] = doc
  BY FilesOfBuild DEF OwnRoots
<1>2. p \in Taken(Exporter!Build(s))
  BY <1>1, FilesAreTaken
<1>3. ASSUME NEW o \in FileObjects(p, doc), o.lits # NoAttrs \/ o.refs # {} PROVE o \in objs
  <2> HIDE DEF p, doc
  <2> QED BY <1>1, <1>2, <1>3 DEF Emit
<1>4. ASSUME NEW class, ContainerObjects(p, class, doc) \subseteq FileObjects(p, doc), p.id = r
      PROVE  \E o \in objs : o.id = r /\ o.class = class
  <2> DEFINE lits == Over([k \in {Lead} |-> <<<<"id", p.id>>>>],
                          ContainerLits(ApplyRegionPrecedence(p, doc.attributes)))
             refs == LocationRefs(p.id, PointSeq(doc.geometry))
             o == Object(p.id, class, lits, refs, <<>>)
  <2>1. o \in ContainerObjects(p, class, doc)
    BY DEF ContainerObjects
  <2>2. Lead \in DOMAIN lits
    BY DEF Over
  <2>3. Lead \notin DOMAIN NoAttrs
    BY DEF NoAttrs
  <2> HIDE DEF lits, refs, p, doc, objs
  <2>4. o.id = r /\ o.class = class /\ o.lits = lits
    BY <1>4 DEF Object
  <2>5. o.lits # NoAttrs
    BY <2>2, <2>3, <2>4
  <2> HIDE DEF o
  <2> QED BY <1>3, <1>4, <2>1, <2>4, <2>5
<1>5. CASE type \in StationTypes
  <2>1. p.id = r /\ DirOf(p) \in {"ONS", "KVS"}
    BY <1>1, <1>5, PlaceOfFile DEF StationTypes, DirForType
  <2>2. ContainerObjects(p, "Substation", doc) \subseteq FileObjects(p, doc)
    BY <2>1, ObjectsOfFile
  <2>3. \E o \in objs : o.id = r /\ o.class = "Substation"
    <3> HIDE DEF p, doc, objs
    <3> QED BY <1>4, <2>1, <2>2
  <2>4. ASSUME NEW b \in Exporter!Children(s, r, "Bay"), IsName(b)
        PROVE  \E o \in objs : o.id = b /\ o.class = "Feeder" /\ Ref(o, "Feeder.NormalEnergizingSubstation") = r
    <3> DEFINE Bay == [id |-> Exporter!Shorten(r, b),
                       attributes |-> Exporter!Written(Exporter!Attributes(s, b, {})),
                       equipments |-> EntriesIn(s, r, b)]
    <3>1. Bay \in doc.bays
      <4>1. doc.bays = {[id |-> Exporter!Shorten(r, c),
                         attributes |-> Exporter!Written(Exporter!Attributes(s, c, {})),
                         equipments |-> EntriesIn(s, r, c)] : c \in Exporter!Children(s, r, "Bay")}
        BY <1>1, <1>5, PartsOfDocument
      <4> HIDE DEF doc
      <4> QED BY <4>1
    <3>2. ResolveID(p.id, Bay.id) = b
      BY <1>1, <2>4, NodeIsResolved DEF IsName
    <3>3. BayObjects(p.id, Bay) \subseteq FileObjects(p, doc)
      BY <2>1, <3>1, ObjectsOfFile
    <3> DEFINE name == At(Bay.attributes, Name, <<<<"id", Bay.id>>>>)
               lits == Lead :> name
               up == <<"Feeder.NormalEnergizingSubstation", r>>
               o == Object(b, "Feeder", lits, {up}, <<>>)
    <3> HIDE DEF Bay
    <3>4. o \in BayObjects(p.id, Bay)
      BY <2>1, <3>2 DEF BayObjects
    <3> HIDE DEF lits
    <3>5. o.id = b /\ o.class = "Feeder" /\ o.refs = {up}
      BY DEF Object
    <3> HIDE DEF o, p, doc, objs
    <3>6. o \in objs
      BY <1>3, <3>3, <3>4, <3>5
    <3>7. Ref(o, "Feeder.NormalEnergizingSubstation") = r
      <4> DEFINE word == "Feeder.NormalEnergizingSubstation"
      <4>1. <<word, r>> \in o.refs /\ \A x \in o.refs : x[1] = word => x = <<word, r>>
        BY <3>5
      <4> HIDE DEF word
      <4>2. Ref(o, word) = r
        BY <4>1, OneReference
      <4> QED BY <4>2 DEF word
    <3> QED BY <3>5, <3>6, <3>7
  <2>5. type # "House"
    BY <1>5 DEF StationTypes
  <2> QED BY <1>5, <2>3, <2>4, <2>5
<1>6. CASE type = "House"
  <2>1. p.id = r /\ DirOf(p) = "Haushalte"
    BY <1>1, <1>6, PlaceOfFile DEF DirForType
  <2>2. ContainerObjects(p, "Building", doc) \subseteq FileObjects(p, doc)
    BY <2>1, ObjectsOfFile
  <2>3. \E o \in objs : o.id = r /\ o.class = "Building"
    <3> HIDE DEF p, doc, objs
    <3> QED BY <1>4, <2>1, <2>2
  <2>4. type \notin StationTypes
    BY <1>6 DEF StationTypes
  <2> QED BY <1>6, <2>3, <2>4
<1>7. CASE type \notin StationTypes \cup {"House"}
  BY <1>7
<1> QED BY <1>5, <1>6, <1>7

\* The object of an ID, where IDs are given once.
LEMMA TheOneFound ==
    ASSUME NEW objs, Distinct(objs), NEW o \in objs
    PROVE  /\ Find(objs, o.id) = o
           /\ \A class : o.id \in IDsOf(objs, class) <=> o.class = class
BY DEF Distinct, Find, IDsOf

\* What Phase 2 makes of the containers of an export.
LEMMA ContainersComeBack ==
    ASSUME NEW s, Exportable(s), Importable(s), NEW m,
           Distinct(Emit(Exporter!Build(s))), m = Resolved(Emit(Exporter!Build(s)))
    PROVE  SameContainers(s, m)
<1> DEFINE objs == Emit(Exporter!Build(s))
           C == Containers(objs)
           IDs(class) == IDsOf(objs, class)
           Under(c, reference) == Ref(Find(objs, c), reference)
           stations == [c \in IDs("Substation") |-> [type |-> "Substation", parent |-> NoID]]
           houses == [c \in IDs("Building") |-> [type |-> "House", parent |-> NoID]]
           bays == [c \in IDs("Feeder") |->
                      [type |-> "Bay", parent |-> Under(c, "Feeder.NormalEnergizingSubstation")]]
           busbars == [c \in Busbars(objs) |->
                         [type |-> "Busbar", parent |-> Under(c, "VoltageLevel.Substation")]]
           cables == [c \in {CableOf(t) : t \in IDs("ACLineSegment")} |-> [type |-> "ACLine", parent |-> NoID]]
           rest == Over(busbars, cables)
<1>1. m.containers = C
  BY DEF Resolved
<1>2. C = Over(stations, Over(houses, Over(bays, rest)))
  BY DEF Containers
<1> HIDE DEF objs, C, rest, Under
<1>3. ASSUME NEW c \in IDs("Substation")
      PROVE  c \in DOMAIN C /\ C[c] = [type |-> "Substation", parent |-> NoID]
  BY <1>2 DEF Over
<1>4. ASSUME NEW c \in IDs("Building"), c \notin IDs("Substation")
      PROVE  c \in DOMAIN C /\ C[c] = [type |-> "House", parent |-> NoID]
  BY <1>2, <1>4 DEF Over
<1>5. ASSUME NEW c \in IDs("Feeder"), c \notin IDs("Substation"), c \notin IDs("Building")
      PROVE  c \in DOMAIN C /\ C[c] = [type |-> "Bay", parent |-> Under(c, "Feeder.NormalEnergizingSubstation")]
  BY <1>2, <1>5 DEF Over
<1> HIDE DEF IDs
<1>6. Distinct(objs)
  BY DEF objs
<1>7. ASSUME NEW o \in objs
      PROVE  Find(objs, o.id) = o /\ \A class : o.id \in IDs(class) <=> o.class = class
  BY <1>6, TheOneFound DEF IDs
<1>8. ASSUME NEW r \in OwnRoots(s), s.containers[r].type \in StationTypes
      PROVE  /\ r \in DOMAIN C /\ C[r] = [type |-> "Substation", parent |-> NoID]
             /\ \A b \in Exporter!Children(s, r, "Bay") : IsName(b) =>
                   b \in DOMAIN C /\ C[b] = s.containers[b]
  <2>1. PICK o \in objs : o.id = r /\ o.class = "Substation"
    BY <1>8, ContainersAreStaged DEF objs
  <2>2. ASSUME NEW b \in Exporter!Children(s, r, "Bay"), IsName(b)
        PROVE  b \in DOMAIN C /\ C[b] = s.containers[b]
    <3>1. PICK f \in objs : /\ f.id = b /\ f.class = "Feeder"
                            /\ Ref(f, "Feeder.NormalEnergizingSubstation") = r
      BY <1>8, <2>2, ContainersAreStaged DEF objs
    <3>2. s.containers[b] = [type |-> "Bay", parent |-> r]
      BY DEF Exporter!Children
    <3>3. b \in IDs("Feeder") /\ b \notin IDs("Substation") /\ b \notin IDs("Building")
      BY <1>7, <3>1
    <3>4. Under(b, "Feeder.NormalEnergizingSubstation") = r
      BY <1>7, <3>1 DEF Under
    <3> QED BY <1>5, <3>2, <3>3, <3>4
  <2>3. r \in IDs("Substation")
    BY <1>7, <2>1
  <2> QED BY <1>3, <2>2, <2>3
<1>9. ASSUME NEW r \in OwnRoots(s), s.containers[r].type = "House"
      PROVE  r \in DOMAIN C /\ C[r] = [type |-> "House", parent |-> NoID]
  <2>1. PICK o \in objs : o.id = r /\ o.class = "Building"
    BY <1>9, ContainersAreStaged DEF objs
  <2>2. r \in IDs("Building") /\ r \notin IDs("Substation")
    BY <1>7, <2>1
  <2> QED BY <1>4, <2>2
<1> QED BY <1>1, <1>8, <1>9 DEF SameContainers

\* The attributes of an object, its class and its satellites are those the equipment had.
LEMMA AttributesAgain ==
    ASSUME NEW s, NEW e, NEW class, Recorded(s, e, class), NEW objs, NEW o, Find(objs, e) = o,
           o.lits = Shown(OwnAttrs(s, e)), o.class = class
    PROVE  Shown(EquipmentAttrs(objs, e)) = Shown(At(s.attrs, e, NoAttrs))
<1> DEFINE a == At(s.attrs, e, NoAttrs)
           own == OwnAttrs(s, e)
           lits == Shown(own)
           word == <<<<"text", class>>>>
           f == EquipmentAttrs(objs, e)
           D(k) == k \in DOMAIN Exporter!DefaultOmit
           V(k) == <<Exporter!DefaultOmit[k]>>
<1>1. /\ Class \in DOMAIN a /\ a[Class] = word /\ BusbarNode \notin DOMAIN a
      /\ class # "BusbarSection"
  BY DEF Recorded
<1>2. Class # Satellite /\ Class # BusbarNode /\ Satellite # BusbarNode
  BY DEF Class, Satellite, BusbarNode
<1>3. /\ DOMAIN own = DOMAIN a \ {Class, Satellite, BusbarNode}
      /\ \A k \in DOMAIN own : own[k] = a[k]
  <2> HIDE DEF a
  <2>1. own = Restrict(a, DOMAIN a \ {Class, Satellite, BusbarNode})
    BY DEF OwnAttrs, Without, a
  <2> HIDE DEF own
  <2> QED BY <2>1 DEF Restrict
<1>4. PICK folded :
        LET satellites == [k \in (IF folded = <<>> THEN {} ELSE {Satellite}) |-> folded]
            node == [k \in (IF o.class = "BusbarSection" THEN {BusbarNode} ELSE {}) |-> <<<<"id", o.ends[1]>>>>]
        IN  f = Over(o.lits, Over([k \in {Class} |-> <<<<"text", o.class>>>>], Over(satellites, node)))
  BY DEF EquipmentAttrs
<1> DEFINE satellites == [k \in (IF folded = <<>> THEN {} ELSE {Satellite}) |-> folded]
           node == [k \in {} |-> <<<<"id", o.ends[1]>>>>]
           known == [k \in {Class} |-> word]
           more == Over(known, Over(satellites, node))
<1>5. f = Over(lits, more)
  <2>1. [k \in (IF o.class = "BusbarSection" THEN {BusbarNode} ELSE {}) |-> <<<<"id", o.ends[1]>>>>] = node
    BY <1>1
  <2> HIDE DEF f, lits
  <2> QED BY <1>4, <2>1 DEF lits
<1>6. /\ DOMAIN more \subseteq {Class, Satellite} /\ Class \in DOMAIN more /\ more[Class] = word
  BY DEF Over
<1>7. \A g : \A k : k \in Exporter!Visible(g) <=> k \in DOMAIN g /\ ~(D(k) /\ g[k] = V(k))
  BY DEF Exporter!Visible
<1> HIDE DEF a, own, word, D, V, more, f
<1>8. \A g : /\ DOMAIN Shown(g) = Exporter!Visible(g) \ {Satellite}
             /\ Shown(g) = [k \in Exporter!Visible(g) \ {Satellite} |-> g[k]]
  <2>1. \A g : Exporter!Visible(g) \subseteq DOMAIN g
    BY <1>7
  <2> QED BY <2>1 DEF Shown, Restrict
<1>9. /\ DOMAIN lits = Exporter!Visible(own) \ {Satellite}
      /\ \A k \in DOMAIN lits : lits[k] = own[k]
  BY <1>8
<1> HIDE DEF lits
<1>10. /\ DOMAIN f = DOMAIN lits \cup DOMAIN more
       /\ \A k \in DOMAIN lits : f[k] = lits[k]
       /\ \A k \in DOMAIN more \ DOMAIN lits : f[k] = more[k]
  BY <1>5 DEF Over
<1>11. Class \notin DOMAIN lits
  BY <1>3, <1>7, <1>9
<1>12. ASSUME NEW k \in Exporter!Visible(f) \ {Satellite}
       PROVE  k \in Exporter!Visible(a) \ {Satellite} /\ f[k] = a[k]
  <2>1. k \in DOMAIN f /\ ~(D(k) /\ f[k] = V(k)) /\ k # Satellite
    BY <1>7
  <2>2. CASE k = Class
    <3>1. f[k] = a[k]
      BY <1>1, <1>6, <1>10, <1>11, <2>2
    <3> QED BY <1>1, <1>7, <2>1, <2>2, <3>1
  <2>3. CASE k # Class
    <3>1. k \in DOMAIN lits
      BY <1>6, <1>10, <2>1, <2>3
    <3>2. k \in DOMAIN own /\ f[k] = own[k]
      BY <1>7, <1>9, <1>10, <3>1
    <3>3. k \in DOMAIN a /\ f[k] = a[k]
      BY <1>3, <3>2
    <3> QED BY <1>7, <2>1, <3>3
  <2> QED BY <2>2, <2>3
<1>13. ASSUME NEW k \in Exporter!Visible(a) \ {Satellite} PROVE k \in Exporter!Visible(f)
  <2>1. k \in DOMAIN a /\ ~(D(k) /\ a[k] = V(k)) /\ k # Satellite
    BY <1>7
  <2>2. CASE k = Class
    <3>1. f[k] = a[k] /\ k \in DOMAIN f
      BY <1>1, <1>6, <1>10, <1>11, <2>2
    <3> QED BY <1>7, <2>1, <3>1
  <2>3. CASE k # Class
    <3>1. k \in DOMAIN own /\ own[k] = a[k]
      BY <1>1, <1>3, <2>1, <2>3
    <3>2. k \in DOMAIN lits
      BY <1>7, <1>9, <2>1, <3>1
    <3>3. k \in DOMAIN f /\ f[k] = a[k]
      BY <1>9, <1>10, <3>1, <3>2
    <3> QED BY <1>7, <2>1, <3>3
  <2> QED BY <2>2, <2>3
<1>14. Shown(f) = Shown(a)
  <2>1. Exporter!Visible(f) \ {Satellite} = Exporter!Visible(a) \ {Satellite}
    BY <1>12, <1>13
  <2>2. \A k \in Exporter!Visible(f) \ {Satellite} : f[k] = a[k]
    BY <1>12
  <2> QED BY <1>8, <2>1, <2>2
<1> QED BY <1>14 DEF f, a

\* An edge comes back from the ends that are written of it.
LEMMA EdgeAgain ==
    ASSUME NEW s, Exportable(s), NEW e, NEW o, NEW objs, Distinct(objs), o \in objs, o.id = e,
           o.class # "BusbarSection", e \in Resolvable(objs),
           o.ends = EndsWritten(s, e) \/ o.ends = At(s.edges, e, <<NoID, NoID>>)
    PROVE  /\ e \notin DOMAIN s.edges => e \notin DOMAIN Edges(objs)
           /\ e \in DOMAIN s.edges /\ NoID \notin Range(s.edges[e]) =>
                 e \in DOMAIN Edges(objs) /\ Edges(objs)[e] = s.edges[e]
<1> DEFINE wired == {q.id : q \in {q \in objs : q.id \in Resolvable(objs) /\ IsWired(q)}}
           Nodes(x) == Find(objs, x).ends
           ends == o.ends
           edge == s.edges[e]
<1>1. Edges(objs) = [x \in wired |-> IF Len(Nodes(x)) = 1 THEN <<Nodes(x)[1], GND>> ELSE Nodes(x)]
  BY DEF Edges
<1>2. e \in wired <=> IsWired(o)
  BY DEF Distinct
<1>3. Nodes(e) = ends
  BY TheOneFound
<1> HIDE DEF wired, Nodes
<1>4. DOMAIN Edges(objs) = wired
      /\ (e \in wired => Edges(objs)[e] = IF Len(ends) = 1 THEN <<ends[1], GND>> ELSE ends)
  BY <1>1, <1>3
<1>5. IsWired(o) <=> ends # <<>> /\ NoID \notin Range(ends)
  BY DEF IsWired
<1>6. CASE e \notin DOMAIN s.edges
  <2>1. At(s.edges, e, <<>>) = <<>> /\ At(s.edges, e, <<NoID, NoID>>) = <<NoID, NoID>>
    BY <1>6 DEF At
  <2>2. Len(<<>>) # 2
    OBVIOUS
  <2>3. ends = <<>> \/ ends = <<NoID, NoID>>
    BY <2>1, <2>2 DEF EndsWritten
  <2>4. NoID \in Range(<<NoID, NoID>>)
    <3> DEFINE n == NoID
               two == <<n, n>>
    <3> HIDE DEF n
    <3>1. 1 \in DOMAIN two /\ two[1] = n
      OBVIOUS
    <3> HIDE DEF two
    <3>2. n \in Range(two)
      BY <3>1 DEF Range
    <3> QED BY <3>2 DEF n, two
  <2>5. ~IsWired(o)
    BY <1>5, <2>3, <2>4
  <2> QED BY <1>2, <1>4, <1>6, <2>5
<1>7. CASE e \in DOMAIN s.edges /\ NoID \notin Range(s.edges[e])
  <2>1. IsList(edge) /\ Len(edge) = 2
    BY <1>7 DEF Exportable
  <2>2. At(s.edges, e, <<>>) = edge /\ At(s.edges, e, <<NoID, NoID>>) = edge
    BY <1>7 DEF At
  <2>3. ends = edge \/ (edge[2] = GND /\ ends = <<edge[1]>>)
    BY <2>2 DEF EndsWritten
  <2>4. edge \in Seq(Range(edge)) /\ DOMAIN edge = {1, 2} /\ edge # <<>>
    <3> HIDE DEF edge
    <3>1. edge \in Seq(Range(edge)) /\ Len(edge) = 2
      BY <2>1 DEF IsList
    <3>2. DOMAIN edge = 1 .. 2
      BY <3>1
    <3>3. 1 .. 2 = {1, 2}
      OBVIOUS
    <3>4. Len(<<>>) = 0 /\ 2 # 0
      OBVIOUS
    <3>5. edge # <<>>
      BY <3>1, <3>4, Zenon
    <3> QED BY <3>1, <3>2, <3>3, <3>5
  <2>5. edge[1] \in Range(edge)
    BY <2>4 DEF Range
  <2>6. NoID \notin Range(edge)
    BY <1>7
  <2> DEFINE m == edge[1]  n == edge[2]
  <2>7. edge = <<m, n>>
    BY <2>1, <2>4
  <2> HIDE DEF ends
  <2>8. CASE ends = edge
    <3>1. IsWired(o) /\ Len(ends) # 1
      BY <1>5, <2>1, <2>4, <2>6, <2>8
    <3> QED BY <1>2, <1>4, <1>7, <2>8, <3>1
  <2>9. CASE n = GND /\ ends = <<m>>
    <3>1. m # NoID
      BY <2>5, <2>6
    <3> HIDE DEF m, n, edge
    <3>2. DOMAIN ends = {1} /\ ends[1] = m
      BY <2>9, ListOfOne
    <3>3. Len(ends) = 1 /\ ends # <<>>
      BY <2>9
    <3>4. IsWired(o)
      BY <1>5, <3>1, <3>2, <3>3 DEF Range
    <3>5. Edges(objs)[e] = <<m, GND>>
      BY <1>2, <1>4, <3>2, <3>3, <3>4
    <3>6. Edges(objs)[e] = edge
      BY <2>7, <2>9, <3>5
    <3> QED BY <1>2, <1>4, <1>7, <3>4, <3>6 DEF edge
  <2> QED BY <2>3, <2>8, <2>9
<1> QED BY <1>6, <1>7

\* Equipment that Phase 2 knows: what its staging object said is what the model has of it.
LEMMA EquipmentAgain ==
    ASSUME NEW s, Exportable(s), NEW e, NEW class, Recorded(s, e, class),
           NEW objs, Distinct(objs), NEW m, m = Resolved(objs), e \in Resolvable(objs),
           NEW o \in objs, NEW ends, SaysOf(o, s, e, class, ends),
           ends = EndsWritten(s, e) \/ ends = At(s.edges, e, <<NoID, NoID>>)
    PROVE  SameEquipment(s, m, e)
<1>1. /\ o.id = e /\ o.class = class /\ o.lits = Shown(OwnAttrs(s, e)) /\ o.ends = ends
      /\ o.class # "BusbarSection"
  BY DEF SaysOf, Recorded
<1>2. Find(objs, e) = o
  BY <1>1, TheOneFound
<1>3. m.edges = Edges(objs) /\ m.attrs = Attrs(objs)
  BY DEF Resolved
<1>4. e \in DOMAIN m.attrs /\ m.attrs[e] = EquipmentAttrs(objs, e)
  <2> DEFINE known == [x \in Resolvable(objs) |-> EquipmentAttrs(objs, x)]
  <2>1. PICK rest : Attrs(objs) = Over(known, rest)
    BY DEF Attrs
  <2> QED BY <1>3, <2>1 DEF Over
<1>5. Shown(EquipmentAttrs(objs, e)) = Shown(At(s.attrs, e, NoAttrs))
  BY <1>1, <1>2, AttributesAgain
<1>6. /\ e \notin DOMAIN s.edges => e \notin DOMAIN Edges(objs)
      /\ e \in DOMAIN s.edges /\ NoID \notin Range(s.edges[e]) =>
            e \in DOMAIN Edges(objs) /\ Edges(objs)[e] = s.edges[e]
  BY <1>1, EdgeAgain
<1> QED BY <1>3, <1>4, <1>5, <1>6 DEF SameEquipment

\* What Phase 2 makes of the equipment of an export.
LEMMA ContentsComeBack ==
    ASSUME NEW s, Exportable(s), Importable(s), NEW m,
           Distinct(Emit(Exporter!Build(s))), m = Resolved(Emit(Exporter!Build(s)))
    PROVE  SameContents(s, m)
<1> DEFINE objs == Emit(Exporter!Build(s))
           In == "Equipment.EquipmentContainer"
           there == {o.id : o \in Contained(objs)}
           At1(x) == Ref(Find(objs, x), In)
           cables == [x \in IDsOf(objs, "ACLineSegment") |-> CableOf(x)]
<1>1. m.equipment = Equipment(objs) /\ m.containers = Containers(objs)
  BY DEF Resolved
<1>2. Equipment(objs) = Over([x \in there |-> At1(x)], cables)
  BY DEF Equipment
<1>3. DOMAIN Equipment(objs) \subseteq Resolvable(objs)
  BY DEF Resolvable
<1>4. IDsOf(objs, "EquivalentInjection") \subseteq Resolvable(objs)
  BY DEF Resolvable
<1>5. \A o \in objs : Ref(o, In) \in DOMAIN Containers(objs) => o.id \in there
  BY DEF Contained
<1> HIDE DEF there, At1, objs
<1>6. Distinct(objs) /\ m = Resolved(objs)
  BY DEF objs
<1>7. /\ DOMAIN Equipment(objs) = there \cup IDsOf(objs, "ACLineSegment")
      /\ \A x \in there : Equipment(objs)[x] = At1(x)
  BY <1>2 DEF Over
<1>8. SameContainers(s, m)
  BY ContainersComeBack
<1>9. ASSUME NEW r \in OwnRoots(s), NEW e \in ListedIn(s, r), Recorded(s, e, ClassOf(s, e)),
             IsName(s.equipment[e]), s.equipment[e] # NoID
      PROVE  e \in DOMAIN m.equipment /\ m.equipment[e] = s.equipment[e] /\ SameEquipment(s, m, e)
  <2>1. IsName(e) /\ Storable(OwnAttrs(s, e), ClassOf(s, e))
    BY <1>9 DEF Recorded
  <2>2. PICK o \in objs : /\ SaysOf(o, s, e, ClassOf(s, e), EndsWritten(s, e))
                          /\ RefsOf(o, In) = {s.equipment[e]}
    BY <1>9, <2>1, EquipmentComesBack DEF objs
  <2>3. Ref(o, In) = s.equipment[e]
    BY <2>2 DEF Ref
  <2>4. s.equipment[e] \in DOMAIN m.containers
    <3>1. s.containers[r].type \in {"Substation", "DistributionBox", "House", "ACLine"}
      BY SameNames DEF OwnRoots, Exporter!Roots
    <3>2. s.containers[r].type # "ACLine" => r \in DOMAIN m.containers
      BY <1>8, <3>1 DEF SameContainers, StationTypes
    <3>3. ASSUME NEW b \in Exporter!Children(s, r, "Bay"), s.containers[r].type \in StationTypes,
                 s.equipment[e] = b
          PROVE  b \in DOMAIN m.containers
      BY <1>8, <1>9, <3>3 DEF SameContainers
    <3>4. \/ s.containers[r].type # "ACLine" /\ s.equipment[e] = r
          \/ /\ s.containers[r].type \in StationTypes
             /\ \E b \in Exporter!Children(s, r, "Bay") : s.equipment[e] = b
      BY DEF ListedIn, Exporter!EquipmentOf
    <3> QED BY <3>2, <3>3, <3>4
  <2>5. o.id = e
    BY <2>2 DEF SaysOf
  <2>6. e \in there
    BY <1>1, <1>5, <2>3, <2>4, <2>5
  <2>7. At1(e) = s.equipment[e]
    BY <1>6, <2>3, <2>5, TheOneFound DEF At1
  <2>8. SameEquipment(s, m, e)
    BY <1>3, <1>6, <1>7, <1>9, <2>2, <2>6, EquipmentAgain
  <2> QED BY <1>1, <1>7, <2>6, <2>7, <2>8
<1>10. ASSUME NEW r \in OwnRoots(s), NEW e \in StandsIn(s, r) \ ListedIn(s, r), Recorded(s, e, "ACLineSegment")
       PROVE  e \in DOMAIN m.equipment /\ SameEquipment(s, m, e)
  <2>1. IsName(e) /\ Storable(OwnAttrs(s, e), "ACLineSegment") /\ Shown(OwnAttrs(s, e)) # NoAttrs
    BY <1>10 DEF Recorded
  <2>2. PICK o \in objs : SaysOf(o, s, e, "ACLineSegment", At(s.edges, e, <<NoID, NoID>>))
    BY <2>1, SegmentsComeBack DEF objs
  <2>3. e \in IDsOf(objs, "ACLineSegment")
    BY <2>2 DEF SaysOf, IDsOf
  <2>4. SameEquipment(s, m, e)
    BY <1>3, <1>6, <1>7, <1>10, <2>2, <2>3, EquipmentAgain
  <2> QED BY <1>1, <1>7, <2>3, <2>4
<1>11. ASSUME NEW e \in Exporter!Orphans(s), Recorded(s, e, ClassOf(s, e)), ClassOf(s, e) = "EquivalentInjection"
       PROVE  SameEquipment(s, m, e)
  <2>1. IsName(e) /\ Storable(OwnAttrs(s, e), ClassOf(s, e)) /\ Shown(OwnAttrs(s, e)) # NoAttrs
    BY <1>11 DEF Recorded
  <2>2. PICK o \in objs : SaysOf(o, s, e, ClassOf(s, e), EndsWritten(s, e))
    BY <2>1, BorderComesBack DEF objs
  <2>3. e \in IDsOf(objs, "EquivalentInjection")
    BY <1>11, <2>2 DEF SaysOf, IDsOf
  <2> QED BY <1>4, <1>6, <1>11, <2>2, <2>3, EquipmentAgain
<1> QED BY <1>9, <1>10, <1>11 DEF SameContents

\* A model that is exported and imported again has its stations, houses and bays, the equipment in them
\* and in cables and the injections at the border, each in the same place, between the same nodes and
\* with the same attributes; whatever model it is, if its files pass Check and no ID is staged twice.
THEOREM ModelSurvives ==
    ASSUME NEW s, Exportable(s), Importable(s), Distinct(Emit(Exporter!Build(s)))
    PROVE  LET m == Resolved(Emit(Exporter!Build(s))) IN SameContainers(s, m) /\ SameContents(s, m)
<1> DEFINE m == Resolved(Emit(Exporter!Build(s)))
<1>1. SameContainers(s, m)
  BY ContainersComeBack
<1>2. SameContents(s, m)
  BY ContentsComeBack
<1> QED BY <1>1, <1>2

\* What an import made it made of the tree that is there.
ImportedInv == milestone \in {"imported", "exported"} => model = Resolved(Emit(tree))

LEMMA ImportedInvStep == ImportedInv /\ [ExchangeNext]_exchangeVars => ImportedInv'
<1> SUFFICES ASSUME ImportedInv, [ExchangeNext]_exchangeVars PROVE ImportedInv'
  OBVIOUS
<1> USE DEF ImportedInv
<1>1. CASE Copy \/ UNCHANGED exchangeVars
  BY <1>1 DEF Copy, exchangeVars
<1>2. CASE Export
  BY <1>2 DEF Export
<1>3. ASSUME NEW files, Edit(files) PROVE ImportedInv'
  <2>1. milestone' = "tree"
    BY <1>3 DEF Edit
  <2> QED BY <2>1
<1>4. CASE MoveFile \/ CopyFile \/ SpoilFile \/ DropClass \/ AddConnects
  BY <1>3, <1>4, HandsEdit
<1>5. CASE Check
  BY <1>5 DEF Check
<1>6. CASE Import
  <2>1. milestone' = "failed" \/ model' = Resolved(Emit(tree))
    BY <1>6 DEF Import
  <2>2. tree' = tree
    BY <1>6 DEF Import
  <2> QED BY <2>1, <2>2
<1>7. CASE ExportAgain
  BY <1>7 DEF ExportAgain
<1> QED BY <1>1, <1>2, <1>4, <1>5, <1>6, <1>7 DEF ExchangeNext

\* The half of RoundTripKeeps about what the model is, for all stores and models: a model that goes
\* through files nobody touched comes back with its containers, equipment, edges and attributes.
ModelKept ==
    milestone \in {"imported", "exported"} /\ edits = 0 /\ Importable(loaded) /\ Distinct(Emit(tree)) =>
        SameContainers(loaded, model) /\ SameContents(loaded, model)

THEOREM ImportedModelKept == ExchangeSpec => []ModelKept
<1>1. InitExchange => UntouchedInv /\ ImportedInv
  BY CopyInvInit DEF InitExchange, UntouchedInv, CopyInit, ImportedInv
<1>2. UntouchedInv /\ ImportedInv => ModelKept
  <2> SUFFICES ASSUME UntouchedInv, ImportedInv, milestone \in {"imported", "exported"}, edits = 0,
                      Importable(loaded), Distinct(Emit(tree))
               PROVE  SameContainers(loaded, model) /\ SameContents(loaded, model)
    BY DEF ModelKept
  <2>1. Exportable(loaded) /\ tree = Exporter!Build(loaded)
    BY ExportAssumption DEF UntouchedInv
  <2>2. model = Resolved(Emit(tree))
    BY DEF ImportedInv
  <2> QED BY <2>1, <2>2, ModelSurvives
<1> QED BY <1>1, <1>2, UntouchedInvStep, ImportedInvStep, PTL DEF ExchangeSpec

-----------------------------------------------------------------------------
(* ModelExchange: an export is given every row.                            *)

\* f is what comes of x when one function is applied again and again.
Iterates(f, n, x, step) == f[0] = x /\ \A k \in 1 .. n : f[k] = step[f[k - 1]]
LEMMA StepsExist ==
    ASSUME NEW n \in Nat, NEW X, NEW x \in X, NEW step \in [X -> X]
    PROVE  \E f \in [0 .. n -> X] : Iterates(f, n, x, step)
<1> USE DEF Iterates
<1> DEFINE Walks(f, m) == f \in [0 .. m -> X] /\ Iterates(f, m, x, step)
           Bad == {m \in 0 .. n : ~\E f : Walks(f, m)}
<1>1. Bad = {}
  <2> SUFFICES ASSUME Bad # {} PROVE FALSE
    OBVIOUS
  <2>1. PICK m \in Bad : \A k \in Bad : m <= k
    BY LeastExists, Bad \in SUBSET Nat
  <2>2. CASE m = 0
    <3> DEFINE g == [k \in 0 .. 0 |-> x]
    <3>1. Walks(g, 0)
      OBVIOUS
    <3> QED BY <2>1, <2>2, <3>1
  <2>3. CASE m # 0
    <3>1. m \in 1 .. n /\ m - 1 \in 0 .. n /\ ~(m <= m - 1)
      BY <2>1, <2>3
    <3>2. PICK f : Walks(f, m - 1)
      BY <2>1, <3>1
    <3> DEFINE g == [k \in 0 .. m |-> IF k = m THEN step[f[m - 1]] ELSE f[k]]
    <3>3. f[m - 1] \in X /\ step[f[m - 1]] \in X
      BY <3>1, <3>2
    <3>4. g \in [0 .. m -> X] /\ g[0] = x
      BY <3>1, <3>2, <3>3
    <3>5. ASSUME NEW k \in 1 .. m PROVE g[k] = step[g[k - 1]]
      <4>1. k - 1 \in 0 .. m /\ k - 1 # m /\ k \in 0 .. m /\ g[k - 1] = f[k - 1]
        BY <3>1
      <4>2. CASE k # m
        <5>1. k \in 1 .. (m - 1) /\ g[k] = f[k]
          BY <3>1, <4>1, <4>2
        <5> QED BY <3>2, <4>1, <5>1
      <4> QED BY <4>1, <4>2
    <3>6. Walks(g, m)
      BY <3>4, <3>5
    <3> HIDE DEF g
    <3> QED BY <2>1, <3>6
  <2> QED BY <2>2, <2>3
<1>2. PICK f : Walks(f, n)
  BY <1>1, n \in 0 .. n
<1> QED BY <1>2

\* The first row that a query has not passed is on the page it returns.
LEMMA PageHasFirst ==
    ASSUME NEW tab \in Seq(Rows), NEW a \in Nat, NEW k \in Later(tab, a),
           \A j \in 1 .. k - 1 : j \notin Later(tab, a)
    PROVE  k \in Page(tab, a)
<1>1. k \in 1 .. Len(tab) /\ BatchSize \in Nat \ {0} /\ Len(tab) \in Nat
  BY CopyAssumption DEF Later
<1>2. k - BatchSize \notin Later(tab, a)
  <2>1. CASE k - BatchSize >= 1
    <3>1. k - BatchSize \in 1 .. k - 1
      BY <1>1, <2>1
    <3> QED BY <3>1
  <2>2. CASE ~(k - BatchSize >= 1)
    <3>1. k - BatchSize \notin 1 .. Len(tab)
      BY <1>1, <2>2
    <3> QED BY <3>1 DEF Later
  <2> QED BY <2>1, <2>2
<1> QED BY <1>1, <1>2 DEF Page, Limited

\* Reading page by page, each after the last owner of the one before, returns every row of
\* a table, wherever the pages end: no owner's rows are cut, none is asked for twice or never.
THEOREM PagesReadEveryRow ==
    ASSUME NEW tab \in Seq(Rows), Sorted(tab)
    PROVE  Walk(tab) = DOMAIN tab
<1> DEFINE N == Len(tab)
           start == [rows |-> {}, after |-> 0]
           Turn(so) ==
               LET page == Page(tab, so.after)
                   last == CHOOSE i \in page : \A j \in page : j <= i
               IN  IF so.after < 0 \/ page = {} THEN so
                   ELSE [rows |-> so.rows \cup page,
                         after |-> IF Short(tab, so.after) THEN -1 ELSE Rank[tab[last].owner]]
           Recursive(f) == f = [k \in 0 .. N |-> IF k = 0 THEN start ELSE Turn(f[k - 1])]
           walk == CHOOSE f : Recursive(f)
           X == {so \in [rows : SUBSET (1 .. N), after : Nat \cup {-1}] :
                    so.rows = IF so.after = -1 THEN 1 .. N ELSE (1 .. N) \ Later(tab, so.after)}
<1>0. /\ DOMAIN tab = 1 .. N /\ N \in Nat /\ BatchSize \in Nat \ {0}
      /\ \A i \in 1 .. N : tab[i].owner \in Owners /\ Rank[tab[i].owner] \in Nat \ {0}
  BY CopyAssumption
<1>1. Walk(tab) = walk[N].rows
  BY DEF Walk
<1>in. ASSUME NEW rows \in SUBSET (1 .. N), NEW from \in Nat \cup {-1},
             rows = IF from = -1 THEN 1 .. N ELSE (1 .. N) \ Later(tab, from)
      PROVE  [rows |-> rows, after |-> from] \in X
  <2> DEFINE so == [rows |-> rows, after |-> from]
  <2>1. so \in [rows : SUBSET (1 .. N), after : Nat \cup {-1}] /\ so.rows = rows /\ so.after = from
    OBVIOUS
  <2> HIDE DEF so
  <2>2. so \in X
    BY <1>in, <2>1
  <2> QED BY <2>2 DEF so
<1>of. \A so \in X : /\ so.rows \subseteq 1 .. N /\ so.after \in Nat \cup {-1}
                      /\ so.rows = IF so.after = -1 THEN 1 .. N ELSE (1 .. N) \ Later(tab, so.after)
  OBVIOUS
<1> HIDE DEF X
<1>2. start \in X
  <2>1. Later(tab, 0) = 1 .. N
    BY <1>0 DEF Later
  <2>2. {} \in SUBSET (1 .. N) /\ 0 \in Nat \cup {-1}
    OBVIOUS
  <2>3. {} = IF 0 = -1 THEN 1 .. N ELSE (1 .. N) \ Later(tab, 0)
    BY <2>1
  <2> QED BY <1>in, <2>2, <2>3, Zenon
<1>3. ASSUME NEW so \in X
      PROVE  /\ Turn(so) \in X
             /\ so.rows \subseteq Turn(so).rows
             /\ \A k \in 1 .. N : 1 .. k - 1 \subseteq so.rows => k \in Turn(so).rows
  <2> DEFINE page == Page(tab, so.after)
             last == CHOOSE i \in page : \A j \in page : j <= i
  <2>0. /\ so.rows \subseteq 1 .. N /\ so.after \in Nat \cup {-1}
        /\ so.rows = IF so.after = -1 THEN 1 .. N ELSE (1 .. N) \ Later(tab, so.after)
    BY <1>of, Zenon
  <2>1. CASE so.after = -1
    <3>1. Turn(so) = so /\ so.rows = 1 .. N
      BY <2>0, <2>1
    <3> QED BY <3>1
  <2>2. CASE so.after # -1
    <3>1. so.after \in Nat /\ ~(so.after < 0) /\ so.rows = (1 .. N) \ Later(tab, so.after)
      BY <2>0, <2>2
    <3>2. page \subseteq Later(tab, so.after) /\ Later(tab, so.after) \subseteq 1 .. N
      BY <1>0 DEF Page, Later
    <3>3. ASSUME NEW k \in 1 .. N, 1 .. k - 1 \subseteq so.rows PROVE k \in so.rows \cup page
      BY <3>1, <3>3, PageHasFirst
    <3>4. CASE page = {}
      <4>1. Turn(so) = so
        BY <3>4
      <4>2. \A k \in 1 .. N : 1 .. k - 1 \subseteq so.rows => k \in so.rows
        BY <3>3, <3>4
      <4> HIDE DEF Turn, page
      <4> QED BY <4>1, <4>2
    <3>5. CASE page # {}
      <4>1. Turn(so) = [rows |-> so.rows \cup page,
                        after |-> IF Short(tab, so.after) THEN -1 ELSE Rank[tab[last].owner]]
        BY <3>1, <3>5
      <4>2. last \in page /\ \A j \in page : j <= last
        <5>1. \E i \in page : \A j \in page : j <= i
          <6> DEFINE Upside == {N - i : i \in page}
          <6>1. Upside \in SUBSET Nat /\ Upside # {}
            BY <1>0, <3>2, <3>5
          <6>2. PICK u \in Upside : \A v \in Upside : u <= v
            BY <6>1, LeastExists
          <6>3. PICK i \in page : u = N - i
            BY <6>2
          <6>4. ASSUME NEW j \in page PROVE j <= i
            <7>1. u <= N - j /\ i \in 1 .. N /\ j \in 1 .. N
              BY <6>2, <3>2
            <7> QED BY <6>3, <7>1, <1>0
          <6> QED BY <6>4
        <5> HIDE DEF page
        <5> QED BY <5>1
      <4>3. CASE Short(tab, so.after)
        <5>1. so.rows \cup page = 1 .. N
          BY <3>1, <3>2, <4>3, ShortPageIsLast
        <5>2. Turn(so) = [rows |-> 1 .. N, after |-> -1]
          BY <4>1, <4>3, <5>1
        <5>3. 1 .. N \in SUBSET (1 .. N) /\ -1 \in Nat \cup {-1} /\ so.rows \subseteq 1 .. N
          BY <3>1
        <5> HIDE DEF Turn
        <5>4. Turn(so) \in X
          BY <1>in, <5>2, <5>3
        <5>5. Turn(so).rows = 1 .. N
          BY <5>2
        <5> QED BY <5>3, <5>4, <5>5
      <4>4. CASE ~Short(tab, so.after)
        <5> DEFINE a == Rank[tab[last].owner]
        <5>1. last \in 1 .. N /\ last \in Later(tab, so.after) /\ a \in Nat /\ a > so.after
          BY <1>0, <3>1, <3>2, <4>2 DEF Later
        <5>2. so.rows \cup page = (1 .. N) \ Later(tab, a)
          <6>1. ASSUME NEW k \in so.rows \cup page PROVE k \in 1 .. N /\ ~(Rank[tab[k].owner] > a)
            <7>1. CASE k \in page
              <8>1. k \in 1 .. N /\ k <= last
                BY <3>2, <4>2, <7>1
              <8>2. Rank[tab[k].owner] <= Rank[tab[last].owner]
                <9>1. CASE k = last
                  BY <1>0, <5>1, <9>1
                <9> QED BY <8>1, <9>1, <1>0, <5>1 DEF Sorted
              <8> QED BY <8>1, <8>2, <1>0, <5>1
            <7>2. CASE k \in so.rows
              BY <7>2, <3>1, <5>1, <1>0 DEF Later
            <7> QED BY <6>1, <7>1, <7>2
          <6>2. ASSUME NEW k \in 1 .. N, ~(Rank[tab[k].owner] > a) PROVE k \in so.rows \cup page
            <7>1. CASE k \in Later(tab, so.after)
              <8>1. Rank[tab[k].owner] <= Rank[tab[last].owner]
                BY <6>2, <1>0, <5>1
              <8> QED BY <7>1, <8>1, <3>1, <4>2, PageReachesItsLast
            <7> QED BY <7>1, <3>1
          <6> QED BY <6>1, <6>2, <1>0 DEF Later
        <5>3. Turn(so) = [rows |-> (1 .. N) \ Later(tab, a), after |-> a]
          BY <4>1, <4>4, <5>2
        <5> HIDE DEF a, Turn, page, last
        <5>4. Turn(so) \in X
          <6>1. (1 .. N) \ Later(tab, a) \in SUBSET (1 .. N) /\ a # -1
            BY <5>1
          <6> QED BY <1>in, <5>1, <5>3, <6>1
        <5>5. Turn(so).rows = so.rows \cup page
          BY <5>2, <5>3
        <5> QED BY <5>4, <5>5, <3>3
      <4> HIDE DEF Turn, page, last
      <4> QED BY <4>3, <4>4
    <3> QED BY <3>4, <3>5
  <2> QED BY <2>1, <2>2
<1> HIDE DEF Turn, start
<1>4. Recursive(walk)
  <2> DEFINE step == [so \in X |-> Turn(so)]
  <2>1. step \in [X -> X]
    BY <1>3
  <2> HIDE DEF N, step
  <2>a. \E f \in [0 .. N -> X] : Iterates(f, N, start, step)
    BY <1>0, <1>2, <2>1, StepsExist
  <2>2. PICK f \in [0 .. N -> X] : f[0] = start /\ \A k \in 1 .. N : f[k] = step[f[k - 1]]
    BY <2>a DEF Iterates
  <2>3. \A k \in 0 .. N : f[k] = IF k = 0 THEN start ELSE Turn(f[k - 1])
    <3>1. ASSUME NEW k \in 0 .. N, k # 0 PROVE f[k] = Turn(f[k - 1])
      <4>1. k \in 1 .. N /\ k - 1 \in 0 .. N /\ f[k - 1] \in X
        BY <1>0, <2>2, <3>1
      <4> QED BY <2>2, <4>1 DEF step
    <3> QED BY <2>2, <3>1
  <2>4. f = [k \in 0 .. N |-> f[k]]
    BY <2>2
  <2>5. Recursive(f)
    BY <2>3, <2>4
  <2> QED BY <2>5
<1> HIDE DEF walk
<1>5. /\ walk[0] = start
      /\ \A k \in 0 .. N : k # 0 => walk[k] = Turn(walk[k - 1])
  BY <1>0, <1>4
<1> DEFINE Bad == {k \in 0 .. N : ~(walk[k] \in X /\ 1 .. k \subseteq walk[k].rows)}
<1>6. Bad = {}
  <2> SUFFICES ASSUME Bad # {} PROVE FALSE
    OBVIOUS
  <2>1. PICK k \in Bad : \A j \in Bad : k <= j
    BY LeastExists, Bad \in SUBSET Nat
  <2>2. k # 0
    BY <1>0, <1>2, <1>5, <2>1
  <2>3. k \in 1 .. N /\ k - 1 \in 0 .. N /\ ~(k <= k - 1) /\ walk[k] = Turn(walk[k - 1])
    BY <1>0, <1>5, <2>1, <2>2
  <2>4. walk[k - 1] \in X /\ 1 .. k - 1 \subseteq walk[k - 1].rows
    BY <2>1, <2>3
  <2>5. walk[k] \in X /\ walk[k - 1].rows \subseteq walk[k].rows /\ k \in walk[k].rows
    BY <1>3, <2>3, <2>4
  <2>6. 1 .. k \subseteq walk[k].rows
    BY <2>3, <2>4, <2>5
  <2> QED BY <2>1, <2>5, <2>6
<1>7. walk[N] \in X /\ 1 .. N \subseteq walk[N].rows
  BY <1>0, <1>6
<1>8. walk[N].rows \subseteq 1 .. N
  BY <1>of, <1>7
<1> QED BY <1>0, <1>1, <1>7, <1>8
=============================================================================
