------------------------- MODULE ACLineChainsProofs -------------------------
(* Proofs about ACLineChains: the sequential search finds the chains of      *)
(* cables whatever segment it starts from, neither batches nor workers show  *)
(* in what is stored, and no step repeats work.                              *)
EXTENDS ACLineChains, SequenceTheorems, FiniteSetTheorems, WellFoundedInduction, TLAPS

-----------------------------------------------------------------------------
(* Least numbers, and tables.                                               *)

\* A set of naturals has a least one.
LEMMA LeastExists ==
    ASSUME NEW S \in SUBSET Nat, S # {}
    PROVE  \E x \in S : \A y \in S : x <= y
<1>1. IsWellFoundedOn(OpToRel(<, Nat), Nat)
  BY NatLessThanWellFounded
<1>2. PICK x \in S : \A y \in S : ~(<<y, x>> \in OpToRel(<, Nat))
  BY <1>1, WFMin
<1>3. \A y \in S : ~(<<y, x>> \in {p \in Nat \X Nat : p[1] < p[2]})
  BY <1>2 DEF OpToRel
<1>4. ASSUME NEW y \in S, y < x PROVE FALSE
  <2> DEFINE p == <<y, x>>
  <2>1. p \in Nat \X Nat /\ p[1] = y /\ p[2] = x
    OBVIOUS
  <2>2. p[1] < p[2]
    BY <1>4, <2>1
  <2>3. p \notin {q \in Nat \X Nat : q[1] < q[2]}
    BY <1>3
  <2> HIDE DEF p
  <2> QED BY <2>1, <2>2, <2>3
<1>5. \A y \in S : x \in Nat /\ y \in Nat /\ ~(y < x)
  BY <1>4
<1> QED BY <1>5

\* Min names it, and nothing else is it.
LEMMA MinIs ==
    ASSUME NEW S \in SUBSET Nat, S # {}
    PROVE  /\ Min(S) \in S /\ Min(S) \in Nat
           /\ \A y \in S : Min(S) <= y
           /\ \A x \in S : (\A y \in S : x <= y) => x = Min(S)
<1>1. Min(S) \in S /\ \A y \in S : Min(S) <= y
  BY LeastExists DEF Min
<1>2. ASSUME NEW x \in S, \A y \in S : x <= y PROVE x = Min(S)
  <2>1. x <= Min(S) /\ Min(S) <= x /\ x \in Nat /\ Min(S) \in Nat
    BY <1>1, <1>2
  <2> QED BY <2>1
<1> QED BY <1>1, <1>2

\* The least of two sets, with one of them summed up by its own least.
LEMMA MinOfUnion ==
    ASSUME NEW S \in SUBSET Nat, NEW T \in SUBSET Nat, T # {}
    PROVE  Min(S \cup {Min(T)}) = Min(S \cup T)
<1> DEFINE A == S \cup {Min(T)}  B == S \cup T  m == Min(A)
<1>1. Min(T) \in T /\ \A y \in T : Min(T) <= y
  BY MinIs
<1>2. A \in SUBSET Nat /\ A # {} /\ B \in SUBSET Nat /\ B # {} /\ A \subseteq B
  BY <1>1
<1>3. m \in A /\ \A y \in A : m <= y
  BY <1>2, MinIs
<1>4. m \in B /\ \A y \in B : m <= y
  BY <1>1, <1>2, <1>3
<1> QED BY <1>2, <1>4, MinIs

\* A table that is put over another refers to what either refers to.
LEMMA OverRefers ==
    ASSUME NEW f, NEW g
    PROVE  /\ DOMAIN Over(f, g) = DOMAIN f \cup DOMAIN g
           /\ \A x \in DOMAIN f : Over(f, g)[x] = f[x]
           /\ \A x \in DOMAIN g \ DOMAIN f : Over(f, g)[x] = g[x]
           /\ Range(Over(f, g)) \subseteq Range(f) \cup Range(g)
<1>1. DOMAIN Over(f, g) = DOMAIN f \cup DOMAIN g
  BY DEF Over
<1>2. ASSUME NEW x \in DOMAIN f PROVE Over(f, g)[x] = f[x]
  BY DEF Over
<1>3. ASSUME NEW x \in DOMAIN g \ DOMAIN f PROVE Over(f, g)[x] = g[x]
  BY DEF Over
<1>4. Range(Over(f, g)) \subseteq Range(f) \cup Range(g)
  <2>1. \A y \in Range(Over(f, g)) : \E x \in DOMAIN Over(f, g) : y = Over(f, g)[x]
    BY DEF Range
  <2>2. \A x \in DOMAIN f : f[x] \in Range(f)
    BY DEF Range
  <2>3. \A x \in DOMAIN g : g[x] \in Range(g)
    BY DEF Range
  <2>4. ASSUME NEW x \in DOMAIN Over(f, g) PROVE Over(f, g)[x] \in Range(f) \cup Range(g)
    BY <1>1, <1>2, <1>3, <2>2, <2>3
  <2> QED BY <2>1, <2>4
<1> QED BY <1>1, <1>2, <1>3, <1>4

-----------------------------------------------------------------------------
(* The source, and what is derived from its Terminals.                      *)

\* The segments are positive numbers; their nodes are, too.
LEMMA SourceFacts ==
    ASSUME src \in Sources
    PROVE  /\ Segments \in SUBSET (Nat \ {0}) /\ Usable \subseteq Segments
           /\ \A s \in Segments : src.terms[s] \in Seq(Nat \ {0})
           /\ \A j \in DOMAIN src.junctions : src.junctions[j] \in Seq(Nat \ {0}) /\ j \notin Segments
           /\ \A b \in DOMAIN src.boundary : b \notin Segments
BY SourceAssumption DEF Segments, Usable, NodeLists, GND, NoContainer

\* Only usable segments lend a route their ends.
LEMMA EndsAre ==
    ASSUME src \in Sources, NEW S \in SUBSET Segments
    PROVE  /\ EndsOf(S) \subseteq Nat \ {0}
           /\ \A n : n \in EndsOf(S) <=> \E s \in S \cap Usable : n \in ToSet(src.terms[s])
<1>1. \A s \in S : s \in Usable <=> Resolves(src.terms[s])
  BY DEF Usable
<1>2. \A n : n \in EndsOf(S) <=> \E s \in S \cap Usable : n \in ToSet(src.terms[s])
  BY <1>1 DEF EndsOf
<1>3. \A s \in S : ToSet(src.terms[s]) \subseteq Nat \ {0}
  <2> SUFFICES ASSUME NEW s \in S PROVE ToSet(src.terms[s]) \subseteq Nat \ {0}
    OBVIOUS
  <2>1. src.terms[s] \in Seq(Nat \ {0})
    BY SourceFacts
  <2> QED BY <2>1 DEF ToSet
<1> QED BY <1>2, <1>3

\* A set of segments with all that its ends lead to, and one that no closed set cuts.
Closed(X) == Touching(EndsOf(X)) \cap Usable \subseteq X
Undivided(X) == \A T \in SUBSET Usable :
                   Neighbours(T) \subseteq T => X \cap Usable \subseteq T \/ X \cap T = {}

\* The code's step and the reference's agree on usable segments.
LEMMA NeighboursAre ==
    ASSUME src \in Sources, NEW S \in SUBSET Segments
    PROVE  /\ Neighbours(S) = Touching(EndsOf(S)) \cap Usable
           /\ Neighbours(S \cap Usable) = Neighbours(S)
<1>1. \A u \in Usable : u \in Segments /\ {u} \in SUBSET Segments
  BY SourceFacts
<1>2. ASSUME NEW u \in Usable, NEW n PROVE n \in EndsOf({u}) <=> n \in ToSet(src.terms[u])
  BY <1>1, EndsAre
<1>3. EndsOf(S \cap Usable) = EndsOf(S)
  <2>1. S \cap Usable \in SUBSET Segments
    OBVIOUS
  <2>2. \A n : n \in EndsOf(S \cap Usable) <=> n \in EndsOf(S)
    BY <2>1, EndsAre
  <2> QED BY <2>2
<1>4. \A u : u \in Neighbours(S) <=> u \in Touching(EndsOf(S)) \cap Usable
  BY <1>1, <1>2 DEF Neighbours, Touching
<1> QED BY <1>3, <1>4 DEF Neighbours

\* A segment alone is undivided.
LEMMA OneIsUndivided ==
    ASSUME NEW s PROVE Undivided({s})
BY DEF Undivided

\* So is an undivided set with segments its ends lead to.
LEMMA GrowsUndivided ==
    ASSUME src \in Sources, NEW X \in SUBSET Segments, Undivided(X),
           NEW N, N \subseteq EndsOf(X), NEW Y, Y \subseteq Touching(N)
    PROVE  Undivided(X \cup Y)
<1> SUFFICES ASSUME NEW T \in SUBSET Usable, Neighbours(T) \subseteq T
             PROVE  (X \cup Y) \cap Usable \subseteq T \/ (X \cup Y) \cap T = {}
  BY DEF Undivided
<1>0. T \in SUBSET Segments /\ Usable \subseteq Segments /\ \A t \in T : {t} \in SUBSET Segments
  BY SourceFacts
<1>1. CASE X \cap Usable \subseteq T
  <2> SUFFICES ASSUME NEW u \in Y \cap Usable PROVE u \in T
    BY <1>1
  <2>1. PICK n \in N : Inline(n) /\ n \in ToSet(src.terms[u])
    BY DEF Touching
  <2>2. n \in EndsOf(T)
    BY <1>0, <1>1, <2>1, EndsAre
  <2>3. u \in Touching(EndsOf(T)) \cap Usable
    BY <1>0, <2>1, <2>2 DEF Touching
  <2> QED BY <1>0, <2>3, NeighboursAre
<1>2. CASE X \cap T = {}
  <2> SUFFICES ASSUME NEW u \in Y \cap T PROVE FALSE
    BY <1>2
  <2>1. PICK n \in N : Inline(n) /\ n \in ToSet(src.terms[u])
    BY DEF Touching
  <2>2. PICK m \in X \cap Usable : n \in ToSet(src.terms[m])
    BY <2>1, EndsAre
  <2>3. n \in EndsOf(T)
    BY <1>0, <2>1, EndsAre
  <2>4. m \in Touching(EndsOf(T)) \cap Usable
    BY <1>0, <2>1, <2>2, <2>3 DEF Touching
  <2> QED BY <1>0, <1>2, <2>2, <2>4, NeighboursAre
<1> QED BY <1>1, <1>2 DEF Undivided
-----------------------------------------------------------------------------
(* The inductive invariant.                                                 *)

PCs == {"search", "expand", "build", "next", "boundary", "junctions", "persist", "done", "failed"}
Later == {"build", "next", "boundary", "junctions", "persist", "done"}
AfterRoutes == {"boundary", "junctions", "persist", "done"}
Routes == [members : SUBSET Segments, frontier : SUBSET Nat, queried : SUBSET Nat]

Typed ==
    /\ src \in Sources /\ batchSize \in BatchSizes /\ pc \in PCs
    /\ claimed \in SUBSET Segments /\ route \in Routes
    /\ raws \in Seq(SUBSET Segments)
    /\ start \in 0 .. Len(raws) /\ nextIdx \in Nat /\ batchIndex \in Nat
    /\ worker \in [Workers -> Int]

\* The routes found share nothing, lead to nothing outside and are no two routes in one;
\* the route being searched leads only to its frontier.
Searched ==
    /\ \A i \in 1 .. Len(raws) : /\ raws[i] # {} /\ Closed(raws[i]) /\ Undivided(raws[i])
                                 /\ raws[i] \cap route.members = {}
    /\ \A i, j \in 1 .. Len(raws) : i # j => raws[i] \cap raws[j] = {}
    /\ claimed = (UNION Range(raws)) \cup route.members
    /\ Undivided(route.members)
    /\ EndsOf(route.members) = route.frontier \cup route.queried
    /\ Touching(route.queried) \cap Usable \subseteq route.members
    /\ pc = "expand" => route.members # {}
    /\ pc \notin {"expand", "failed"} => route.members = {}
    /\ pc \in Later => claimed = Segments

\* The indexes handed out are being built or have been.
Pooled ==
    IF pc = "build"
    THEN /\ start < Len(raws) /\ nextIdx \in start .. End
         /\ \A i \in start + 1 .. nextIdx : i \in DOMAIN results \/ \E w \in Workers : worker[w] = i
         /\ \A i \in DOMAIN results : i \in start + 1 .. nextIdx /\ results[i] = BuildRoute(raws[i])
         /\ \A w \in Workers : /\ worker[w] \in {Left, Free} \cup (start + 1 .. nextIdx)
                               /\ worker[w] = Left => nextIdx = End
    ELSE AllLeft

\* The routes up to start are stored, in the store or in the result to be stored.
Placed == UNION {raws[i] : i \in 1 .. start}
Whole(t) == \A s \in t.edges \cap Segments : s \in DOMAIN t.equip /\ NodesOf(src.terms[s]) \subseteq t.nodes
Holds(t) == /\ \A i \in 1 .. start : \A s \in raws[i] : s \in DOMAIN t.equip /\ t.equip[s] = Min(raws[i])
            /\ t.edges \cap Segments = Usable \cap Placed
Lacks(t) == DOMAIN t.equip \cap Segments = {} /\ t.edges \cap Segments = {}
Stored ==
    /\ Whole(db) /\ Whole(res)
    /\ pc \in AfterRoutes => start = Len(raws)
    /\ pc \notin {"failed", "done"} => IF batchSize = 0 THEN Holds(res) /\ Lacks(db)
                                                        ELSE Holds(db) /\ Lacks(res)
    /\ pc = "done" => Holds(db)

\* A node leads to the first of the routes that touch it.
NodeOwners(n) == {Min(raws[i]) : i \in {i \in 1 .. start : n \in EndsOf(raws[i])}}
Named == pc # "failed" => nodeToContainer = [n \in EndsOf(Placed) |-> Min(NodeOwners(n))]

\* Every stored node is in a group, and no batch has used the owner of the next.
Grouped == pc # "failed" =>
    /\ db.nodes \subseteq UNION Range(db.groups)
    /\ pc # "done" => DOMAIN db.groups \subseteq {<<k>> : k \in 0 .. batchIndex - 1}

\* The flags tell of the routes, then of the Junctions too.
JunctionNodes == UNION {ToSet(t) : t \in Range(src.junctions)}
JunctionsPlaced(t) ==
    \A j \in DOMAIN src.junctions :
       /\ ToSet(src.junctions[j]) \cap EndsOf(Segments) # {} =>
             j \in DOMAIN t.equip /\ t.equip[j] \in {Min(M) : M \in Range(raws)}
       /\ Len(src.junctions[j]) > 0 => (j \in DOMAIN t.equip <=> j \notin anomalies)
Told ==
    /\ pc \in PCs \ {"persist", "done", "failed"} =>
          /\ anomalies = {} /\ flags.installed = flags.contained /\ flags.installed \subseteq Segments
          /\ flags.referenced = EndsOf(Placed)
          /\ DOMAIN db.equip \subseteq Segments /\ DOMAIN res.equip \subseteq Segments
    /\ pc \in {"persist", "done"} =>
          /\ flags.installed \ flags.contained = anomalies
          /\ flags.referenced = EndsOf(Placed) \cup JunctionNodes
    /\ pc = "persist" => JunctionsPlaced(res) /\ DOMAIN db.equip \subseteq Segments
    /\ pc = "done" => JunctionsPlaced(db)

Inv == Typed /\ Searched /\ Pooled /\ Stored /\ Named /\ Grouped /\ Told
-----------------------------------------------------------------------------
(* The source stays, and with it what is derived from it.                   *)

LEMMA SourceStays ==
    ASSUME src' = src
    PROVE  /\ Segments' = Segments /\ Usable' = Usable
           /\ \A S : EndsOf(S)' = EndsOf(S)
           /\ \A N : Touching(N)' = Touching(N)
           /\ \A S : Neighbours(S)' = Neighbours(S)
           /\ \A X : Closed(X)' = Closed(X)
           /\ \A X : Undivided(X)' = Undivided(X)
           /\ \A M : BuildRoute(M)' = BuildRoute(M)
           /\ JunctionNodes' = JunctionNodes
<1>1. Segments' = Segments
  BY DEF Segments
<1>2. Usable' = Usable
  BY <1>1 DEF Usable
<1>3. \A S : EndsOf(S)' = EndsOf(S)
  BY DEF EndsOf
<1>4. \A n : Inline(n)' = Inline(n)
  BY <1>1 DEF Inline
<1>5. \A N : Touching(N)' = Touching(N)
  BY <1>1, <1>4 DEF Touching
<1>6. \A S : Neighbours(S)' = Neighbours(S)
  BY <1>2, <1>3, <1>4 DEF Neighbours
<1>7. \A X : Closed(X)' = Closed(X)
  BY <1>2, <1>3, <1>5 DEF Closed
<1>8. \A X : Undivided(X)' = Undivided(X)
  BY <1>2, <1>6 DEF Undivided
<1>9. \A M : BuildRoute(M)' = BuildRoute(M)
  BY <1>3 DEF BuildRoute
<1>10. JunctionNodes' = JunctionNodes
  BY DEF JunctionNodes
<1> QED BY <1>1, <1>2, <1>3, <1>5, <1>6, <1>7, <1>8, <1>9, <1>10

\* No step changes the source or the batch size.
LEMMA SourceIsConstant ==
    ASSUME [Next]_vars PROVE src' = src /\ batchSize' = batchSize
BY DEF Next, Main, Errs, Work, vars, Seed, Expand, EndRoute, StartBatch, Emit,
       ResolveBoundaryEquivalents, ResolveStandaloneJunctions, PersistRest, Fail, Claim, Build

-----------------------------------------------------------------------------
(* The search.                                                              *)

LEMMA SearchStays ==
    ASSUME Typed, Searched, UNCHANGED <<src, search>>,
           pc' = "expand" => pc = "expand",
           pc' \notin {"expand", "failed"} => route.members = {},
           pc' \in Later => claimed = Segments
    PROVE  Searched'
<1>1. claimed' = claimed /\ route' = route /\ raws' = raws /\ src' = src
  BY DEF search
<1>2. /\ Segments' = Segments /\ Usable' = Usable /\ \A S : EndsOf(S)' = EndsOf(S)
      /\ \A N : Touching(N)' = Touching(N) /\ \A X : Closed(X)' = Closed(X)
      /\ \A X : Undivided(X)' = Undivided(X)
  BY <1>1, SourceStays
<1> QED BY <1>1, <1>2 DEF Searched

LEMMA RangeOfRaws ==
    ASSUME Typed
    PROVE  /\ Len(raws) \in Nat /\ DOMAIN raws = 1 .. Len(raws)
           /\ \A s : s \in UNION Range(raws) <=> \E i \in 1 .. Len(raws) : s \in raws[i]
           /\ \A i \in 1 .. Len(raws) : raws[i] \in SUBSET Segments
<1>1. raws \in Seq(SUBSET Segments)
  BY DEF Typed
<1> QED BY <1>1 DEF Range

LEMMA SeedSearches ==
    ASSUME Typed, Searched, Seed
    PROVE  Searched' /\ claimed' \in SUBSET Segments /\ route' \in Routes
<1>1. /\ Segments' = Segments /\ Usable' = Usable /\ \A S : EndsOf(S)' = EndsOf(S)
      /\ \A N : Touching(N)' = Touching(N) /\ \A X : Closed(X)' = Closed(X)
      /\ \A X : Undivided(X)' = Undivided(X)
  BY SourceStays DEF Seed
<1> DEFINE s == Min(Segments \ claimed)
<1>2. s \in Segments /\ s \notin claimed
  <2>1. claimed \in SUBSET Segments /\ claimed # Segments /\ Segments \subseteq Nat
    BY SourceFacts DEF Seed, Typed
  <2>2. Segments \ claimed \in SUBSET Nat /\ Segments \ claimed # {}
    BY <2>1
  <2> QED BY <2>2, MinIs
<1>3. /\ claimed' = claimed \cup {s} /\ raws' = raws /\ pc' = "expand" /\ pc = "search"
      /\ route' = [members |-> {s}, frontier |-> EndsOf({s}), queried |-> {}]
  BY DEF Seed
<1>4. EndsOf({s}) \subseteq Nat
  BY <1>2, EndsAre DEF Typed
<1> HIDE DEF s
<1>5. route'.members = {s} /\ route'.frontier = EndsOf({s}) /\ route'.queried = {} /\ route' \in Routes
  BY <1>2, <1>3, <1>4 DEF Routes
<1>6. route.members = {} /\ claimed = UNION Range(raws)
  BY <1>3 DEF Searched
<1>7. \A i \in 1 .. Len(raws) : raws[i] \cap {s} = {}
  BY <1>2, <1>6, RangeOfRaws
<1>8. Touching({}) = {}
  BY DEF Touching
<1>9. claimed' = (UNION Range(raws')) \cup route'.members
  BY <1>3, <1>5, <1>6
<1>10. Undivided({s})
  BY OneIsUndivided
<1>11. claimed' \in SUBSET Segments
  BY <1>2, <1>3 DEF Typed
<1>12. "expand" \notin Later
  BY DEF Later
<1> QED BY <1>1, <1>3, <1>5, <1>7, <1>8, <1>9, <1>10, <1>11, <1>12 DEF Searched

LEMMA ExpandSearches ==
    ASSUME Typed, Searched, Expand
    PROVE  Searched' /\ claimed' \in SUBSET Segments /\ route' \in Routes
<1>1. /\ Segments' = Segments /\ Usable' = Usable /\ \A S : EndsOf(S)' = EndsOf(S)
      /\ \A N : Touching(N)' = Touching(N) /\ \A X : Closed(X)' = Closed(X)
      /\ \A X : Undivided(X)' = Undivided(X)
  BY SourceStays DEF Expand
<1> DEFINE M == route.members  F == route.frontier
           new == Touching(F) \ claimed
           queried == route.queried \cup F
           G == EndsOf(new) \ queried
<1>2. /\ M \in SUBSET Segments /\ F \in SUBSET Nat /\ route.queried \in SUBSET Nat
      /\ new \in SUBSET Segments
  BY DEF Typed, Routes, Touching
<1>3. /\ claimed' = claimed \cup new /\ raws' = raws /\ pc' = pc /\ pc = "expand"
      /\ route' = [members |-> M \cup new, frontier |-> G, queried |-> queried]
  BY DEF Expand
<1>4. G \in SUBSET Nat
  BY <1>2, EndsAre DEF Typed
<1>5. Undivided(M) /\ EndsOf(M) = F \cup route.queried /\ Touching(route.queried) \cap Usable \subseteq M
  BY DEF Searched
<1>6. Undivided(M \cup new)
  BY <1>2, <1>5, GrowsUndivided DEF Typed
<1>7. \A n : n \in EndsOf(M \cup new) <=> n \in G \cup queried
  <2>1. \A n : n \in EndsOf(M \cup new) <=> n \in EndsOf(M) \/ n \in EndsOf(new)
    BY <1>2, EndsAre DEF Typed
  <2> QED BY <1>5, <2>1
\* A usable segment that the frontier leads to and a route has already would be in this one.
<1>8. Touching(queried) \cap Usable \subseteq M \cup new
  <2> SUFFICES ASSUME NEW u \in Touching(F) \cap Usable, u \notin M, u \in claimed PROVE FALSE
    <3>1. \A u : u \in Touching(queried) => u \in Touching(route.queried) \/ u \in Touching(F)
      BY DEF Touching
    <3> QED BY <1>5, <3>1
  <2>1. PICK i \in 1 .. Len(raws) : u \in raws[i]
    BY RangeOfRaws DEF Searched
  <2>2. raws[i] \in SUBSET Segments /\ Closed(raws[i]) /\ raws[i] \cap M = {}
    BY RangeOfRaws DEF Searched
  <2>3. PICK n \in F : Inline(n) /\ n \in ToSet(src.terms[u])
    BY DEF Touching
  <2>4. PICK m \in M \cap Usable : n \in ToSet(src.terms[m])
    BY <1>2, <1>5, <2>3, EndsAre DEF Typed
  <2>5. n \in EndsOf(raws[i])
    BY <2>1, <2>2, <2>3, EndsAre DEF Typed
  <2>6. m \in Touching(EndsOf(raws[i]))
    BY <1>2, <2>3, <2>4, <2>5 DEF Touching
  <2> QED BY <2>2, <2>4, <2>6 DEF Closed
<1>9. \A i \in 1 .. Len(raws) : raws[i] \cap (M \cup new) = {}
  <2>1. \A i \in 1 .. Len(raws) : raws[i] \cap M = {} /\ raws[i] \subseteq claimed
    BY RangeOfRaws DEF Searched
  <2> QED BY <2>1
<1>10. claimed = (UNION Range(raws)) \cup M /\ M # {}
  BY <1>3 DEF Searched
<1> HIDE DEF M, F, new, queried, G
<1>11. /\ route'.members = M \cup new /\ route'.frontier = G /\ route'.queried = queried
  BY <1>3
<1>12. route' \in Routes
  BY <1>2, <1>3, <1>4 DEF Routes, queried
<1>13. "expand" \notin Later
  BY DEF Later
<1>14. claimed' = (UNION Range(raws')) \cup route'.members
  BY <1>3, <1>10, <1>11
<1>15. claimed' \in SUBSET Segments
  BY <1>2, <1>3 DEF Typed
<1>16. \A i \in 1 .. Len(raws) : raws[i] # {} /\ Closed(raws[i]) /\ Undivided(raws[i])
  BY DEF Searched
<1>17. \A i, j \in 1 .. Len(raws) : i # j => raws[i] \cap raws[j] = {}
  BY DEF Searched
<1>18. EndsOf(M \cup new) = G \cup queried
  BY <1>7
<1>19. Searched'
  <2>1. \A i \in 1 .. Len(raws') : raws'[i] # {} /\ Closed(raws[i])' /\ Undivided(raws[i])'
                                   /\ raws'[i] \cap route'.members = {}
    BY <1>1, <1>3, <1>9, <1>11, <1>16
  <2>2. Undivided(route.members)'
    BY <1>1, <1>6, <1>11
  <2>3. EndsOf(route.members)' = route'.frontier \cup route'.queried
    BY <1>1, <1>11, <1>18
  <2>4. (Touching(route.queried) \cap Usable)' \subseteq route'.members
    BY <1>1, <1>8, <1>11
  <2>5. route'.members # {}
    BY <1>10, <1>11
  <2> QED BY <1>3, <1>13, <1>14, <1>17, <2>1, <2>2, <2>3, <2>4, <2>5 DEF Searched
<1> QED BY <1>12, <1>15, <1>19

LEMMA EndRouteSearches ==
    ASSUME Typed, Searched, EndRoute
    PROVE  /\ Searched' /\ route' \in Routes /\ raws' \in Seq(SUBSET Segments)
           /\ Len(raws') = Len(raws) + 1 /\ \A i \in 1 .. Len(raws) : raws'[i] = raws[i]
<1>1. /\ Segments' = Segments /\ Usable' = Usable /\ \A S : EndsOf(S)' = EndsOf(S)
      /\ \A N : Touching(N)' = Touching(N) /\ \A X : Closed(X)' = Closed(X)
      /\ \A X : Undivided(X)' = Undivided(X)
  BY SourceStays DEF EndRoute
<1> DEFINE M == route.members
<1>2. M \in SUBSET Segments /\ raws \in Seq(SUBSET Segments)
  BY DEF Typed, Routes
<1>3. /\ raws' = Append(raws, M) /\ route' = NoRoute /\ pc = "expand" /\ pc' = "search"
      /\ claimed' = claimed /\ route.frontier = {}
  BY DEF EndRoute
<1>4. /\ Len(raws') = Len(raws) + 1 /\ raws' \in Seq(SUBSET Segments)
      /\ \A i \in 1 .. Len(raws) : raws'[i] = raws[i]
      /\ raws'[Len(raws) + 1] = M
  BY <1>2, <1>3
<1>5. M # {} /\ Undivided(M) /\ EndsOf(M) = route.queried /\ Touching(route.queried) \cap Usable \subseteq M
  BY <1>3 DEF Searched
<1>6. Closed(M)
  BY <1>5 DEF Closed
<1>7. route' \in Routes /\ route'.members = {} /\ route'.frontier = {} /\ route'.queried = {}
  BY <1>3 DEF Routes, NoRoute
<1>8. Undivided({}) /\ EndsOf({}) = {} /\ Touching({}) = {}
  BY DEF Undivided, EndsOf, Touching
<1> HIDE DEF M
<1>9. Len(raws) \in Nat
  BY <1>2
<1>10. \A i \in 1 .. Len(raws') : i \in 1 .. Len(raws) \/ i = Len(raws) + 1
  BY <1>4, <1>9
<1>11. \A i \in 1 .. Len(raws) : raws[i] # {} /\ Closed(raws[i]) /\ Undivided(raws[i]) /\ raws[i] \cap M = {}
  BY DEF Searched, M
<1>12. \A i \in 1 .. Len(raws') : raws'[i] # {} /\ Closed(raws'[i]) /\ Undivided(raws'[i])
  <2> TAKE i \in 1 .. Len(raws')
  <2>1. CASE i \in 1 .. Len(raws)
    BY <1>4, <1>11, <2>1
  <2>2. CASE i = Len(raws) + 1
    BY <1>4, <1>5, <1>6, <2>2
  <2> QED BY <1>10, <2>1, <2>2
<1>13. \A i, j \in 1 .. Len(raws') : i # j => raws'[i] \cap raws'[j] = {}
  <2>1. \A i, j \in 1 .. Len(raws) : i # j => raws[i] \cap raws[j] = {}
    BY DEF Searched
  <2> QED BY <1>4, <1>10, <1>11, <2>1
<1>14. claimed' = UNION Range(raws')
  <2>1. claimed = (UNION Range(raws)) \cup M
    BY DEF Searched, M
  <2>2. \A s : s \in UNION Range(raws') <=> \E i \in 1 .. Len(raws') : s \in raws'[i]
    BY <1>4 DEF Range
  <2>3. \A s : (\E i \in 1 .. Len(raws') : s \in raws'[i]) <=>
               (\E i \in 1 .. Len(raws) : s \in raws[i]) \/ s \in M
    <3>1. 1 .. Len(raws) \subseteq 1 .. Len(raws') /\ Len(raws) + 1 \in 1 .. Len(raws')
      BY <1>4, <1>9
    <3> QED BY <1>4, <1>10, <3>1
  <2>4. \A s : s \in claimed <=> s \in UNION Range(raws')
    BY <2>1, <2>2, <2>3, RangeOfRaws
  <2> QED BY <1>3, <2>4
<1>15. Searched'
  <2>1. \A i \in 1 .. Len(raws') : raws'[i] # {} /\ Closed(raws[i])' /\ Undivided(raws[i])'
                                   /\ raws'[i] \cap route'.members = {}
    BY <1>1, <1>7, <1>12
  <2>2. Undivided(route.members)'
    BY <1>1, <1>7, <1>8
  <2>3. EndsOf(route.members)' = route'.frontier \cup route'.queried
    BY <1>1, <1>7, <1>8
  <2>4. (Touching(route.queried) \cap Usable)' \subseteq route'.members
    BY <1>1, <1>7, <1>8
  <2>5. claimed' = (UNION Range(raws')) \cup route'.members
    BY <1>7, <1>14
  <2>6. "search" \notin Later
    BY DEF Later
  <2> QED BY <1>3, <1>7, <1>13, <2>1, <2>2, <2>3, <2>4, <2>5, <2>6 DEF Searched
<1> QED BY <1>4, <1>7, <1>15
-----------------------------------------------------------------------------
(* Steps that store nothing.                                                *)

LEMMA RowsStay ==
    ASSUME src' = src, start' = start, \A i \in 1 .. start : raws'[i] = raws[i]
    PROVE  /\ Placed' = Placed /\ \A n : NodeOwners(n)' = NodeOwners(n)
           /\ \A t : Whole(t)' = Whole(t) /\ Holds(t)' = Holds(t) /\ Lacks(t)' = Lacks(t)
<1>1. Segments' = Segments /\ Usable' = Usable /\ \A S : EndsOf(S)' = EndsOf(S)
  BY SourceStays
<1>2. Placed' = Placed
  BY DEF Placed
<1>3. \A n : NodeOwners(n)' = NodeOwners(n)
  BY <1>1 DEF NodeOwners
<1>4. \A t : Whole(t)' = Whole(t) /\ Holds(t)' = Holds(t) /\ Lacks(t)' = Lacks(t)
  BY <1>1, <1>2 DEF Whole, Holds, Lacks
<1> QED BY <1>2, <1>3, <1>4

Storing == <<src, batchSize, start, nodeToContainer, batchIndex, res, db, flags, anomalies>>

LEMMA NothingStored ==
    ASSUME Typed, Stored, Named, Grouped, Told, UNCHANGED Storing,
           \A i \in 1 .. start : raws'[i] = raws[i],
           \/ pc' = "failed"
           \/ /\ pc \in PCs \ {"persist", "done", "failed"}
              /\ pc' \in PCs \ {"persist", "done", "failed"}
              /\ pc' \in AfterRoutes => start = Len(raws')
    PROVE  Stored' /\ Named' /\ Grouped' /\ Told'
<1>1. /\ src' = src /\ batchSize' = batchSize /\ start' = start
      /\ nodeToContainer' = nodeToContainer /\ batchIndex' = batchIndex
      /\ res' = res /\ db' = db /\ flags' = flags /\ anomalies' = anomalies
  BY DEF Storing
<1>2. /\ Placed' = Placed /\ \A n : NodeOwners(n)' = NodeOwners(n)
      /\ \A t : Whole(t)' = Whole(t) /\ Holds(t)' = Holds(t) /\ Lacks(t)' = Lacks(t)
      /\ Segments' = Segments /\ \A S : EndsOf(S)' = EndsOf(S)
  BY <1>1, RowsStay, SourceStays
<1>3. Whole(db) /\ Whole(res) /\ "failed" \notin AfterRoutes
  BY DEF Stored, AfterRoutes
<1>4. CASE pc' = "failed"
  BY <1>1, <1>2, <1>3, <1>4 DEF Stored, Named, Grouped, Told, PCs
<1>5. CASE pc \in PCs \ {"persist", "done", "failed"} /\ pc' \in PCs \ {"persist", "done", "failed"}
           /\ (pc' \in AfterRoutes => start = Len(raws'))
  <2>1. Stored'
    BY <1>1, <1>2, <1>3, <1>5 DEF Stored
  <2>2. Named'
    BY <1>1, <1>2, <1>5 DEF Named
  <2>3. Grouped'
    BY <1>1, <1>5 DEF Grouped
  <2>4. Told'
    BY <1>1, <1>2, <1>5 DEF Told
  <2> QED BY <2>1, <2>2, <2>3, <2>4
<1> QED BY <1>4, <1>5

\* Where a batch ends.
LEMMA EndIs ==
    ASSUME Typed
    PROVE  /\ End \in start .. Len(raws) /\ Len(raws) \in Nat /\ start \in Nat
           /\ start < Len(raws) => start < End
           /\ batchSize = 0 => End = Len(raws)
<1>1. start \in 0 .. Len(raws) /\ batchSize \in Nat /\ Len(raws) \in Nat
  BY PoolAssumption DEF Typed
<1> QED BY <1>1 DEF End

LEMMA SeedStep ==
    ASSUME Inv, Seed PROVE Inv'
<1>1. Typed /\ Searched /\ Pooled /\ Stored /\ Named /\ Grouped /\ Told
  BY DEF Inv
<1>2. Searched' /\ claimed' \in SUBSET Segments /\ route' \in Routes
  BY <1>1, SeedSearches
<1>3. pc = "search" /\ pc' = "expand" /\ UNCHANGED Storing /\ raws' = raws /\ worker' = worker /\ nextIdx' = nextIdx
  BY DEF Seed, Storing, pool
<1>4. src' = src /\ start' = start /\ batchSize' = batchSize /\ batchIndex' = batchIndex
  BY <1>3 DEF Storing
<1>5. Typed'
  <2>1. Segments' = Segments /\ Routes' = Routes
    BY <1>4, SourceStays DEF Routes
  <2> QED BY <1>1, <1>2, <1>3, <1>4, <2>1 DEF Typed, PCs
<1>6. Stored' /\ Named' /\ Grouped' /\ Told'
  <2>1. "expand" \notin AfterRoutes
    BY DEF AfterRoutes
  <2> QED BY <1>1, <1>3, <2>1, NothingStored DEF PCs
<1>7. Pooled'
  BY <1>1, <1>3 DEF Pooled, AllLeft
<1> QED BY <1>2, <1>5, <1>6, <1>7 DEF Inv

LEMMA ExpandStep ==
    ASSUME Inv, Expand PROVE Inv'
<1>1. Typed /\ Searched /\ Pooled /\ Stored /\ Named /\ Grouped /\ Told
  BY DEF Inv
<1>2. Searched' /\ claimed' \in SUBSET Segments /\ route' \in Routes
  BY <1>1, ExpandSearches
<1>3. pc = "expand" /\ pc' = "expand" /\ UNCHANGED Storing /\ raws' = raws /\ worker' = worker /\ nextIdx' = nextIdx
  BY DEF Expand, Storing, pool
<1>4. src' = src /\ start' = start /\ batchSize' = batchSize /\ batchIndex' = batchIndex
  BY <1>3 DEF Storing
<1>5. Typed'
  <2>1. Segments' = Segments /\ Routes' = Routes
    BY <1>4, SourceStays DEF Routes
  <2> QED BY <1>1, <1>2, <1>3, <1>4, <2>1 DEF Typed, PCs
<1>6. Stored' /\ Named' /\ Grouped' /\ Told'
  <2>1. "expand" \notin AfterRoutes
    BY DEF AfterRoutes
  <2> QED BY <1>1, <1>3, <2>1, NothingStored DEF PCs
<1>7. Pooled'
  BY <1>1, <1>3 DEF Pooled, AllLeft
<1> QED BY <1>2, <1>5, <1>6, <1>7 DEF Inv

LEMMA EndRouteStep ==
    ASSUME Inv, EndRoute PROVE Inv'
<1>1. Typed /\ Searched /\ Pooled /\ Stored /\ Named /\ Grouped /\ Told
  BY DEF Inv
<1>2. /\ Searched' /\ route' \in Routes /\ raws' \in Seq(SUBSET Segments)
      /\ Len(raws') = Len(raws) + 1 /\ \A i \in 1 .. Len(raws) : raws'[i] = raws[i]
  BY <1>1, EndRouteSearches
<1>3. /\ pc = "expand" /\ pc' = "search" /\ UNCHANGED Storing /\ claimed' = claimed
      /\ worker' = worker /\ nextIdx' = nextIdx
  BY DEF EndRoute, Storing, pool
<1>4. src' = src /\ start' = start /\ batchSize' = batchSize /\ batchIndex' = batchIndex
  BY <1>3 DEF Storing
<1>5. start \in 0 .. Len(raws) /\ Len(raws) \in Nat
  BY <1>1, EndIs
<1>6. Typed'
  <2>1. Segments' = Segments /\ Routes' = Routes
    BY <1>4, SourceStays DEF Routes
  <2>2. start' \in 0 .. Len(raws')
    BY <1>2, <1>4, <1>5
  <2> QED BY <1>1, <1>2, <1>3, <1>4, <2>1, <2>2 DEF Typed, PCs
<1>7. Stored' /\ Named' /\ Grouped' /\ Told'
  <2>1. "search" \notin AfterRoutes
    BY DEF AfterRoutes
  <2>2. \A i \in 1 .. start : raws'[i] = raws[i]
    BY <1>2, <1>5
  <2> QED BY <1>1, <1>3, <2>1, <2>2, NothingStored DEF PCs
<1>8. Pooled'
  BY <1>1, <1>3 DEF Pooled, AllLeft
<1> QED BY <1>2, <1>6, <1>7, <1>8 DEF Inv

LEMMA StartBatchStep ==
    ASSUME Inv, StartBatch PROVE Inv'
<1>1. Typed /\ Searched /\ Pooled /\ Stored /\ Named /\ Grouped /\ Told
  BY DEF Inv
<1>2. /\ UNCHANGED Storing /\ UNCHANGED <<src, search>> /\ start' = start /\ raws' = raws
      /\ claimed' = claimed /\ route' = route /\ src' = src /\ batchSize' = batchSize /\ batchIndex' = batchIndex
  BY DEF StartBatch, Storing, search
<1>3. pc \in {"search", "next"} /\ pc' \in {"build", "boundary"} /\ claimed = Segments /\ route.members = {}
  BY <1>1 DEF StartBatch, Searched, Later
<1>4. Searched'
  BY <1>1, <1>2, <1>3, SearchStays
<1>5. Segments' = Segments /\ Routes' = Routes /\ End' = End
  BY <1>2, SourceStays DEF Routes, End
<1>6. start \in Nat /\ Len(raws) \in Nat /\ start <= Len(raws) /\ (start < Len(raws) => start < End)
  BY <1>1, EndIs
<1>7. CASE start < Len(raws)
  <2>1. pc' = "build" /\ worker' = [w \in Workers |-> Free] /\ nextIdx' = start /\ results' = NoRow
    BY <1>7 DEF StartBatch
  <2>2. Typed'
    BY <1>1, <1>2, <1>5, <1>6, <2>1 DEF Typed, PCs, Free
  <2>3. DOMAIN results' = {} /\ start + 1 .. start = {}
    BY <1>6, <2>1 DEF NoRow
  <2>4. Pooled'
    <3>1. start' < Len(raws') /\ nextIdx' \in start' .. End'
      BY <1>2, <1>5, <1>6, <1>7, <2>1, EndIs, <1>1
    <3>2. start' + 1 .. nextIdx' = {} /\ DOMAIN results' = {}
      BY <1>2, <2>1, <2>3
    <3>3. \A w \in Workers : worker'[w] = Free
      BY <2>1
    <3> QED BY <2>1, <3>1, <3>2, <3>3 DEF Pooled, Free, Left
  <2>5. Stored' /\ Named' /\ Grouped' /\ Told'
    BY <1>1, <1>2, <1>3, <2>1, NothingStored DEF PCs, AfterRoutes
  <2> QED BY <1>4, <2>2, <2>4, <2>5 DEF Inv
<1>8. CASE ~(start < Len(raws))
  <2>1. pc' = "boundary" /\ worker' = worker /\ nextIdx' = nextIdx /\ results' = results
    BY <1>8 DEF StartBatch
  <2>2. Typed'
    BY <1>1, <1>2, <1>5, <2>1 DEF Typed, PCs
  <2>3. Pooled'
    BY <1>1, <1>3, <2>1 DEF Pooled, AllLeft
  <2>4. start = Len(raws')
    BY <1>2, <1>6, <1>8
  <2>5. Stored' /\ Named' /\ Grouped' /\ Told'
    BY <1>1, <1>2, <1>3, <2>1, <2>4, NothingStored DEF PCs
  <2> QED BY <1>4, <2>2, <2>3, <2>5 DEF Inv
<1> QED BY <1>7, <1>8

LEMMA ClaimStep ==
    ASSUME Inv, NEW w \in Workers, Claim(w) PROVE Inv'
<1>1. Typed /\ Searched /\ Pooled /\ Stored /\ Named /\ Grouped /\ Told
  BY DEF Inv
<1>2. /\ UNCHANGED Storing /\ UNCHANGED <<src, search>> /\ start' = start /\ raws' = raws /\ pc' = pc
      /\ claimed' = claimed /\ route' = route /\ src' = src /\ batchSize' = batchSize
      /\ batchIndex' = batchIndex /\ results' = results
  BY DEF Claim, Storing, search
<1>3. pc = "build" /\ claimed = Segments /\ route.members = {}
  BY <1>1 DEF Claim, Pooled, AllLeft, Free, Left, Searched, Later
<1>4. Searched'
  BY <1>1, <1>2, <1>3, SearchStays
<1>5. Segments' = Segments /\ Routes' = Routes /\ End' = End /\ \A M : BuildRoute(M)' = BuildRoute(M)
  BY <1>2, SourceStays DEF Routes, End
<1>6. start \in Nat /\ End \in Nat /\ nextIdx \in Nat /\ worker \in [Workers -> Int]
  BY <1>1, EndIs DEF Typed
<1>7. Stored' /\ Named' /\ Grouped' /\ Told'
  BY <1>1, <1>2, <1>3, NothingStored DEF PCs, AfterRoutes
<1>8. /\ start < Len(raws) /\ nextIdx \in start .. End
      /\ \A i \in start + 1 .. nextIdx : i \in DOMAIN results \/ \E v \in Workers : worker[v] = i
      /\ \A i \in DOMAIN results : i \in start + 1 .. nextIdx /\ results[i] = BuildRoute(raws[i])
      /\ \A v \in Workers : /\ worker[v] \in {Left, Free} \cup (start + 1 .. nextIdx)
                            /\ worker[v] = Left => nextIdx = End
  BY <1>1, <1>3 DEF Pooled
<1>9. worker[w] = Free
  BY DEF Claim
<1>10. CASE nextIdx < End
  <2>1. worker' = [worker EXCEPT ![w] = nextIdx + 1] /\ nextIdx' = nextIdx + 1
    BY <1>10 DEF Claim
  <2>2. Typed'
    BY <1>1, <1>2, <1>5, <1>6, <2>1 DEF Typed
  <2>3. /\ \A i \in start + 1 .. nextIdx + 1 : i \in start + 1 .. nextIdx \/ i = nextIdx + 1
        /\ \A i \in start + 1 .. nextIdx : i \in start + 1 .. nextIdx + 1 /\ i # Free
        /\ nextIdx + 1 \in start + 1 .. nextIdx + 1 /\ nextIdx + 1 \in start .. End
    BY <1>6, <1>8, <1>10 DEF Free
  <2>4. worker'[w] = nextIdx + 1 /\ \A v \in Workers : v # w => worker'[v] = worker[v]
    BY <1>6, <2>1
  <2>5. \A i \in start + 1 .. nextIdx' : i \in DOMAIN results' \/ \E v \in Workers : worker'[v] = i
    <3> SUFFICES ASSUME NEW i \in start + 1 .. nextIdx + 1, i \notin DOMAIN results
                 PROVE  \E v \in Workers : worker'[v] = i
      BY <1>2, <2>1
    <3>1. CASE i = nextIdx + 1
      BY <2>4, <3>1
    <3>2. CASE i \in start + 1 .. nextIdx
      <4>1. PICK v \in Workers : worker[v] = i
        BY <1>8, <3>2
      <4> QED BY <1>9, <2>3, <2>4, <3>2, <4>1
    <3> QED BY <2>3, <3>1, <3>2
  <2>6. \A i \in DOMAIN results' : i \in start + 1 .. nextIdx' /\ results'[i] = BuildRoute(raws'[i])
    BY <1>2, <1>8, <2>1, <2>3
  <2>7. \A v \in Workers : /\ worker'[v] \in {Left, Free} \cup (start + 1 .. nextIdx')
                           /\ worker'[v] = Left => nextIdx' = End
    <3> TAKE v \in Workers
    <3>1. CASE v = w
      BY <1>6, <2>1, <2>3, <2>4, <3>1 DEF Left
    <3>2. CASE v # w
      BY <1>8, <1>10, <2>1, <2>3, <2>4, <3>2
    <3> QED BY <3>1, <3>2
  <2>8. Pooled'
    BY <1>2, <1>3, <1>5, <1>8, <2>1, <2>3, <2>5, <2>6, <2>7 DEF Pooled
  <2> QED BY <1>4, <1>7, <2>2, <2>8 DEF Inv
<1>11. CASE ~(nextIdx < End)
  <2>1. worker' = [worker EXCEPT ![w] = Left] /\ nextIdx' = nextIdx
    BY <1>11 DEF Claim
  <2>2. Typed'
    BY <1>1, <1>2, <1>5, <1>6, <2>1 DEF Typed, Left
  <2>3. nextIdx = End
    BY <1>6, <1>8, <1>11
  <2>4. worker'[w] = Left /\ \A v \in Workers : v # w => worker'[v] = worker[v]
    BY <1>6, <2>1
  <2>5. \A i \in start + 1 .. nextIdx' : i \in DOMAIN results' \/ \E v \in Workers : worker'[v] = i
    <3> SUFFICES ASSUME NEW i \in start + 1 .. nextIdx, i \notin DOMAIN results
                 PROVE  \E v \in Workers : worker'[v] = i
      BY <1>2, <2>1
    <3>1. PICK v \in Workers : worker[v] = i
      BY <1>8
    <3>2. i # Free
      BY <1>6 DEF Free
    <3> QED BY <1>9, <2>4, <3>1, <3>2
  <2>6. \A i \in DOMAIN results' : i \in start + 1 .. nextIdx' /\ results'[i] = BuildRoute(raws'[i])
    BY <1>2, <1>8, <2>1
  <2>7. \A v \in Workers : /\ worker'[v] \in {Left, Free} \cup (start + 1 .. nextIdx')
                           /\ worker'[v] = Left => nextIdx' = End
    BY <1>8, <2>1, <2>3, <2>4
  <2>8. Pooled'
    BY <1>2, <1>3, <1>5, <1>8, <2>1, <2>5, <2>6, <2>7 DEF Pooled
  <2> QED BY <1>4, <1>7, <2>2, <2>8 DEF Inv
<1> QED BY <1>10, <1>11

LEMMA BuildStep ==
    ASSUME Inv, NEW w \in Workers, Build(w) PROVE Inv'
<1>1. Typed /\ Searched /\ Pooled /\ Stored /\ Named /\ Grouped /\ Told
  BY DEF Inv
<1>2. /\ UNCHANGED Storing /\ UNCHANGED <<src, search>> /\ start' = start /\ raws' = raws /\ pc' = pc
      /\ claimed' = claimed /\ route' = route /\ src' = src /\ batchSize' = batchSize
      /\ batchIndex' = batchIndex /\ nextIdx' = nextIdx
  BY DEF Build, Storing, search
<1>3. pc = "build" /\ claimed = Segments /\ route.members = {}
  BY <1>1 DEF Build, Pooled, AllLeft, Left, Searched, Later
<1>4. Searched'
  BY <1>1, <1>2, <1>3, SearchStays
<1>5. Segments' = Segments /\ Routes' = Routes /\ End' = End /\ \A M : BuildRoute(M)' = BuildRoute(M)
  BY <1>2, SourceStays DEF Routes, End
<1>6. start \in Nat /\ End \in Nat /\ nextIdx \in Nat /\ worker \in [Workers -> Int]
  BY <1>1, EndIs DEF Typed
<1>7. Stored' /\ Named' /\ Grouped' /\ Told'
  BY <1>1, <1>2, <1>3, NothingStored DEF PCs, AfterRoutes
<1>8. /\ start < Len(raws) /\ nextIdx \in start .. End
      /\ \A i \in start + 1 .. nextIdx : i \in DOMAIN results \/ \E v \in Workers : worker[v] = i
      /\ \A i \in DOMAIN results : i \in start + 1 .. nextIdx /\ results[i] = BuildRoute(raws[i])
      /\ \A v \in Workers : /\ worker[v] \in {Left, Free} \cup (start + 1 .. nextIdx)
                            /\ worker[v] = Left => nextIdx = End
  BY <1>1, <1>3 DEF Pooled
<1> DEFINE k == worker[w]
<1>9. k > 0 /\ worker' = [worker EXCEPT ![w] = Free] /\ results' = Put(k, BuildRoute(raws[k]), results)
  BY DEF Build
<1>10. k \in start + 1 .. nextIdx
  BY <1>8, <1>9 DEF Left, Free
<1>11. worker'[w] = Free /\ \A v \in Workers : v # w => worker'[v] = worker[v]
  BY <1>6, <1>9
<1> HIDE DEF k
<1>12. /\ DOMAIN results' = DOMAIN results \cup {k} /\ results'[k] = BuildRoute(raws[k])
       /\ \A i \in DOMAIN results : i # k => results'[i] = results[i]
  <2> DEFINE row == BuildRoute(raws[k])
  <2>1. results' = Put(k, row, results)
    BY <1>9
  <2> HIDE DEF row
  <2>2. /\ DOMAIN Put(k, row, results) = DOMAIN results \cup {k} /\ Put(k, row, results)[k] = row
        /\ \A i \in DOMAIN results : i # k => Put(k, row, results)[i] = results[i]
    BY DEF Put
  <2>3. results'[k] = row
    BY <2>1, <2>2
  <2> QED BY <2>1, <2>2, <2>3 DEF row
<1>13. \A i \in start + 1 .. nextIdx : i \in DOMAIN results' \/ \E v \in Workers : worker'[v] = i
  <2> SUFFICES ASSUME NEW i \in start + 1 .. nextIdx, i \notin DOMAIN results, i # k
               PROVE  \E v \in Workers : worker'[v] = i
    BY <1>12
  <2>1. PICK v \in Workers : worker[v] = i
    BY <1>8
  <2> QED BY <1>11, <2>1 DEF k
<1>14. \A i \in DOMAIN results' : i \in start + 1 .. nextIdx /\ results'[i] = BuildRoute(raws[i])
  BY <1>8, <1>10, <1>12
<1>15. \A v \in Workers : /\ worker'[v] \in {Left, Free} \cup (start + 1 .. nextIdx)
                          /\ worker'[v] = Left => nextIdx = End
  BY <1>8, <1>11 DEF Left, Free
<1>16. Typed'
  BY <1>1, <1>2, <1>5, <1>6, <1>9 DEF Typed, Free
<1>17. Pooled'
  BY <1>2, <1>3, <1>5, <1>8, <1>13, <1>14, <1>15 DEF Pooled
<1> QED BY <1>4, <1>7, <1>16, <1>17 DEF Inv

LEMMA FailStep ==
    ASSUME Inv, Fail PROVE Inv'
<1>1. Typed /\ Searched /\ Pooled /\ Stored /\ Named /\ Grouped /\ Told
  BY DEF Inv
<1>2. /\ UNCHANGED Storing /\ UNCHANGED <<src, search>> /\ start' = start /\ raws' = raws /\ pc' = "failed"
      /\ claimed' = claimed /\ route' = route /\ src' = src /\ batchSize' = batchSize
      /\ batchIndex' = batchIndex /\ nextIdx' = nextIdx /\ worker' = worker
  BY DEF Fail, Storing, search, pool
<1>3. Searched'
  BY <1>1, <1>2, SearchStays DEF Later
<1>4. Segments' = Segments /\ Routes' = Routes
  BY <1>2, SourceStays DEF Routes
<1>5. Typed'
  BY <1>1, <1>2, <1>4 DEF Typed, PCs
<1>6. Pooled'
  BY <1>1, <1>2 DEF Pooled, Fail, AllLeft
<1>7. Stored' /\ Named' /\ Grouped' /\ Told'
  BY <1>1, <1>2, NothingStored
<1> QED BY <1>3, <1>5, <1>6, <1>7 DEF Inv
-----------------------------------------------------------------------------
(* A batch of routes is merged and stored.                                  *)

Batch == start + 1 .. End
BatchRows == MergeRows(Range(results))

\* The results of a batch that is done are its routes.
LEMMA BatchIsBuilt ==
    ASSUME Typed, Pooled, pc = "build", AllLeft
    PROVE  /\ start < End /\ DOMAIN results = Batch
           /\ \A i \in Batch : results[i] = BuildRoute(raws[i]) /\ i \in 1 .. Len(raws)
           /\ \A r : r \in Range(results) <=> \E i \in Batch : r = BuildRoute(raws[i])
<1>1. PICK w \in Workers : TRUE
  BY PoolAssumption
<1>2. nextIdx = End /\ start < Len(raws)
  BY <1>1 DEF Pooled, AllLeft
<1>3. start \in Nat /\ End \in start .. Len(raws) /\ Len(raws) \in Nat /\ start < End
  BY <1>2, EndIs
<1>4. \A i \in Batch : i \in DOMAIN results
  <2> SUFFICES ASSUME NEW i \in Batch, i \notin DOMAIN results PROVE FALSE
    OBVIOUS
  <2>1. \E v \in Workers : worker[v] = i
    BY <1>2 DEF Pooled, Batch
  <2>2. i # Left
    BY <1>3 DEF Batch, Left
  <2> QED BY <2>1, <2>2 DEF AllLeft
<1>5. \A i \in DOMAIN results : i \in Batch /\ results[i] = BuildRoute(raws[i])
  BY <1>2 DEF Pooled, Batch
<1>6. \A i \in Batch : i \in 1 .. Len(raws)
  BY <1>3 DEF Batch
<1>7. DOMAIN results = Batch
  BY <1>4, <1>5
<1>8. \A r : r \in Range(results) <=> \E i \in Batch : r = results[i]
  BY <1>7 DEF Range
<1> QED BY <1>3, <1>5, <1>6, <1>7, <1>8

\* What buildACLineComponentResult makes of a route.
LEMMA RouteIsBuilt ==
    ASSUME src \in Sources, NEW M \in SUBSET Segments
    PROVE  /\ BuildRoute(M).container = Min(M) /\ BuildRoute(M).members = M
           /\ BuildRoute(M).edges = M \cap Usable /\ BuildRoute(M).nodeToCont = EndsOf(M)
           /\ BuildRoute(M).nodes = UNION {NodesOf(src.terms[s]) : s \in M \cap Usable}
<1>1. {s \in M : Resolves(src.terms[s])} = M \cap Usable
  BY DEF Usable
<1> QED BY <1>1 DEF BuildRoute

\* The nodes of a usable segment are its ends, and ground when it has only one.
LEMMA NodesAre ==
    ASSUME src \in Sources, NEW s \in Segments
    PROVE  NodesOf(src.terms[s]) \ {GND} = ToSet(src.terms[s])
<1>1. src.terms[s] \in Seq(Nat \ {0})
  BY SourceFacts
<1>2. ToSet(src.terms[s]) \subseteq Nat \ {0}
  BY <1>1 DEF ToSet
<1> QED BY <1>2 DEF NodesOf, GND

LEMMA BatchRowsAre ==
    ASSUME Typed, Searched, Pooled, pc = "build", AllLeft
    PROVE  /\ \A i \in Batch : \A s \in raws[i] :
                 s \in DOMAIN BatchRows.equip /\ BatchRows.equip[s] = Min(raws[i])
           /\ DOMAIN BatchRows.equip = UNION {raws[i] : i \in Batch}
           /\ BatchRows.edges = Usable \cap UNION {raws[i] : i \in Batch}
           /\ BatchRows.nodes = UNION {NodesOf(src.terms[s]) : s \in BatchRows.edges}
           /\ Whole(BatchRows)
           /\ BatchRows.nodes \ {GND} = EndsOf(UNION {raws[i] : i \in Batch})
<1> DEFINE R == Range(results)  A == UNION {raws[i] : i \in Batch}
<1>1. /\ \A i \in Batch : i \in 1 .. Len(raws) /\ raws[i] \in SUBSET Segments
      /\ \A r : r \in R <=> \E i \in Batch : r = BuildRoute(raws[i])
  BY BatchIsBuilt, RangeOfRaws
<1> HIDE DEF R
<1>2. \A i \in Batch : /\ BuildRoute(raws[i]) \in R /\ BuildRoute(raws[i]).members = raws[i]
                       /\ BuildRoute(raws[i]).container = Min(raws[i])
                       /\ BuildRoute(raws[i]).edges = raws[i] \cap Usable
                       /\ BuildRoute(raws[i]).nodes = UNION {NodesOf(src.terms[s]) : s \in raws[i] \cap Usable}
  BY <1>1, RouteIsBuilt DEF Typed
<1>3. /\ BatchRows.equip = [s \in UNION {r.members : r \in R} |-> (CHOOSE r \in R : s \in r.members).container]
      /\ BatchRows.nodes = UNION {r.nodes : r \in R} /\ BatchRows.edges = UNION {r.edges : r \in R}
  BY DEF BatchRows, MergeRows, R
<1>4. UNION {r.members : r \in R} = A
  BY <1>1, <1>2
<1>5. BatchRows.edges = Usable \cap A
  BY <1>1, <1>2, <1>3
<1>6. ASSUME NEW i \in Batch, NEW s \in raws[i]
      PROVE  s \in DOMAIN BatchRows.equip /\ BatchRows.equip[s] = Min(raws[i])
  <2> DEFINE c == CHOOSE r \in R : s \in r.members
  <2>1. c \in R /\ s \in c.members
    BY <1>2, <1>6
  <2>2. PICK j \in Batch : c = BuildRoute(raws[j])
    BY <1>1, <2>1
  <2>3. s \in raws[j]
    BY <1>2, <2>1, <2>2
  <2>4. j = i
    BY <1>1, <1>6, <2>3 DEF Searched
  <2>5. c.container = Min(raws[i])
    BY <1>2, <2>2, <2>4
  <2>6. s \in A
    BY <1>6
  <2> QED BY <1>3, <1>4, <2>5, <2>6
<1>7. BatchRows.nodes = UNION {NodesOf(src.terms[s]) : s \in BatchRows.edges}
  <2>1. \A n : n \in BatchRows.nodes <=> \E i \in Batch : \E s \in raws[i] \cap Usable : n \in NodesOf(src.terms[s])
    <3>1. \A n : n \in BatchRows.nodes <=> \E i \in Batch : n \in BuildRoute(raws[i]).nodes
      BY <1>1, <1>2, <1>3
    <3>2. \A i \in Batch : \A n : n \in BuildRoute(raws[i]).nodes <=>
                                  \E s \in raws[i] \cap Usable : n \in NodesOf(src.terms[s])
      BY <1>2
    <3> QED BY <3>1, <3>2
  <2>2. \A s : s \in BatchRows.edges <=> \E i \in Batch : s \in raws[i] \cap Usable
    BY <1>5
  <2> QED BY <2>1, <2>2
<1>8. \A s \in A : \E i \in Batch : s \in raws[i]
  OBVIOUS
<1>9. Whole(BatchRows)
  BY <1>5, <1>6, <1>7, <1>8 DEF Whole
<1>10. BatchRows.nodes \ {GND} = EndsOf(A)
  <2>1. A \in SUBSET Segments
    BY <1>1
  <2>2. \A n : n \in EndsOf(A) <=> \E s \in A \cap Usable : n \in ToSet(src.terms[s])
    BY <2>1, EndsAre DEF Typed
  <2>3. \A s \in A : NodesOf(src.terms[s]) \ {GND} = ToSet(src.terms[s])
    BY <2>1, NodesAre DEF Typed
  <2>4. \A n : n \in BatchRows.nodes <=> \E s \in A \cap Usable : n \in NodesOf(src.terms[s])
    BY <1>5, <1>7
  <2> HIDE DEF A
  <2>5. \A n : n \in BatchRows.nodes \ {GND} <=> n \in EndsOf(A)
    BY <2>2, <2>3, <2>4
  <2> QED BY <2>5
<1>11. DOMAIN BatchRows.equip = A
  BY <1>3, <1>4
<1> QED BY <1>5, <1>6, <1>7, <1>9, <1>10, <1>11

\* mergeACLineComponentResults keeps, for each node, the first of the routes that touch it.
LEMMA MergeNames ==
    ASSUME Typed, Searched, Pooled, Named, pc = "build", AllLeft,
           src' = src, raws' = raws, start' = End
    PROVE  MergeNodeToContainer(nodeToContainer, Range(results))
             = [n \in EndsOf(Placed)' |-> Min(NodeOwners(n)')]
<1> DEFINE R == Range(results)  f == nodeToContainer
           S(n) == {r.container : r \in {r \in R : n \in r.nodeToCont}}
           F(n) == IF n \in DOMAIN f THEN {f[n]} ELSE {}
<1>1. /\ \A i \in Batch : i \in 1 .. Len(raws)
      /\ \A r : r \in R <=> \E i \in Batch : r = BuildRoute(raws[i])
      /\ start \in Nat /\ End \in Nat /\ start < End
  BY BatchIsBuilt, EndIs
<1> HIDE DEF R
<1>2. \A i \in 1 .. Len(raws) : raws[i] \in SUBSET Segments /\ raws[i] # {} /\ Min(raws[i]) \in Nat
  <2> SUFFICES ASSUME NEW i \in 1 .. Len(raws)
               PROVE  raws[i] \in SUBSET Segments /\ raws[i] # {} /\ Min(raws[i]) \in Nat
    OBVIOUS
  <2>1. raws[i] \in SUBSET Segments /\ raws[i] # {}
    BY RangeOfRaws DEF Searched
  <2>2. raws[i] \in SUBSET Nat
    BY <2>1, SourceFacts DEF Typed
  <2> QED BY <2>1, <2>2, MinIs
<1>3. \A i \in Batch : /\ BuildRoute(raws[i]) \in R /\ BuildRoute(raws[i]).container = Min(raws[i])
                       /\ BuildRoute(raws[i]).nodeToCont = EndsOf(raws[i])
  BY <1>1, <1>2, RouteIsBuilt DEF Typed
<1>4. /\ \A i : i \in 1 .. End <=> i \in 1 .. start \/ i \in Batch
      /\ 1 .. start \subseteq 1 .. Len(raws)
  BY <1>1, EndIs DEF Batch
<1>5. pc # "failed" /\ f = [n \in EndsOf(Placed) |-> Min(NodeOwners(n))]
  BY DEF Named
<1> HIDE DEF f
<1>6. \A n : n \in EndsOf(Placed) <=> \E i \in 1 .. start : n \in EndsOf(raws[i])
  <2>1. Placed \in SUBSET Segments
    BY <1>2, <1>4 DEF Placed
  <2>2. \A n : n \in EndsOf(Placed) <=> \E s \in Placed \cap Usable : n \in ToSet(src.terms[s])
    BY <2>1, EndsAre DEF Typed
  <2>3. \A i \in 1 .. start : \A n : n \in EndsOf(raws[i]) <=> \E s \in raws[i] \cap Usable : n \in ToSet(src.terms[s])
    BY <1>2, <1>4, EndsAre DEF Typed
  <2> QED BY <2>2, <2>3 DEF Placed
<1>7. \A n : n \in EndsOf(Placed)' <=> \E i \in 1 .. End : n \in EndsOf(raws[i])
  <2> DEFINE P == UNION {raws[i] : i \in 1 .. End}
  <2>1. Placed' = P /\ \A X : EndsOf(X)' = EndsOf(X)
    BY SourceStays DEF Placed
  <2>2. P \in SUBSET Segments
    BY <1>1, <1>2, <1>4
  <2>3. \A n : n \in EndsOf(P) <=> \E s \in P \cap Usable : n \in ToSet(src.terms[s])
    BY <2>2, EndsAre DEF Typed
  <2>4. \A i \in 1 .. End : \A n : n \in EndsOf(raws[i]) <=> \E s \in raws[i] \cap Usable : n \in ToSet(src.terms[s])
    BY <1>1, <1>2, <1>4, EndsAre DEF Typed
  <2>5. \A n : n \in EndsOf(P) <=> \E i \in 1 .. End : n \in EndsOf(raws[i])
    BY <2>3, <2>4
  <2> HIDE DEF P
  <2> QED BY <2>1, <2>5
<1>8. ASSUME NEW n
      PROVE  /\ NodeOwners(n)' = S(n) \cup NodeOwners(n)
             /\ S(n) \in SUBSET Nat /\ NodeOwners(n) \in SUBSET Nat
             /\ n \in DOMAIN f <=> NodeOwners(n) # {}
             /\ n \in DOMAIN f => f[n] = Min(NodeOwners(n))
  <2>1. \A x : x \in NodeOwners(n)' <=> \E i \in 1 .. End : n \in EndsOf(raws[i]) /\ x = Min(raws[i])
    <3>1. \A X : EndsOf(X)' = EndsOf(X)
      BY SourceStays
    <3> QED BY <3>1 DEF NodeOwners
  <2>2. \A x : x \in NodeOwners(n) <=> \E i \in 1 .. start : n \in EndsOf(raws[i]) /\ x = Min(raws[i])
    BY DEF NodeOwners
  <2>3. \A x : x \in S(n) <=> \E i \in Batch : n \in EndsOf(raws[i]) /\ x = Min(raws[i])
    BY <1>1, <1>3
  <2> HIDE DEF S
  <2>4. \A x : x \in NodeOwners(n)' <=> x \in S(n) \cup NodeOwners(n)
    BY <1>4, <2>1, <2>2, <2>3
  <2>5. NodeOwners(n)' = S(n) \cup NodeOwners(n)
    BY <2>4
  <2>6. S(n) \in SUBSET Nat /\ NodeOwners(n) \in SUBSET Nat
    BY <1>1, <1>2, <1>4, <2>2, <2>3
  <2>7. NodeOwners(n) # {} <=> n \in EndsOf(Placed)
    BY <1>6, <2>2
  <2> QED BY <1>5, <2>5, <2>6, <2>7
<1>9. DOMAIN f \cup UNION {r.nodeToCont : r \in R} = EndsOf(Placed)'
  <2>1. \A n : n \in UNION {r.nodeToCont : r \in R} <=> \E i \in Batch : n \in EndsOf(raws[i])
    BY <1>1, <1>3
  <2>2. DOMAIN f = EndsOf(Placed)
    BY <1>5
  <2>3. \A n : n \in DOMAIN f \cup UNION {r.nodeToCont : r \in R} <=> n \in EndsOf(Placed)'
    BY <1>4, <1>6, <1>7, <2>1, <2>2
  <2> QED BY <2>3
<1> HIDE DEF S
<1>10. ASSUME NEW n PROVE Min(S(n) \cup F(n)) = Min(NodeOwners(n)')
  <2>1. CASE n \in DOMAIN f
    <3>1. F(n) = {Min(NodeOwners(n))}
      BY <1>8, <2>1
    <3> HIDE DEF F
    <3> QED BY <1>8, <2>1, <3>1, MinOfUnion, ZenonT(30)
  <2>2. CASE n \notin DOMAIN f
    <3>1. F(n) = {} /\ NodeOwners(n) = {}
      BY <1>8, <2>2
    <3>2. S(n) \cup F(n) = S(n) \cup NodeOwners(n)
      BY <3>1
    <3> QED BY <1>8, <3>2
  <2> QED BY <2>1, <2>2
<1>11. MergeNodeToContainer(f, R) = [n \in EndsOf(Placed)' |-> Min(S(n) \cup F(n))]
  <2>1. MergeNodeToContainer(f, R) = [n \in DOMAIN f \cup UNION {r.nodeToCont : r \in R} |-> Min(S(n) \cup F(n))]
    BY DEF MergeNodeToContainer, S
  <2> QED BY <1>9, <2>1
<1> QED BY <1>10, <1>11 DEF f, R
\* A write of whole rows that stops after any table leaves whole rows.
LEMMA WriteKeepsWhole ==
    ASSUME Whole(db), NEW rows, Whole(rows), NEW k \in 0 .. AllTables, NEW owner
    PROVE  Whole(Write(k, rows, owner))
<1> DEFINE w == Write(k, rows, owner)
<1>1. k \in Nat
  BY DEF AllTables
<1>2. /\ w.equip = IF k >= 1 THEN Over(rows.equip, db.equip) ELSE db.equip
      /\ w.nodes = IF k >= 2 THEN db.nodes \cup rows.nodes ELSE db.nodes
      /\ w.edges = IF k >= 3 THEN db.edges \cup rows.edges ELSE db.edges
  BY DEF Write
<1> HIDE DEF w
<1>3. DOMAIN Over(rows.equip, db.equip) = DOMAIN rows.equip \cup DOMAIN db.equip
  BY OverRefers
<1>4. ASSUME NEW s \in w.edges \cap Segments
      PROVE  s \in DOMAIN w.equip /\ NodesOf(src.terms[s]) \subseteq w.nodes
  <2>1. CASE s \in db.edges
    BY <1>2, <1>3, <2>1 DEF Whole
  <2>2. CASE s \notin db.edges
    <3>1. k >= 3 /\ s \in rows.edges
      BY <1>2, <2>2
    <3>2. k >= 1 /\ k >= 2
      BY <1>1, <3>1
    <3> QED BY <1>2, <1>3, <3>1, <3>2 DEF Whole
  <2> QED BY <2>1, <2>2
<1> QED BY <1>4 DEF Whole, w

LEMMA PlusKeepsWhole ==
    ASSUME Whole(res), NEW rows, Whole(rows)
    PROVE  Whole(Plus(res, rows))
<1>1. /\ DOMAIN Plus(res, rows).equip = DOMAIN rows.equip \cup DOMAIN res.equip
      /\ Plus(res, rows).nodes = res.nodes \cup rows.nodes
      /\ Plus(res, rows).edges = res.edges \cup rows.edges
  BY OverRefers DEF Plus
<1> QED BY <1>1 DEF Whole

\* What a write of all tables leaves.
LEMMA WriteAll ==
    ASSUME NEW rows, NEW owner
    PROVE  LET w == Write(AllTables, rows, owner)
           IN  /\ w.equip = Over(rows.equip, db.equip) /\ w.nodes = db.nodes \cup rows.nodes
               /\ w.edges = db.edges \cup rows.edges /\ w.groups = Put(owner, rows.nodes, db.groups)
BY DEF Write, AllTables

\* A group under a new owner is one group more.
LEMMA NewGroup ==
    ASSUME NEW owner, NEW N, NEW groups, owner \notin DOMAIN groups
    PROVE  UNION Range(Put(owner, N, groups)) = N \cup UNION Range(groups)
<1> DEFINE g == Put(owner, N, groups)
<1>1. DOMAIN g = DOMAIN groups \cup {owner} /\ g[owner] = N /\ \A x \in DOMAIN groups : g[x] = groups[x]
  BY DEF Put
<1> HIDE DEF g
<1>2. \A n : n \in UNION Range(g) <=> \E x \in DOMAIN groups \cup {owner} : n \in g[x]
  BY <1>1 DEF Range
<1>3. \A n : n \in UNION Range(groups) <=> \E x \in DOMAIN groups : n \in groups[x]
  BY DEF Range
<1>4. \A n : n \in UNION Range(g) <=> n \in N \cup UNION Range(groups)
  BY <1>1, <1>2, <1>3
<1> QED BY <1>4 DEF g

\* The rows of a batch over a store that holds the routes before it.
LEMMA HoldsMore ==
    ASSUME Typed, Searched, Pooled, pc = "build", AllLeft,
           src' = src, raws' = raws, start' = End,
           NEW t, Holds(t), NEW u,
           u.equip = Over(BatchRows.equip, t.equip), u.edges = t.edges \cup BatchRows.edges
    PROVE  Holds(u)'
<1>1. /\ start < End /\ start \in Nat /\ End \in Nat /\ \A i \in Batch : i \in 1 .. Len(raws)
      /\ End <= Len(raws) /\ Len(raws) \in Nat
  BY BatchIsBuilt, EndIs
<1>2. \A i : i \in 1 .. End <=> i \in 1 .. start \/ i \in Batch
  BY <1>1 DEF Batch
<1>3. /\ \A i \in Batch : \A s \in raws[i] : s \in DOMAIN BatchRows.equip /\ BatchRows.equip[s] = Min(raws[i])
      /\ DOMAIN BatchRows.equip = UNION {raws[i] : i \in Batch}
      /\ BatchRows.edges = Usable \cap UNION {raws[i] : i \in Batch}
  BY BatchRowsAre
<1>4. /\ DOMAIN u.equip = DOMAIN BatchRows.equip \cup DOMAIN t.equip
      /\ \A x \in DOMAIN BatchRows.equip : u.equip[x] = BatchRows.equip[x]
      /\ \A x \in DOMAIN t.equip \ DOMAIN BatchRows.equip : u.equip[x] = t.equip[x]
  BY DEF Over
<1>5. ASSUME NEW i \in 1 .. End, NEW s \in raws[i]
      PROVE  s \in DOMAIN u.equip /\ u.equip[s] = Min(raws[i])
  <2>1. CASE i \in Batch
    BY <1>3, <1>4, <2>1
  <2>2. CASE i \in 1 .. start
    <3>1. s \notin DOMAIN BatchRows.equip
      <4>1. \A j \in Batch : j # i /\ j \in 1 .. Len(raws)
        BY <1>1, <2>2 DEF Batch
      <4>2. i \in 1 .. Len(raws)
        BY <1>1, <2>2
      <4> QED BY <1>3, <4>1, <4>2 DEF Searched
    <3>2. s \in DOMAIN t.equip /\ t.equip[s] = Min(raws[i])
      BY <2>2 DEF Holds
    <3> QED BY <1>4, <3>1, <3>2
  <2> QED BY <1>2, <2>1, <2>2
<1>6. u.edges \cap Segments = Usable \cap Placed'
  <2>1. t.edges \cap Segments = Usable \cap UNION {raws[i] : i \in 1 .. start}
    BY DEF Holds, Placed
  <2>2. Placed' = UNION {raws[i] : i \in 1 .. End}
    BY DEF Placed
  <2>3. Usable \subseteq Segments
    BY SourceFacts DEF Typed
  <2>4. \A s : s \in UNION {raws[i] : i \in 1 .. End} <=>
               s \in UNION {raws[i] : i \in 1 .. start} \/ s \in UNION {raws[i] : i \in Batch}
    BY <1>2
  <2> QED BY <1>3, <2>1, <2>2, <2>3, <2>4
<1>7. Segments' = Segments /\ Usable' = Usable
  BY SourceStays
<1> QED BY <1>5, <1>6, <1>7 DEF Holds

LEMMA EmitStep ==
    ASSUME Inv, NEW k \in 0 .. AllTables, Emit(k)
    PROVE  Inv'
<1>1. Typed /\ Searched /\ Pooled /\ Stored /\ Named /\ Grouped /\ Told
  BY DEF Inv
<1>2. /\ pc = "build" /\ AllLeft /\ start' = End /\ pc' = IF k = AllTables THEN "next" ELSE "failed"
      /\ src' = src /\ batchSize' = batchSize /\ claimed' = claimed /\ route' = route /\ raws' = raws
      /\ nextIdx' = nextIdx /\ worker' = worker /\ anomalies' = anomalies
      /\ UNCHANGED <<src, search>>
      /\ nodeToContainer' = MergeNodeToContainer(nodeToContainer, Range(results))
      /\ flags' = Marked(BatchRows.edges, BatchRows.edges, BatchRows.nodes)
  BY DEF Emit, search, BatchRows
<1>3. IF batchSize = 0
      THEN k = AllTables /\ res' = Plus(res, BatchRows) /\ db' = db /\ batchIndex' = batchIndex
      ELSE /\ db' = Write(k, BatchRows, <<batchIndex>>)
           /\ batchIndex' = batchIndex + 1 /\ res' = res
  BY DEF Emit, BatchRows, BatchOwner
<1>4. claimed = Segments /\ route.members = {}
  BY <1>1, <1>2 DEF Searched, Later
<1>5. Searched'
  BY <1>1, <1>2, <1>4, SearchStays
<1>6. End \in 0 .. Len(raws) /\ start \in Nat /\ End \in Nat
  BY <1>1, EndIs
<1>7. Typed'
  <2>1. Segments' = Segments /\ Routes' = Routes
    BY <1>2, SourceStays DEF Routes
  <2>2. batchIndex' \in Nat
    BY <1>1, <1>3 DEF Typed
  <2> QED BY <1>1, <1>2, <1>6, <2>1, <2>2 DEF Typed, PCs
<1>8. Pooled'
  BY <1>2 DEF Pooled, AllLeft
<1>9. /\ DOMAIN BatchRows.equip = UNION {raws[i] : i \in Batch}
      /\ BatchRows.edges = Usable \cap UNION {raws[i] : i \in Batch}
      /\ Whole(BatchRows)
      /\ BatchRows.nodes \ {GND} = EndsOf(UNION {raws[i] : i \in Batch})
  BY <1>1, <1>2, BatchRowsAre
<1>10. /\ Segments' = Segments /\ \A t : Whole(t)' = Whole(t) /\ Lacks(t)' = Lacks(t)
       /\ \A S : EndsOf(S)' = EndsOf(S)
  <2>1. Segments' = Segments /\ \A S : EndsOf(S)' = EndsOf(S)
    BY <1>2, SourceStays
  <2> QED BY <1>2, <2>1 DEF Whole, Lacks
<1>11. Whole(db)' /\ Whole(res)'
  <2>1. Whole(db) /\ Whole(res)
    BY <1>1 DEF Stored
  <2>2. CASE batchSize = 0
    BY <1>3, <1>9, <1>10, <2>1, <2>2, PlusKeepsWhole
  <2>3. CASE batchSize # 0
    BY <1>3, <1>9, <1>10, <2>1, <2>3, WriteKeepsWhole
  <2> QED BY <2>2, <2>3
<1>12. \A t, u : Holds(t) /\ u.equip = Over(BatchRows.equip, t.equip) /\ u.edges = t.edges \cup BatchRows.edges
                   => Holds(u)'
  BY <1>1, <1>2, HoldsMore
<1>13. Stored'
  <2>1. pc' \notin AfterRoutes /\ pc' # "done"
    BY <1>2 DEF AfterRoutes
  <2>2. ASSUME batchSize = 0, pc' # "failed" PROVE Holds(res)' /\ Lacks(db)'
    <3>1. Holds(res) /\ Lacks(db)
      BY <1>1, <1>2, <2>2 DEF Stored
    <3>2. res'.equip = Over(BatchRows.equip, res.equip) /\ res'.edges = res.edges \cup BatchRows.edges
      BY <1>3, <2>2 DEF Plus
    <3>3. Holds(res)'
      BY <1>12, <3>1, <3>2
    <3> QED BY <1>3, <1>10, <2>2, <3>1, <3>3
  <2>3. ASSUME batchSize # 0, pc' # "failed" PROVE Holds(db)' /\ Lacks(res)'
    <3>1. Holds(db) /\ Lacks(res)
      BY <1>1, <1>2, <2>3 DEF Stored
    <3>2. db'.equip = Over(BatchRows.equip, db.equip) /\ db'.edges = db.edges \cup BatchRows.edges
      BY <1>2, <1>3, <2>3, WriteAll
    <3>3. Holds(db)'
      BY <1>12, <3>1, <3>2
    <3> QED BY <1>3, <1>10, <2>3, <3>1, <3>3
  <2> QED BY <1>2, <1>11, <2>1, <2>2, <2>3 DEF Stored
<1>14. Named'
  BY <1>1, <1>2, MergeNames DEF Named
<1>15. Grouped'
  <2> SUFFICES ASSUME pc' # "failed"
               PROVE  /\ db'.nodes \subseteq UNION Range(db'.groups)
                      /\ DOMAIN db'.groups \subseteq {<<i>> : i \in 0 .. batchIndex' - 1}
    BY DEF Grouped
  <2>1. db.nodes \subseteq UNION Range(db.groups) /\ DOMAIN db.groups \subseteq {<<i>> : i \in 0 .. batchIndex - 1}
    BY <1>1, <1>2 DEF Grouped
  <2>2. CASE batchSize = 0
    BY <1>3, <2>1, <2>2
  <2>3. CASE batchSize # 0
    <3>1. /\ db'.nodes = db.nodes \cup BatchRows.nodes
          /\ db'.groups = Put(<<batchIndex>>, BatchRows.nodes, db.groups)
      BY <1>2, <1>3, <2>3, WriteAll
    <3>2. batchIndex \in Nat
      BY <1>1 DEF Typed
    <3>3. <<batchIndex>> \notin {<<i>> : i \in 0 .. batchIndex - 1}
      <4> SUFFICES ASSUME NEW i \in 0 .. batchIndex - 1, <<batchIndex>> = <<i>> PROVE FALSE
        OBVIOUS
      <4> QED BY <3>2
    <3>4. UNION Range(db'.groups) = BatchRows.nodes \cup UNION Range(db.groups)
      BY <2>1, <3>1, <3>3, NewGroup
    <3>5. DOMAIN db'.groups = DOMAIN db.groups \cup {<<batchIndex>>}
      BY <3>1 DEF Put
    <3>6. batchIndex \in 0 .. batchIndex' - 1 /\ \A i \in 0 .. batchIndex - 1 : i \in 0 .. batchIndex' - 1
      BY <1>3, <2>3, <3>2
    <3> QED BY <2>1, <3>1, <3>4, <3>5, <3>6
  <2> QED BY <2>2, <2>3
<1>16. Told'
  <2> SUFFICES ASSUME pc' = "next"
               PROVE  /\ anomalies' = {} /\ flags'.installed = flags'.contained
                      /\ flags'.installed \subseteq Segments /\ flags'.referenced = EndsOf(Placed)'
                      /\ DOMAIN db'.equip \subseteq Segments /\ DOMAIN res'.equip \subseteq Segments
    BY <1>2, <1>10 DEF Told
  <2> DEFINE A == UNION {raws[i] : i \in Batch}
  <2>1. /\ anomalies = {} /\ flags.installed = flags.contained /\ flags.installed \subseteq Segments
        /\ flags.referenced = EndsOf(Placed)
        /\ DOMAIN db.equip \subseteq Segments /\ DOMAIN res.equip \subseteq Segments
    BY <1>1, <1>2 DEF Told, PCs
  <2>2. \A i \in 1 .. End : raws[i] \in SUBSET Segments
    BY <1>1, <1>6, RangeOfRaws
  <2>3. \A i : i \in 1 .. End <=> i \in 1 .. start \/ i \in Batch
    BY <1>1, <1>2, <1>6, BatchIsBuilt DEF Batch
  <2>4. A \in SUBSET Segments /\ Placed \in SUBSET Segments /\ Placed' = Placed \cup A
    <3>1. Placed' = UNION {raws[i] : i \in 1 .. End}
      BY <1>2 DEF Placed
    <3>2. Placed = UNION {raws[i] : i \in 1 .. start}
      BY DEF Placed
    <3> QED BY <2>2, <2>3, <3>1, <3>2
  <2>5. /\ flags'.installed = flags.installed \cup BatchRows.edges
        /\ flags'.contained = flags.contained \cup BatchRows.edges
        /\ flags'.referenced = flags.referenced \cup (BatchRows.nodes \ {GND})
    BY <1>2 DEF Marked
  <2>6. EndsOf(Placed)' = EndsOf(Placed) \cup EndsOf(A)
    <3> HIDE DEF A
    <3>1. EndsOf(Placed)' = EndsOf(Placed')
      BY <1>10
    <3>2. Placed \cup A \in SUBSET Segments
      BY <2>4
    <3>3. \A n : n \in EndsOf(Placed \cup A) <=> n \in EndsOf(Placed) \/ n \in EndsOf(A)
      BY <1>1, <2>4, <3>2, EndsAre DEF Typed
    <3> QED BY <2>4, <3>1, <3>3
  <2>7. Usable \subseteq Segments
    BY <1>1, SourceFacts DEF Typed
  <2>8. DOMAIN BatchRows.equip = A /\ BatchRows.edges = Usable \cap A /\ BatchRows.nodes \ {GND} = EndsOf(A)
    BY <1>9
  <2> HIDE DEF A
  <2>9. DOMAIN db'.equip \subseteq Segments /\ DOMAIN res'.equip \subseteq Segments
    <3>1. CASE batchSize = 0
      <4>1. db' = db /\ res'.equip = Over(BatchRows.equip, res.equip)
        BY <1>3, <3>1 DEF Plus
      <4>2. DOMAIN res'.equip = DOMAIN BatchRows.equip \cup DOMAIN res.equip
        BY <4>1 DEF Over
      <4> QED BY <2>1, <2>4, <2>8, <4>1, <4>2
    <3>2. CASE batchSize # 0
      <4>1. res' = res /\ db'.equip = Over(BatchRows.equip, db.equip)
        BY <1>2, <1>3, <3>2, WriteAll
      <4>2. DOMAIN db'.equip = DOMAIN BatchRows.equip \cup DOMAIN db.equip
        BY <4>1 DEF Over
      <4> QED BY <2>1, <2>4, <2>8, <4>1, <4>2
    <3> QED BY <3>1, <3>2
  <2> QED BY <1>2, <2>1, <2>5, <2>6, <2>7, <2>8, <2>9
<1> QED BY <1>5, <1>7, <1>8, <1>13, <1>14, <1>15, <1>16 DEF Inv
-----------------------------------------------------------------------------
(* Boundary equivalents, Junctions, and the write of what is left.          *)

\* Rows of other equipment do not touch the segments'.
LEMMA HoldsStill ==
    ASSUME Typed, src' = src, raws' = raws, start' = start,
           NEW t, Holds(t), NEW u, u.edges \cap Segments = t.edges \cap Segments,
           \A s \in Segments \cap DOMAIN t.equip : s \in DOMAIN u.equip /\ u.equip[s] = t.equip[s]
    PROVE  Holds(u)'
<1>1. \A i \in 1 .. start : raws[i] \subseteq Segments
  BY RangeOfRaws, EndIs DEF Typed
<1>2. Holds(u)
  BY <1>1 DEF Holds
<1> QED BY <1>2, RowsStay

\* When every route is stored, every segment is placed.
LEMMA AllPlaced ==
    ASSUME Typed, Searched, Stored, pc \in AfterRoutes
    PROVE  /\ Placed = Segments /\ start = Len(raws)
           /\ \A s \in Segments : \E i \in 1 .. Len(raws) : s \in raws[i]
<1>1. claimed = Segments /\ route.members = {} /\ start = Len(raws)
  BY DEF Searched, Stored, AfterRoutes, Later
<1>2. Segments = UNION Range(raws)
  BY <1>1 DEF Searched
<1>3. \A s : s \in Segments <=> \E i \in 1 .. Len(raws) : s \in raws[i]
  BY <1>2, RangeOfRaws
<1>4. \A s : s \in Placed <=> \E i \in 1 .. Len(raws) : s \in raws[i]
  BY <1>1 DEF Placed
<1> QED BY <1>1, <1>3, <1>4

LEMMA BoundaryStep ==
    ASSUME Inv, ResolveBoundaryEquivalents
    PROVE  Inv'
<1>1. Typed /\ Searched /\ Pooled /\ Stored /\ Named /\ Grouped /\ Told
  BY DEF Inv
<1>2. /\ pc = "boundary" /\ pc' = "junctions" /\ UNCHANGED <<src, search>>
      /\ src' = src /\ batchSize' = batchSize /\ claimed' = claimed /\ route' = route /\ raws' = raws
      /\ start' = start /\ nextIdx' = nextIdx /\ worker' = worker /\ anomalies' = anomalies
      /\ nodeToContainer' = nodeToContainer /\ batchIndex' = batchIndex /\ db' = db /\ flags' = flags
  BY DEF ResolveBoundaryEquivalents, search, pool
<1> DEFINE E == {b \in DOMAIN src.boundary : Resolves(src.boundary[b])}
           T == {t \in Range(src.boundary) : Resolves(t)}
           rows == [equip |-> NoRow, nodes |-> UNION {NodesOf(t) : t \in T}, edges |-> E]
<1>3. res' = Plus(res, rows)
  BY DEF ResolveBoundaryEquivalents
<1>4. res'.equip = Over(NoRow, res.equip) /\ res'.edges = res.edges \cup E
  BY <1>3 DEF Plus
<1>5. E \cap Segments = {}
  BY <1>1, SourceFacts DEF Typed
<1>6. Whole(rows)
  BY <1>5 DEF Whole
<1> HIDE DEF E, T
<1>7. DOMAIN res'.equip = DOMAIN res.equip /\ \A s \in DOMAIN res.equip : res'.equip[s] = res.equip[s]
  BY <1>4 DEF Over, NoRow
<1>8. /\ Segments' = Segments /\ Routes' = Routes /\ \A S : EndsOf(S)' = EndsOf(S)
      /\ \A t : Whole(t)' = Whole(t) /\ Lacks(t)' = Lacks(t) /\ Holds(t)' = Holds(t)
      /\ Placed' = Placed /\ \A n : NodeOwners(n)' = NodeOwners(n)
  BY <1>2, SourceStays, RowsStay DEF Routes
<1>9. Typed'
  BY <1>1, <1>2, <1>8 DEF Typed, PCs
<1>10. Searched'
  <2>1. route.members = {} /\ claimed = Segments
    BY <1>1, <1>2 DEF Searched, Later
  <2> QED BY <1>1, <1>2, <2>1, SearchStays
<1>11. Pooled'
  BY <1>1, <1>2 DEF Pooled, AllLeft
<1>12. Stored'
  <2>1. Whole(db) /\ Whole(res) /\ start = Len(raws)
    BY <1>1, <1>2 DEF Stored, AfterRoutes
  <2>2. Whole(res')
    BY <1>3, <1>6, <2>1, PlusKeepsWhole
  <2>3. res'.edges \cap Segments = res.edges \cap Segments
    BY <1>4, <1>5
  <2>4. ASSUME batchSize = 0 PROVE Holds(res)' /\ Lacks(db)'
    <3>1. Holds(res) /\ Lacks(db)
      BY <1>1, <1>2, <2>4 DEF Stored
    <3>2. Holds(res)'
      BY <1>1, <1>2, <1>7, <2>3, <3>1, HoldsStill
    <3> QED BY <1>2, <1>8, <3>1, <3>2
  <2>5. ASSUME batchSize # 0 PROVE Holds(db)' /\ Lacks(res)'
    <3>1. Holds(db) /\ Lacks(res)
      BY <1>1, <1>2, <2>5 DEF Stored
    <3>2. Lacks(res')
      BY <1>7, <2>3, <3>1 DEF Lacks
    <3> QED BY <1>2, <1>8, <3>1, <3>2
  <2> QED BY <1>2, <1>8, <2>1, <2>2, <2>4, <2>5 DEF Stored
<1>13. Named'
  BY <1>1, <1>2, <1>8 DEF Named
<1>14. Grouped'
  BY <1>1, <1>2 DEF Grouped
<1>15. Told'
  BY <1>1, <1>2, <1>7, <1>8 DEF Told, PCs
<1> QED BY <1>9, <1>10, <1>11, <1>12, <1>13, <1>14, <1>15 DEF Inv

\* A Junction on a node of a route is stored with the first route at its first such node.
LEMMA JunctionJoins ==
    ASSUME Typed, Searched, Stored, Named, pc = "junctions",
           NEW N \in SUBSET (Nat \ {0}), N \cap EndsOf(Segments) # {}
    PROVE  ContainerOf(N) \in {Min(M) : M \in Range(raws)} /\ ContainerOf(N) # NoContainer
<1> DEFINE f == nodeToContainer
           hit == {n \in N : n \in DOMAIN f /\ f[n] # NoContainer}
<1>1. Placed = Segments /\ start = Len(raws) /\ \A s \in Segments : \E i \in 1 .. Len(raws) : s \in raws[i]
  BY AllPlaced DEF AfterRoutes
<1>2. f = [n \in EndsOf(Segments) |-> Min(NodeOwners(n))]
  BY <1>1 DEF Named
<1>3. ASSUME NEW n \in EndsOf(Segments)
      PROVE  Min(NodeOwners(n)) \in {Min(M) : M \in Range(raws)} /\ Min(NodeOwners(n)) # 0
  <2>1. \A i \in 1 .. Len(raws) : /\ raws[i] \in SUBSET (Nat \ {0}) /\ raws[i] # {}
                                  /\ raws[i] \in SUBSET Segments /\ raws[i] \in Range(raws)
    BY RangeOfRaws, SourceFacts DEF Typed, Searched, Range
  <2>2. \A i \in 1 .. Len(raws) : Min(raws[i]) \in Nat \ {0}
    BY <2>1, MinIs
  <2>3. PICK s \in Segments \cap Usable : n \in ToSet(src.terms[s])
    BY EndsAre DEF Typed
  <2>4. PICK i \in 1 .. Len(raws) : s \in raws[i]
    BY <1>1, <2>3
  <2>5. n \in EndsOf(raws[i])
    BY <2>1, <2>3, <2>4, EndsAre DEF Typed
  <2>6. NodeOwners(n) # {} /\ NodeOwners(n) \in SUBSET Nat
    BY <1>1, <2>2, <2>5 DEF NodeOwners
  <2>7. Min(NodeOwners(n)) \in NodeOwners(n)
    BY <2>6, MinIs
  <2>8. PICK j \in 1 .. Len(raws) : Min(NodeOwners(n)) = Min(raws[j])
    BY <1>1, <2>7 DEF NodeOwners
  <2> QED BY <2>1, <2>2, <2>8
<1>4. hit = N \cap EndsOf(Segments)
  BY <1>2, <1>3 DEF NoContainer
<1>5. Min(hit) \in hit
  <2>1. hit # {} /\ hit \in SUBSET Nat
    BY <1>4
  <2> QED BY <2>1, MinIs
<1>6. FirstOf(N, nodeToContainer) = f[Min(hit)]
  BY <1>5 DEF FirstOf
<1> HIDE DEF hit
<1>7. Min(hit) \in EndsOf(Segments)
  BY <1>4, <1>5
<1>8. FirstOf(N, nodeToContainer) = Min(NodeOwners(Min(hit)))
  BY <1>2, <1>6, <1>7
<1>9. FirstOf(N, nodeToContainer) # NoContainer
  BY <1>3, <1>7, <1>8 DEF NoContainer
<1>10. ContainerOf(N) = FirstOf(N, nodeToContainer)
  BY <1>9 DEF ContainerOf
<1> QED BY <1>3, <1>7, <1>8, <1>9, <1>10

LEMMA JunctionsStep ==
    ASSUME Inv, ResolveStandaloneJunctions
    PROVE  Inv'
<1>1. Typed /\ Searched /\ Pooled /\ Stored /\ Named /\ Grouped /\ Told
  BY DEF Inv
<1>2. /\ pc = "junctions" /\ pc' = "persist" /\ UNCHANGED <<src, search>>
      /\ src' = src /\ batchSize' = batchSize /\ claimed' = claimed /\ route' = route /\ raws' = raws
      /\ start' = start /\ nextIdx' = nextIdx /\ worker' = worker
      /\ nodeToContainer' = nodeToContainer /\ batchIndex' = batchIndex /\ db' = db
  BY DEF ResolveStandaloneJunctions, search, pool
<1> DEFINE at(j) == ToSet(src.junctions[j])
           J == {j \in DOMAIN src.junctions : Len(src.junctions[j]) > 0}
           contained == {j \in J : ContainerOf(at(j)) # NoContainer}
           nodes == UNION {at(j) : j \in J}
           placed == [j \in contained |-> ContainerOf(at(j))]
           rows == [equip |-> placed, nodes |-> nodes, edges |-> {}]
<1>3. res' = Plus(res, rows) /\ anomalies' = J \ contained /\ flags' = Marked(J, contained, nodes)
  BY DEF ResolveStandaloneJunctions
<1>4. res'.equip = Over(placed, res.equip) /\ res'.edges = res.edges
  BY <1>3 DEF Plus
<1>5. \A j \in DOMAIN src.junctions : src.junctions[j] \in Seq(Nat \ {0}) /\ j \notin Segments
  BY <1>1, SourceFacts DEF Typed
<1>6. Whole(rows)
  BY DEF Whole
<1>7. ASSUME NEW j \in DOMAIN src.junctions
      PROVE  at(j) \in SUBSET (Nat \ {0}) /\ (at(j) # {} <=> j \in J)
  <2>1. src.junctions[j] \in Seq(Nat \ {0})
    BY <1>5
  <2>2. Len(src.junctions[j]) \in Nat /\ DOMAIN src.junctions[j] = 1 .. Len(src.junctions[j])
    BY <2>1
  <2>3. Len(src.junctions[j]) > 0 => 1 \in DOMAIN src.junctions[j]
    BY <2>2
  <2>4. Len(src.junctions[j]) = 0 => DOMAIN src.junctions[j] = {}
    BY <2>2
  <2>5. at(j) = {src.junctions[j][i] : i \in DOMAIN src.junctions[j]}
    BY DEF ToSet
  <2>6. at(j) \subseteq Nat \ {0}
    BY <2>1, <2>5
  <2>7. j \in J <=> Len(src.junctions[j]) > 0
    OBVIOUS
  <2> HIDE DEF at, J
  <2>8. at(j) # {} <=> Len(src.junctions[j]) > 0
    <3>1. CASE Len(src.junctions[j]) > 0
      BY <2>3, <2>5, <3>1
    <3>2. CASE Len(src.junctions[j]) = 0
      BY <2>4, <2>5, <3>2
    <3> QED BY <2>2, <3>1, <3>2
  <2> QED BY <2>6, <2>7, <2>8
<1>8. contained \subseteq J /\ J \cap Segments = {} /\ J \subseteq DOMAIN src.junctions
  BY <1>5
<1>9. /\ DOMAIN res'.equip = contained \cup DOMAIN res.equip
      /\ \A j \in contained : res'.equip[j] = ContainerOf(at(j))
      /\ \A s \in DOMAIN res.equip \ contained : res'.equip[s] = res.equip[s]
  BY <1>4 DEF Over
<1>10. /\ flags'.installed = flags.installed \cup J /\ flags'.contained = flags.contained \cup contained
       /\ flags'.referenced = flags.referenced \cup (nodes \ {GND})
  BY <1>3 DEF Marked
<1>11. /\ flags.installed = flags.contained /\ flags.installed \subseteq Segments
       /\ flags.referenced = EndsOf(Placed)
       /\ DOMAIN db.equip \subseteq Segments /\ DOMAIN res.equip \subseteq Segments
  BY <1>1, <1>2 DEF Told, PCs
<1>12. nodes \ {GND} = JunctionNodes
  <2>1. \A n : n \in nodes <=> \E j \in DOMAIN src.junctions : n \in at(j)
    BY <1>7
  <2>2. \A n : n \in JunctionNodes <=> \E j \in DOMAIN src.junctions : n \in at(j)
    BY DEF JunctionNodes, Range
  <2>3. \A n \in nodes : n # GND
    BY <1>7, <2>1 DEF GND
  <2> QED BY <2>1, <2>2, <2>3
<1>13. ASSUME NEW j \in DOMAIN src.junctions, at(j) \cap EndsOf(Segments) # {}
       PROVE  j \in contained /\ ContainerOf(at(j)) \in {Min(M) : M \in Range(raws)}
  <2>1. at(j) \in SUBSET (Nat \ {0}) /\ j \in J
    BY <1>7, <1>13
  <2>2. ContainerOf(at(j)) \in {Min(M) : M \in Range(raws)} /\ ContainerOf(at(j)) # NoContainer
    BY <1>1, <1>2, <1>13, <2>1, JunctionJoins
  <2> QED BY <2>1, <2>2
<1>14. /\ Segments' = Segments /\ Routes' = Routes /\ \A S : EndsOf(S)' = EndsOf(S) /\ JunctionNodes' = JunctionNodes
       /\ \A t : Whole(t)' = Whole(t) /\ Lacks(t)' = Lacks(t) /\ Holds(t)' = Holds(t)
       /\ Placed' = Placed /\ \A n : NodeOwners(n)' = NodeOwners(n)
  BY <1>2, SourceStays, RowsStay DEF Routes
<1>15. Typed'
  BY <1>1, <1>2, <1>14 DEF Typed, PCs
<1>16. Searched'
  <2>1. route.members = {} /\ claimed = Segments
    BY <1>1, <1>2 DEF Searched, Later
  <2> QED BY <1>1, <1>2, <2>1, SearchStays
<1>17. Pooled'
  BY <1>1, <1>2 DEF Pooled, AllLeft
<1>18. Whole(res')
  BY <1>1, <1>3, <1>6, PlusKeepsWhole DEF Stored
<1> HIDE DEF at, J, contained, nodes, placed, rows
<1>19. Stored'
  <2>1. Whole(db) /\ start = Len(raws)
    BY <1>1, <1>2 DEF Stored, AfterRoutes
  <2>2. res'.edges \cap Segments = res.edges \cap Segments
    BY <1>4
  <2>3. \A s \in Segments \cap DOMAIN res.equip : s \in DOMAIN res'.equip /\ res'.equip[s] = res.equip[s]
    BY <1>8, <1>9
  <2>4. ASSUME batchSize = 0 PROVE Holds(res)' /\ Lacks(db)'
    <3>1. Holds(res) /\ Lacks(db)
      BY <1>1, <1>2, <2>4 DEF Stored
    <3>2. Holds(res)'
      BY <1>1, <1>2, <2>2, <2>3, <3>1, HoldsStill
    <3> QED BY <1>2, <1>14, <3>1, <3>2
  <2>5. ASSUME batchSize # 0 PROVE Holds(db)' /\ Lacks(res)'
    <3>1. Holds(db) /\ Lacks(res)
      BY <1>1, <1>2, <2>5 DEF Stored
    <3>2. Lacks(res')
      BY <1>8, <1>9, <2>2, <3>1 DEF Lacks
    <3> QED BY <1>2, <1>14, <3>1, <3>2
  <2> QED BY <1>2, <1>14, <1>18, <2>1, <2>4, <2>5 DEF Stored
<1>20. Named'
  BY <1>1, <1>2, <1>14 DEF Named
<1>21. Grouped'
  BY <1>1, <1>2 DEF Grouped
<1>22. Told'
  <2>1. flags'.installed \ flags'.contained = anomalies'
    BY <1>3, <1>8, <1>10, <1>11
  <2>2. flags'.referenced = EndsOf(Placed)' \cup JunctionNodes'
    BY <1>10, <1>11, <1>12, <1>14
  <2>3. ASSUME NEW j \in DOMAIN src.junctions
        PROVE  /\ ToSet(src.junctions[j]) \cap EndsOf(Segments) # {} =>
                     j \in DOMAIN res'.equip /\ res'.equip[j] \in {Min(M) : M \in Range(raws)}
               /\ Len(src.junctions[j]) > 0 => (j \in DOMAIN res'.equip <=> j \notin anomalies')
    <3>1. j \notin Segments /\ j \notin DOMAIN res.equip
      BY <1>5, <1>11
    <3>2. Len(src.junctions[j]) > 0 => j \in J
      BY DEF J
    <3> QED BY <1>3, <1>8, <1>9, <1>13, <3>1, <3>2 DEF at
  <2>4. JunctionsPlaced(res)'
    BY <1>2, <1>14, <2>3 DEF JunctionsPlaced
  <2> QED BY <1>2, <1>11, <1>14, <2>1, <2>2, <2>4 DEF Told
<1> QED BY <1>15, <1>16, <1>17, <1>19, <1>20, <1>21, <1>22 DEF Inv

LEMMA PersistStep ==
    ASSUME Inv, NEW k \in 0 .. AllTables, PersistRest(k)
    PROVE  Inv'
<1>1. Typed /\ Searched /\ Pooled /\ Stored /\ Named /\ Grouped /\ Told
  BY DEF Inv
<1>2. /\ pc = "persist" /\ UNCHANGED <<src, search>> /\ pc' = IF k = AllTables THEN "done" ELSE "failed"
      /\ src' = src /\ batchSize' = batchSize /\ claimed' = claimed /\ route' = route /\ raws' = raws
      /\ start' = start /\ nextIdx' = nextIdx /\ worker' = worker /\ res' = res /\ flags' = flags
      /\ nodeToContainer' = nodeToContainer /\ batchIndex' = batchIndex /\ anomalies' = anomalies
      /\ db' = Write(k, res, << >>)
  BY DEF PersistRest, search, pool, PassBOwnerID
<1>3. /\ Segments' = Segments /\ Routes' = Routes /\ \A S : EndsOf(S)' = EndsOf(S) /\ JunctionNodes' = JunctionNodes
      /\ \A t : Whole(t)' = Whole(t) /\ Lacks(t)' = Lacks(t) /\ Holds(t)' = Holds(t)
      /\ Placed' = Placed /\ \A n : NodeOwners(n)' = NodeOwners(n)
  BY <1>2, SourceStays, RowsStay DEF Routes
<1>4. Typed'
  BY <1>1, <1>2, <1>3 DEF Typed, PCs
<1>5. Searched'
  <2>1. route.members = {} /\ claimed = Segments
    BY <1>1, <1>2 DEF Searched, Later
  <2> QED BY <1>1, <1>2, <2>1, SearchStays
<1>6. Pooled'
  BY <1>1, <1>2 DEF Pooled, AllLeft
<1>7. Whole(db') /\ Whole(res')
  BY <1>1, <1>2, WriteKeepsWhole DEF Stored
<1>8. start = Len(raws)
  BY <1>1, <1>2 DEF Stored, AfterRoutes
<1>9. CASE k # AllTables
  <2>1. pc' = "failed"
    BY <1>2, <1>9
  <2> QED BY <1>2, <1>3, <1>4, <1>5, <1>6, <1>7, <1>8, <2>1
          DEF Inv, Stored, Named, Grouped, Told, PCs, AfterRoutes
<1>10. CASE k = AllTables
  <2>1. /\ pc' = "done" /\ db'.equip = Over(res.equip, db.equip) /\ db'.nodes = db.nodes \cup res.nodes
        /\ db'.edges = db.edges \cup res.edges /\ db'.groups = Put(<< >>, res.nodes, db.groups)
    BY <1>2, <1>10, WriteAll
  <2>2. /\ DOMAIN db'.equip = DOMAIN res.equip \cup DOMAIN db.equip
        /\ \A x \in DOMAIN res.equip : db'.equip[x] = res.equip[x]
        /\ \A x \in DOMAIN db.equip \ DOMAIN res.equip : db'.equip[x] = db.equip[x]
    BY <2>1 DEF Over
  <2>3. Holds(db)'
    <3>1. CASE batchSize = 0
      <4>1. Holds(res) /\ Lacks(db)
        BY <1>1, <1>2, <3>1 DEF Stored
      <4>2. db'.edges \cap Segments = res.edges \cap Segments
        BY <2>1, <4>1 DEF Lacks
      <4> QED BY <1>1, <1>2, <2>2, <4>1, <4>2, HoldsStill
    <3>2. CASE batchSize # 0
      <4>1. Holds(db) /\ Lacks(res)
        BY <1>1, <1>2, <3>2 DEF Stored
      <4>2. db'.edges \cap Segments = db.edges \cap Segments
        BY <2>1, <4>1 DEF Lacks
      <4>3. \A s \in Segments \cap DOMAIN db.equip : s \in DOMAIN db'.equip /\ db'.equip[s] = db.equip[s]
        BY <2>2, <4>1 DEF Lacks
      <4> QED BY <1>1, <1>2, <4>1, <4>2, <4>3, HoldsStill
    <3> QED BY <3>1, <3>2
  <2>4. Stored'
    BY <1>2, <1>3, <1>7, <1>8, <2>1, <2>3 DEF Stored
  <2>5. Named'
    BY <1>1, <1>2, <1>3 DEF Named
  <2>6. Grouped'
    <3>1. db.nodes \subseteq UNION Range(db.groups) /\ DOMAIN db.groups \subseteq {<<i>> : i \in 0 .. batchIndex - 1}
      BY <1>1, <1>2 DEF Grouped
    <3>2. << >> \notin {<<i>> : i \in 0 .. batchIndex - 1}
      OBVIOUS
    <3>3. UNION Range(db'.groups) = res.nodes \cup UNION Range(db.groups)
      <4> DEFINE owner == << >>
      <4>1. db'.groups = Put(owner, res.nodes, db.groups) /\ owner \notin DOMAIN db.groups
        BY <2>1, <3>1, <3>2
      <4> HIDE DEF owner
      <4> QED BY <4>1, NewGroup
    <3> QED BY <2>1, <3>1, <3>3 DEF Grouped
  <2>7. Told'
    <3>1. JunctionsPlaced(res) /\ DOMAIN db.equip \subseteq Segments
      BY <1>1, <1>2 DEF Told
    <3>2. \A j \in DOMAIN src.junctions : j \notin Segments
      BY <1>1, SourceFacts DEF Typed
    <3>3. JunctionsPlaced(db')
      BY <2>2, <3>1, <3>2 DEF JunctionsPlaced
    <3>4. JunctionsPlaced(db)'
      BY <1>2, <1>3, <3>3 DEF JunctionsPlaced
    <3>5. /\ flags.installed \ flags.contained = anomalies
          /\ flags.referenced = EndsOf(Placed) \cup JunctionNodes
      BY <1>1, <1>2 DEF Told
    <3> QED BY <1>2, <1>3, <2>1, <3>4, <3>5 DEF Told, PCs
  <2> QED BY <1>4, <1>5, <1>6, <2>4, <2>5, <2>6, <2>7 DEF Inv
<1> QED BY <1>9, <1>10
-----------------------------------------------------------------------------
(* The theorems.                                                            *)

LEMMA InvInit == Init => Inv
<1> SUFFICES ASSUME Init PROVE Inv
  OBVIOUS
<1>1. /\ src \in Sources /\ batchSize \in BatchSizes /\ pc = "search" /\ claimed = {} /\ route = NoRoute
      /\ raws = << >> /\ start = 0 /\ nextIdx = 0 /\ worker = [w \in Workers |-> Left] /\ batchIndex = 0
      /\ nodeToContainer = NoRow /\ res = NoRows /\ anomalies = {}
      /\ db = [equip |-> NoRow, nodes |-> {}, edges |-> {}, groups |-> NoRow]
      /\ flags = [installed |-> {}, contained |-> {}, referenced |-> {}]
  BY DEF Init
<1>2. /\ route.members = {} /\ route.frontier = {} /\ route.queried = {} /\ route \in Routes
  BY <1>1 DEF NoRoute, Routes
<1>3. Len(raws) = 0 /\ raws \in Seq(SUBSET Segments) /\ Range(raws) = {} /\ 1 .. 0 = {}
  BY <1>1 DEF Range
<1>4. Typed
  BY <1>1, <1>2, <1>3 DEF Typed, PCs, Left
<1>5. Undivided({}) /\ EndsOf({}) = {} /\ Touching({}) = {}
  BY DEF Undivided, EndsOf, Touching
<1>6. Searched
  BY <1>1, <1>2, <1>3, <1>5 DEF Searched, Later
<1>7. Pooled
  BY <1>1 DEF Pooled, AllLeft
<1>8. Placed = {}
  BY <1>1, <1>3 DEF Placed
<1>9. /\ res.equip = NoRow /\ res.edges = {} /\ db.equip = NoRow /\ db.edges = {} /\ db.nodes = {}
      /\ db.groups = NoRow /\ DOMAIN NoRow = {}
  BY <1>1 DEF NoRows, NoRow
<1>10. Stored
  BY <1>1, <1>3, <1>8, <1>9 DEF Stored, Whole, Holds, Lacks, AfterRoutes
<1>11. Named
  BY <1>1, <1>5, <1>8 DEF Named, NoRow
<1>12. Grouped
  BY <1>1, <1>9 DEF Grouped
<1>13. Told
  BY <1>1, <1>5, <1>8, <1>9 DEF Told
<1> QED BY <1>4, <1>6, <1>7, <1>10, <1>11, <1>12, <1>13 DEF Inv

LEMMA InvStays == Inv /\ UNCHANGED vars => Inv'
<1> SUFFICES ASSUME Inv, UNCHANGED vars PROVE Inv'
  OBVIOUS
<1>1. Typed /\ Searched /\ Pooled /\ Stored /\ Named /\ Grouped /\ Told
  BY DEF Inv
<1>2. /\ pc' = pc /\ UNCHANGED <<src, search>> /\ nextIdx' = nextIdx /\ worker' = worker /\ results' = results
      /\ src' = src /\ batchSize' = batchSize /\ claimed' = claimed /\ route' = route /\ raws' = raws
      /\ start' = start /\ res' = res /\ flags' = flags /\ db' = db
      /\ nodeToContainer' = nodeToContainer /\ batchIndex' = batchIndex /\ anomalies' = anomalies
  BY DEF vars, search, pool
<1>3. /\ Segments' = Segments /\ Routes' = Routes /\ \A S : EndsOf(S)' = EndsOf(S) /\ JunctionNodes' = JunctionNodes
      /\ \A t : Whole(t)' = Whole(t) /\ Lacks(t)' = Lacks(t) /\ Holds(t)' = Holds(t)
      /\ Placed' = Placed /\ \A n : NodeOwners(n)' = NodeOwners(n)
      /\ \A M : BuildRoute(M)' = BuildRoute(M) /\ End' = End
  BY <1>2, SourceStays, RowsStay DEF Routes, End
<1>4. Typed'
  BY <1>1, <1>2, <1>3 DEF Typed
<1>5. Searched'
  BY <1>1, <1>2, SearchStays DEF Searched
<1>6. Pooled'
  BY <1>1, <1>2, <1>3 DEF Pooled, AllLeft
<1>7. Stored' /\ Named' /\ Grouped'
  BY <1>1, <1>2, <1>3 DEF Stored, Named, Grouped
<1>8. \A t : JunctionsPlaced(t)' = JunctionsPlaced(t)
  BY <1>2, <1>3 DEF JunctionsPlaced
<1>9. Told'
  BY <1>1, <1>2, <1>3, <1>8 DEF Told
<1> QED BY <1>4, <1>5, <1>6, <1>7, <1>9 DEF Inv

LEMMA InvStep == Inv /\ [Next]_vars => Inv'
<1> SUFFICES ASSUME Inv, [Next]_vars PROVE Inv'
  OBVIOUS
<1>0. AllTables \in 0 .. AllTables /\ \A k \in 0 .. AllTables - 1 : k \in 0 .. AllTables
  BY DEF AllTables
<1>1. CASE Main
  BY <1>0, <1>1, SeedStep, ExpandStep, EndRouteStep, StartBatchStep, EmitStep,
     BoundaryStep, JunctionsStep, PersistStep DEF Main
<1>2. CASE Errs
  BY <1>0, <1>2, FailStep, EmitStep, PersistStep DEF Errs
<1>3. ASSUME NEW w \in Workers, Work(w) PROVE Inv'
  BY <1>3, ClaimStep, BuildStep DEF Work
<1>4. CASE UNCHANGED vars
  BY <1>4, InvStays
<1> QED BY <1>1, <1>2, <1>3, <1>4 DEF Next

\* The invariant holds of every run, whatever the workers' order and whatever fails.
THEOREM InvAlways == Spec => []Inv
<1> QED BY InvInit, InvStep, PTL DEF Spec

\* Rows are well-formed at every moment, after a failure too; routes are disjoint.
THEOREM ACLineTypeCorrect == Spec => []TypeOK
<1>1. Inv => TypeOK
  <2> SUFFICES ASSUME Inv PROVE TypeOK
    OBVIOUS
  <2>1. Typed /\ Searched /\ Pooled /\ Stored
    BY DEF Inv
  <2>2. \A s \in db.edges \cap Segments : s \in DOMAIN db.equip /\ NodesOf(src.terms[s]) \subseteq db.nodes
    BY <2>1 DEF Stored, Whole
  <2>3. \A i, j \in DOMAIN raws : i # j => raws[i] \cap raws[j] = {}
    BY <2>1, RangeOfRaws DEF Searched
  <2>4. (UNION Range(raws)) \cup route.members = claimed
    BY <2>1 DEF Searched
  <2>5. Len(raws) \in Nat /\ start \in Nat /\ End \in start .. Len(raws) /\ nextIdx \in Nat
    BY <2>1, EndIs DEF Typed
  <2>6. DOMAIN results \subseteq start + 1 .. End \/ pc # "build"
    <3> SUFFICES ASSUME pc = "build", NEW i \in DOMAIN results PROVE i \in start + 1 .. End
      OBVIOUS
    <3>1. i \in start + 1 .. nextIdx /\ nextIdx \in start .. End
      BY <2>1 DEF Pooled
    <3> QED BY <2>5, <3>1
  <2>7. ASSUME NEW w \in Workers PROVE worker[w] \in {Left, Free} \cup 1 .. Len(raws)
    <3>1. CASE pc = "build"
      <4>1. worker[w] \in {Left, Free} \cup (start + 1 .. nextIdx) /\ nextIdx \in start .. End
        BY <2>1, <3>1 DEF Pooled
      <4> QED BY <2>5, <4>1
    <3>2. CASE pc # "build"
      BY <2>1, <3>2 DEF Pooled, AllLeft
    <3> QED BY <3>1, <3>2
  <2> QED BY <2>2, <2>3, <2>4, <2>6, <2>7 DEF TypeOK
<1> QED BY <1>1, InvAlways, PTL

\* The route of a segment, once every segment has one.
LEMMA RouteOfIs ==
    ASSUME Typed, Searched, claimed = Segments, route.members = {}, NEW s \in Segments
    PROVE  /\ RouteOf(s) \in 1 .. Len(raws) /\ s \in raws[RouteOf(s)]
           /\ \A i \in 1 .. Len(raws) : s \in raws[i] => i = RouteOf(s)
<1>1. \E i \in 1 .. Len(raws) : s \in raws[i]
  BY RangeOfRaws DEF Searched
<1>2. RouteOf(s) \in 1 .. Len(raws) /\ s \in raws[RouteOf(s)]
  BY <1>1, RangeOfRaws DEF RouteOf
<1>3. \A i \in 1 .. Len(raws) : s \in raws[i] => i = RouteOf(s)
  BY <1>2 DEF Searched
<1> QED BY <1>2, <1>3

\* Two usable segments share a route exactly when a chain of nodes joins them, whatever
\* segment each search started from.
THEOREM RoutesFound == Spec => []RoutesAreComponents
<1>1. Inv => RoutesAreComponents
  <2> SUFFICES ASSUME Inv, pc \notin {"search", "expand", "failed"}, NEW s \in Usable
               PROVE  raws[RouteOf(s)] \cap Usable = Component(s)
    BY DEF RoutesAreComponents
  <2>1. Typed /\ Searched
    BY DEF Inv
  <2>2. claimed = Segments /\ route.members = {} /\ s \in Segments /\ Usable \subseteq Segments
    BY <2>1, SourceFacts DEF Typed, PCs, Later, Searched
  <2> DEFINE X == raws[RouteOf(s)]  XU == X \cap Usable
  <2>3. RouteOf(s) \in 1 .. Len(raws) /\ s \in X
    BY <2>1, <2>2, RouteOfIs
  <2>4. X \in SUBSET Segments /\ Closed(X) /\ Undivided(X)
    BY <2>1, <2>3, RangeOfRaws DEF Searched
  <2> HIDE DEF X
  <2>5. s \in XU /\ Neighbours(XU) \subseteq XU /\ XU \in SUBSET Usable
    BY <2>1, <2>3, <2>4, NeighboursAre DEF Closed, Typed
  <2>6. \A S \in SUBSET Usable : s \in S /\ Neighbours(S) \subseteq S => XU \subseteq S
    BY <2>3, <2>4 DEF Undivided
  <2>7. \A u : u \in XU <=> u \in Component(s)
    BY <2>5, <2>6 DEF Component
  <2> QED BY <2>7 DEF X
<1> QED BY <1>1, InvAlways, PTL

\* Neither the batch size nor the order in which the workers finish shows in what is
\* stored when the import is done.
THEOREM BatchesDoNotShow == Spec => []BatchingDoesNotShow
<1>1. Inv => BatchingDoesNotShow
  <2> SUFFICES ASSUME Inv, pc = "done"
               PROVE  /\ \A s \in Segments : s \in DOMAIN db.equip /\ db.equip[s] = Min(raws[RouteOf(s)])
                      /\ db.edges \cap Segments = Usable
                      /\ nodeToContainer = [n \in EndsOf(Segments) |->
                            Min({Min(raws[RouteOf(s)]) : s \in {s \in Segments : n \in EndsOf({s})}})]
    BY DEF BatchingDoesNotShow
  <2>1. Typed /\ Searched /\ Stored /\ Named
    BY DEF Inv
  <2>2. claimed = Segments /\ route.members = {} /\ Holds(db)
    BY <2>1 DEF Later, Searched, Stored
  <2>3. Placed = Segments /\ start = Len(raws) /\ Usable \subseteq Segments
    BY <2>1, AllPlaced, SourceFacts DEF AfterRoutes, Typed
  <2>4. \A s \in Segments : /\ RouteOf(s) \in 1 .. Len(raws) /\ s \in raws[RouteOf(s)]
                            /\ \A i \in 1 .. Len(raws) : s \in raws[i] => i = RouteOf(s)
    BY <2>1, <2>2, RouteOfIs
  <2>5. \A s \in Segments : s \in DOMAIN db.equip /\ db.equip[s] = Min(raws[RouteOf(s)])
    BY <2>2, <2>3, <2>4 DEF Holds
  <2>6. db.edges \cap Segments = Usable
    BY <2>2, <2>3 DEF Holds
  <2>7. nodeToContainer = [n \in EndsOf(Segments) |-> Min(NodeOwners(n))]
    BY <2>1, <2>3 DEF Named
  <2> DEFINE O(n) == {Min(raws[RouteOf(s)]) : s \in {s \in Segments : n \in EndsOf({s})}}
  <2>8. ASSUME NEW n PROVE NodeOwners(n) = O(n)
    <3>1. \A s \in Segments : n \in EndsOf({s}) <=> s \in Usable /\ n \in ToSet(src.terms[s])
      BY <2>1, EndsAre DEF Typed
    <3>2. \A i \in 1 .. Len(raws) : raws[i] \in SUBSET Segments
      BY <2>1, RangeOfRaws
    <3>3. \A i \in 1 .. Len(raws) : n \in EndsOf(raws[i]) <=> \E s \in raws[i] : n \in EndsOf({s})
      BY <2>1, <3>1, <3>2, EndsAre DEF Typed
    <3>4. \A x : x \in NodeOwners(n) <=> \E i \in 1 .. Len(raws) : n \in EndsOf(raws[i]) /\ x = Min(raws[i])
      BY <2>3 DEF NodeOwners
    <3>5. \A x : x \in O(n) <=> \E s \in Segments : n \in EndsOf({s}) /\ x = Min(raws[RouteOf(s)])
      OBVIOUS
    <3> HIDE DEF O
    <3>6. ASSUME NEW x \in NodeOwners(n) PROVE x \in O(n)
      <4>1. PICK i \in 1 .. Len(raws) : n \in EndsOf(raws[i]) /\ x = Min(raws[i])
        BY <3>4
      <4>2. PICK s \in raws[i] : n \in EndsOf({s})
        BY <3>3, <4>1
      <4>3. s \in Segments /\ RouteOf(s) = i
        BY <2>4, <3>2, <4>2
      <4> QED BY <3>5, <4>1, <4>2, <4>3
    <3>7. ASSUME NEW x \in O(n) PROVE x \in NodeOwners(n)
      <4>1. PICK s \in Segments : n \in EndsOf({s}) /\ x = Min(raws[RouteOf(s)])
        BY <3>5
      <4>2. RouteOf(s) \in 1 .. Len(raws) /\ s \in raws[RouteOf(s)]
        BY <2>4
      <4> QED BY <3>3, <3>4, <4>1, <4>2
    <3> QED BY <3>6, <3>7
  <2> HIDE DEF O
  <2> QED BY <2>5, <2>6, <2>7, <2>8 DEF O
<1> QED BY <1>1, InvAlways, PTL

\* When the import is done every node has a group, every Junction that a route touches
\* has a container, and the flags tell what is without one.
THEOREM NothingIsDropped == Spec => []NothingDropped
<1>1. Inv => NothingDropped
  <2> SUFFICES ASSUME Inv, pc = "done" PROVE NothingDropped
    BY DEF NothingDropped
  <2>1. Typed /\ Searched /\ Stored /\ Grouped /\ Told
    BY DEF Inv
  <2>2. Placed = Segments
    BY <2>1, AllPlaced DEF AfterRoutes
  <2>3. db.nodes \subseteq UNION Range(db.groups)
    BY <2>1 DEF Grouped
  <2>4. /\ JunctionsPlaced(db) /\ flags.installed \ flags.contained = anomalies
        /\ flags.referenced = EndsOf(Segments) \cup JunctionNodes
    BY <2>1, <2>2 DEF Told
  <2> QED BY <2>3, <2>4 DEF NothingDropped, JunctionsPlaced, JunctionNodes
<1> QED BY <1>1, InvAlways, PTL

-----------------------------------------------------------------------------
(* Why RunPassB ends: what is ahead of it is counted in advance.            *)

\* The segments of the routes up to i, those that wait behind them, and the built ones.
UpTo(i) == UNION {raws[k] : k \in 1 .. i}
Waiting(i) == Segments \ UpTo(i)
Built == UNION {raws[i] : i \in DOMAIN results}
Building == pc = "build"

\* The last stages follow the batches.
StagesLeft == CASE pc = "boundary" -> 4 [] pc = "junctions" -> 3 [] pc = "persist" -> 2
                [] pc = "done" -> 1 [] OTHER -> 5

\* What is ahead of RunPassB: segments to claim and to place in a route, nodes a route has
\* still to query, and, for each segment that is not stored, its batch to start, its route
\* to hand out, to build and to store, and the workers to leave; then the last stages.
AllAhead ==
    [claims  |-> Segments \ claimed,
     routes  |-> (Segments \ claimed) \cup route.members,
     queries |-> {p \in Segments \X EndsOf(Segments) :
                     p[1] \notin claimed \/ (p[1] \in route.members /\ p[2] \notin route.queried)},
     starts  |-> Waiting(IF Building THEN End ELSE start),
     handed  |-> Waiting(IF Building THEN nextIdx ELSE start),
     builds  |-> IF Building THEN Waiting(start) \ Built ELSE Waiting(start),
     stores  |-> Waiting(start),
     leaves  |-> {p \in Segments \X Workers :
                     /\ p[1] \notin UpTo(start)
                     /\ Building /\ p[1] \in UpTo(End) => worker[p[2]] # Left},
     stages  |-> 1 .. StagesLeft]
Ahead == IF pc = "failed" THEN [k \in DOMAIN AllAhead |-> {}] ELSE AllAhead
LessAhead == Ahead' # Ahead /\ \A k \in DOMAIN AllAhead : Ahead'[k] \subseteq Ahead[k]

\* The frontier is new, and no two workers have the same route, nor one that is built.
Fresh ==
    /\ route.frontier \cap route.queried = {}
    /\ Building => \A w \in Workers : worker[w] > 0 =>
          /\ worker[w] \notin DOMAIN results
          /\ \A v \in Workers : v # w => worker[v] # worker[w]

\* A route queries no node twice, and no route is built twice.
LEMMA FreshStep == Inv /\ Fresh /\ [Next]_vars => Fresh'
<1> SUFFICES ASSUME Inv, Fresh, [Next]_vars PROVE Fresh'
  OBVIOUS
<1> USE DEF Fresh, Building
<1>0. Typed /\ Pooled
  BY DEF Inv
<1>1. CASE Seed
  BY <1>1 DEF Seed
<1>2. CASE Expand
  <2>1. route'.frontier \cap route'.queried = {} /\ pc' = "expand"
    BY <1>2 DEF Expand
  <2> QED BY <2>1
<1>3. CASE EndRoute
  BY <1>3 DEF EndRoute, NoRoute
<1>4. CASE StartBatch
  <2>1. route' = route /\ pc' \in {"build", "boundary"}
        /\ (pc' = "build" => worker' = [w \in Workers |-> 0])
    BY <1>4 DEF StartBatch, search, Free
  <2> QED BY <2>1
<1>5. CASE \E k \in 0 .. AllTables : Emit(k)
  BY <1>5 DEF Emit, search
<1>6. CASE ResolveBoundaryEquivalents \/ ResolveStandaloneJunctions \/ (\E k \in 0 .. AllTables : PersistRest(k)) \/ Fail
  BY <1>6 DEF ResolveBoundaryEquivalents, ResolveStandaloneJunctions, PersistRest, Fail, search
<1>7. ASSUME NEW w \in Workers, Claim(w) PROVE Fresh'
  <2>1. route' = route /\ pc' = pc /\ results' = results /\ pc = "build"
    BY <1>0, <1>7 DEF Claim, search, Pooled, AllLeft, Free, Left
  <2>2. /\ nextIdx \in Nat /\ start \in Nat /\ worker \in [Workers -> Int]
        /\ \A i \in DOMAIN results : i \in start + 1 .. nextIdx
        /\ \A v \in Workers : worker[v] \in {-1, 0} \cup (start + 1 .. nextIdx)
    BY <1>0, <2>1, EndIs DEF Typed, Pooled, Left, Free
  <2>3. worker' = [worker EXCEPT ![w] = nextIdx + 1] \/ worker' = [worker EXCEPT ![w] = -1]
    BY <1>7 DEF Claim, Left
  <2>4. \A v \in Workers : v # w => worker'[v] = worker[v]
    BY <2>2, <2>3
  <2>5. nextIdx + 1 \notin DOMAIN results /\ \A v \in Workers : worker[v] # nextIdx + 1
    BY <2>2
  <2>6. worker'[w] = nextIdx + 1 \/ worker'[w] = -1
    BY <2>2, <2>3
  <2> QED BY <2>1, <2>4, <2>5, <2>6
<1>8. ASSUME NEW w \in Workers, Build(w) PROVE Fresh'
  <2>1. route' = route /\ pc' = pc /\ worker[w] > 0 /\ worker' = [worker EXCEPT ![w] = 0]
        /\ DOMAIN results' = DOMAIN results \cup {worker[w]}
    BY <1>8 DEF Build, search, Free, Put
  <2>2. worker'[w] = 0 /\ \A v \in Workers : v # w => worker'[v] = worker[v]
    BY <1>0, <2>1 DEF Typed
  <2> QED BY <2>1, <2>2
<1>9. CASE UNCHANGED vars
  BY <1>9 DEF vars, search, pool
<1>10. \A k \in 0 .. AllTables - 1 : k \in 0 .. AllTables
  BY DEF AllTables
<1>11. AllTables \in 0 .. AllTables
  BY DEF AllTables
<1> QED BY <1>1, <1>2, <1>3, <1>4, <1>5, <1>6, <1>7, <1>8, <1>9, <1>10, <1>11 DEF Next, Main, Errs, Work

\* Queries and routes are never repeated, in any run.
LEMMA AlwaysFresh == Spec => []Fresh
<1>1. Init => Fresh
  BY DEF Init, Fresh, Building, NoRoute
<1> QED BY <1>1, FreshStep, InvAlways, PTL DEF Spec

\* Less is ahead when every part shrinks and one part has lost something.
LEMMA LessWhen ==
    ASSUME pc # "failed", pc' # "failed",
           AllAhead'.claims \subseteq AllAhead.claims, AllAhead'.routes \subseteq AllAhead.routes,
           AllAhead'.queries \subseteq AllAhead.queries, AllAhead'.starts \subseteq AllAhead.starts,
           AllAhead'.handed \subseteq AllAhead.handed, AllAhead'.builds \subseteq AllAhead.builds,
           AllAhead'.stores \subseteq AllAhead.stores, AllAhead'.leaves \subseteq AllAhead.leaves,
           AllAhead'.stages \subseteq AllAhead.stages,
           \/ AllAhead'.claims # AllAhead.claims \/ AllAhead'.routes # AllAhead.routes
           \/ AllAhead'.queries # AllAhead.queries \/ AllAhead'.starts # AllAhead.starts
           \/ AllAhead'.handed # AllAhead.handed \/ AllAhead'.builds # AllAhead.builds
           \/ AllAhead'.stores # AllAhead.stores \/ AllAhead'.leaves # AllAhead.leaves
           \/ AllAhead'.stages # AllAhead.stages
    PROVE  LessAhead
<1>1. Ahead = AllAhead /\ Ahead' = AllAhead'
  BY DEF Ahead
<1>2. DOMAIN AllAhead = {"claims", "routes", "queries", "starts", "handed", "builds", "stores", "leaves", "stages"}
  BY DEF AllAhead
<1>3. AllAhead' # AllAhead
  OBVIOUS
<1>4. /\ AllAhead'["claims"] \subseteq AllAhead["claims"] /\ AllAhead'["routes"] \subseteq AllAhead["routes"]
      /\ AllAhead'["queries"] \subseteq AllAhead["queries"] /\ AllAhead'["starts"] \subseteq AllAhead["starts"]
      /\ AllAhead'["handed"] \subseteq AllAhead["handed"] /\ AllAhead'["builds"] \subseteq AllAhead["builds"]
      /\ AllAhead'["stores"] \subseteq AllAhead["stores"] /\ AllAhead'["leaves"] \subseteq AllAhead["leaves"]
      /\ AllAhead'["stages"] \subseteq AllAhead["stages"]
  OBVIOUS
<1> QED BY <1>1, <1>2, <1>3, <1>4 DEF LessAhead

\* After a failure nothing is ahead, and before it the stages were.
LEMMA FailingEnds ==
    ASSUME pc # "failed", pc' = "failed"
    PROVE  LessAhead
<1>1. Ahead = AllAhead /\ Ahead' = [k \in DOMAIN AllAhead |-> {}]
  <2>1. DOMAIN AllAhead' = DOMAIN AllAhead
    BY DEF AllAhead
  <2> QED BY <2>1 DEF Ahead
<1>2. "stages" \in DOMAIN AllAhead /\ 1 \in AllAhead["stages"]
  <2>1. StagesLeft \in {1, 2, 3, 4, 5} /\ AllAhead["stages"] = 1 .. StagesLeft
    BY DEF StagesLeft, AllAhead
  <2>2. "stages" \in DOMAIN AllAhead
    BY DEF AllAhead
  <2> QED BY <2>1, <2>2
<1>3. \A k \in DOMAIN AllAhead : Ahead'[k] = {}
  BY <1>1
<1> QED BY <1>1, <1>2, <1>3 DEF LessAhead

\* The routes found are not empty and share nothing; the routes up to i stay.
LEMMA UpToFacts ==
    ASSUME Inv
    PROVE  /\ \A i \in 1 .. Len(raws) : raws[i] # {} /\ raws[i] \subseteq Segments
           /\ \A i, j \in 1 .. Len(raws) : i # j => raws[i] \cap raws[j] = {}
           /\ \A i, j \in 0 .. Len(raws) : i <= j => UpTo(i) \subseteq UpTo(j)
           /\ \A i \in 0 .. Len(raws) - 1 : \E s \in raws[i + 1] : s \notin UpTo(i) /\ s \in Segments
           /\ start \in 0 .. Len(raws) /\ End \in start .. Len(raws) /\ Len(raws) \in Nat
<1>1. Typed /\ Searched
  BY DEF Inv
<1>2. /\ \A i \in 1 .. Len(raws) : raws[i] # {} /\ raws[i] \subseteq Segments
      /\ \A i, j \in 1 .. Len(raws) : i # j => raws[i] \cap raws[j] = {}
      /\ start \in 0 .. Len(raws) /\ End \in start .. Len(raws) /\ Len(raws) \in Nat
  BY <1>1, RangeOfRaws, EndIs DEF Typed, Searched
<1>3. ASSUME NEW i \in 0 .. Len(raws), NEW j \in 0 .. Len(raws), i <= j PROVE UpTo(i) \subseteq UpTo(j)
  <2>1. 1 .. i \subseteq 1 .. j
    BY <1>2, <1>3
  <2> QED BY <2>1 DEF UpTo
<1>4. ASSUME NEW i \in 0 .. Len(raws) - 1
      PROVE  \E s \in raws[i + 1] : s \notin UpTo(i) /\ s \in Segments
  <2>1. i + 1 \in 1 .. Len(raws) /\ \A k \in 1 .. i : k \in 1 .. Len(raws) /\ k # i + 1
    BY <1>2, <1>4
  <2>2. PICK s \in raws[i + 1] : s \in Segments
    BY <1>2, <2>1
  <2>3. s \notin UpTo(i)
    BY <1>2, <2>1, <2>2 DEF UpTo
  <2> QED BY <2>2, <2>3
<1> QED BY <1>2, <1>3, <1>4

\* Outside of the batches the waiting segments are those behind start.
LEMMA IdleParts ==
    ASSUME Inv, src' = src, start' = start, \A i \in 1 .. start : raws'[i] = raws[i],
           ~Building, ~Building'
    PROVE  /\ AllAhead'.starts = AllAhead.starts /\ AllAhead'.handed = AllAhead.handed
           /\ AllAhead'.builds = AllAhead.builds /\ AllAhead'.stores = AllAhead.stores
           /\ AllAhead'.leaves = AllAhead.leaves
<1>1. Segments' = Segments /\ UpTo(start)' = UpTo(start)
  <2>1. Segments' = Segments
    BY SourceStays
  <2>2. UpTo(start)' = UNION {raws'[k] : k \in 1 .. start'}
    BY DEF UpTo
  <2>3. \A s : s \in UNION {raws'[k] : k \in 1 .. start} <=> s \in UNION {raws[k] : k \in 1 .. start}
    OBVIOUS
  <2> QED BY <2>1, <2>2, <2>3 DEF UpTo
<1>2. Waiting(start)' = Waiting(start)
  BY <1>1 DEF Waiting
<1>3. /\ AllAhead.starts = Waiting(start) /\ AllAhead.handed = Waiting(start)
      /\ AllAhead.builds = Waiting(start) /\ AllAhead.stores = Waiting(start)
      /\ AllAhead.leaves = {p \in Segments \X Workers : p[1] \notin UpTo(start)}
  BY DEF AllAhead
<1>4. /\ AllAhead'.starts = Waiting(start)' /\ AllAhead'.handed = Waiting(start)'
      /\ AllAhead'.builds = Waiting(start)' /\ AllAhead'.stores = Waiting(start)'
      /\ AllAhead'.leaves = {p \in Segments' \X Workers : p[1] \notin UpTo(start)'}
  BY DEF AllAhead
<1> QED BY <1>1, <1>2, <1>3, <1>4

\* The search is over, or has not moved.
LEMMA SearchParts ==
    ASSUME UNCHANGED <<src, claimed, route>>
    PROVE  /\ AllAhead'.claims = AllAhead.claims /\ AllAhead'.routes = AllAhead.routes
           /\ AllAhead'.queries = AllAhead.queries
<1>1. Segments' = Segments /\ \A S : EndsOf(S)' = EndsOf(S)
  BY SourceStays
<1>2. EndsOf(Segments)' = EndsOf(Segments)
  BY <1>1 DEF EndsOf, Segments
<1> QED BY <1>1, <1>2 DEF AllAhead

\* The stages by where RunPassB is.
LEMMA StageParts ==
    /\ AllAhead.stages = 1 .. StagesLeft
    /\ pc \in {"search", "expand", "build", "next"} => StagesLeft = 5
    /\ pc = "boundary" => StagesLeft = 4
    /\ pc = "junctions" => StagesLeft = 3
    /\ pc = "persist" => StagesLeft = 2
    /\ pc = "done" => StagesLeft = 1
BY DEF AllAhead, StagesLeft

\* A round of the search claims a segment, ends a route, or queries a node for good.
LEMMA SearchLess ==
    ASSUME Inv, Fresh, Seed \/ Expand \/ EndRoute
    PROVE  LessAhead
<1>1. Typed /\ Searched
  BY DEF Inv
<1>2. /\ pc \in {"search", "expand"} /\ pc' \in {"search", "expand"} /\ src' = src /\ start' = start
      /\ pc # "failed" /\ pc' # "failed"
  BY DEF Seed, Expand, EndRoute, pool
<1>3. ~Building /\ ~Building' /\ \A i \in 1 .. start : raws'[i] = raws[i]
  <2>1. raws' = raws \/ raws' = Append(raws, route.members)
    BY DEF Seed, Expand, EndRoute
  <2>2. \A i \in 1 .. start : i \in 1 .. Len(raws)
    BY <1>1 DEF Typed
  <2>3. raws \in Seq(SUBSET Segments) /\ route.members \in SUBSET Segments
    BY <1>1 DEF Typed, Routes
  <2>4. \A i \in 1 .. Len(raws) : Append(raws, route.members)[i] = raws[i]
    BY <2>3
  <2> QED BY <1>2, <2>1, <2>2, <2>4 DEF Building
<1>4. /\ AllAhead'.starts = AllAhead.starts /\ AllAhead'.handed = AllAhead.handed
      /\ AllAhead'.builds = AllAhead.builds /\ AllAhead'.stores = AllAhead.stores
      /\ AllAhead'.leaves = AllAhead.leaves
  BY <1>2, <1>3, IdleParts
<1>5. AllAhead'.stages = AllAhead.stages
  <2>1. StagesLeft' = 5 /\ StagesLeft = 5
    BY <1>2 DEF StagesLeft
  <2> QED BY <2>1 DEF AllAhead
<1>6. Segments' = Segments /\ EndsOf(Segments)' = EndsOf(Segments) /\ \A S : EndsOf(S)' = EndsOf(S)
  <2>1. Segments' = Segments /\ \A S : EndsOf(S)' = EndsOf(S)
    BY <1>2, SourceStays
  <2> QED BY <1>2, <2>1 DEF EndsOf, Segments
<1> DEFINE E == EndsOf(Segments)
<1>7. /\ AllAhead.claims = Segments \ claimed /\ AllAhead'.claims = Segments \ claimed'
      /\ AllAhead.routes = (Segments \ claimed) \cup route.members
      /\ AllAhead'.routes = (Segments \ claimed') \cup route'.members
      /\ AllAhead.queries = {p \in Segments \X E :
            p[1] \notin claimed \/ (p[1] \in route.members /\ p[2] \notin route.queried)}
      /\ AllAhead'.queries = {p \in Segments \X E :
            p[1] \notin claimed' \/ (p[1] \in route'.members /\ p[2] \notin route'.queried)}
  BY <1>6 DEF AllAhead
<1>8. src \in Sources /\ Segments \in SUBSET Nat /\ claimed \subseteq Segments /\ route.members \subseteq Segments
  BY <1>1, SourceFacts DEF Typed, Routes
<1> HIDE DEF E
<1>9. CASE Seed
  <2> DEFINE s == Min(Segments \ claimed)
  <2>1. s \in Segments \ claimed
    BY <1>8, <1>9, MinIs DEF Seed
  <2>2. claimed' = claimed \cup {s} /\ route'.members = {s} /\ route'.queried = {} /\ pc = "search"
    BY <1>9 DEF Seed
  <2> HIDE DEF s
  <2>3. /\ AllAhead'.claims \subseteq AllAhead.claims /\ s \in AllAhead.claims /\ s \notin AllAhead'.claims
        /\ AllAhead'.routes \subseteq AllAhead.routes
    BY <1>7, <2>1, <2>2
  <2>4. AllAhead'.queries \subseteq AllAhead.queries
    BY <1>7, <2>1, <2>2
  <2> QED BY <1>2, <1>4, <1>5, <2>3, <2>4, LessWhen
<1>10. CASE Expand
  <2> DEFINE new == Touching(route.frontier) \ claimed
  <2>1. /\ claimed' = claimed \cup new /\ route'.members = route.members \cup new
        /\ route'.queried = route.queried \cup route.frontier /\ route.frontier # {}
        /\ pc = "expand"
    BY <1>10 DEF Expand
  <2>2. new \cap claimed = {}
    OBVIOUS
  <2> HIDE DEF new
  <2>3. AllAhead'.claims \subseteq AllAhead.claims /\ AllAhead'.routes \subseteq AllAhead.routes
    <3>1. route'.members \subseteq (Segments \ claimed) \cup route.members
      BY <1>8, <2>1, <2>2 DEF new, Touching
    <3> QED BY <1>7, <2>1, <3>1
  <2>4. AllAhead'.queries \subseteq AllAhead.queries
    BY <1>7, <2>1, <2>2
  <2>5. PICK n \in route.frontier : TRUE
    BY <2>1
  <2>6. n \in E /\ n \notin route.queried
    <3>1. n \in EndsOf(route.members)
      BY <1>1 DEF Searched
    <3>2. \E u \in route.members \cap Usable : n \in ToSet(src.terms[u])
      BY <1>8, <3>1, EndsAre
    <3>3. Segments \in SUBSET Segments
      OBVIOUS
    <3>4. n \in EndsOf(Segments)
      BY <1>8, <3>2, <3>3, EndsAre
    <3> QED BY <3>4 DEF E, Fresh
  <2>7. PICK s \in route.members : s \in Segments /\ s \in claimed
    BY <1>1, <1>8, <2>1 DEF Searched
  <2>8. <<s, n>> \in AllAhead.queries /\ <<s, n>> \notin AllAhead'.queries
    BY <1>7, <2>1, <2>6, <2>7
  <2> QED BY <1>2, <1>4, <1>5, <2>3, <2>4, <2>8, LessWhen
<1>11. CASE EndRoute
  <2>1. claimed' = claimed /\ route'.members = {} /\ pc = "expand"
    BY <1>11 DEF EndRoute, NoRoute
  <2>2. PICK s \in route.members : s \in claimed
    BY <1>1, <2>1 DEF Searched
  <2>3. /\ AllAhead'.claims \subseteq AllAhead.claims /\ AllAhead'.routes \subseteq AllAhead.routes
        /\ s \in AllAhead.routes /\ s \notin AllAhead'.routes
    BY <1>7, <2>1, <2>2
  <2>4. AllAhead'.queries \subseteq AllAhead.queries
    BY <1>7, <2>1
  <2> QED BY <1>2, <1>4, <1>5, <2>3, <2>4, LessWhen
<1> QED BY <1>9, <1>10, <1>11

\* While the routes stay, so do the segments behind each of them.
LEMMA BatchParts ==
    ASSUME UNCHANGED <<src, raws>>
    PROVE  /\ Segments' = Segments /\ \A i : UpTo(i)' = UpTo(i)
           /\ Waiting(start)' = Segments \ UpTo(start')
           /\ Built' = UNION {raws[i] : i \in DOMAIN results'}
           /\ UpTo(start)' = UpTo(start') /\ UpTo(End)' = UpTo(End') /\ UpTo(nextIdx)' = UpTo(nextIdx')
<1>1. Segments' = Segments
  BY SourceStays
<1>2. \A i : UpTo(i)' = UpTo(i)
  BY DEF UpTo
<1>3. UpTo(start)' = UpTo(start') /\ UpTo(End)' = UpTo(End') /\ UpTo(nextIdx)' = UpTo(nextIdx')
  BY DEF UpTo
<1>4. Built' = UNION {raws[i] : i \in DOMAIN results'}
  BY DEF Built
<1> QED BY <1>1, <1>2, <1>3, <1>4 DEF Waiting

\* A batch that starts takes its segments off, and when there is none the stages go on.
LEMMA StartLess ==
    ASSUME Inv, StartBatch
    PROVE  LessAhead
<1>1. /\ UNCHANGED <<src, claimed, route, raws, start, batchSize>> /\ pc \in {"search", "next"}
      /\ pc # "failed" /\ ~Building
  BY DEF StartBatch, search, Building
<1>2. /\ AllAhead'.claims = AllAhead.claims /\ AllAhead'.routes = AllAhead.routes
      /\ AllAhead'.queries = AllAhead.queries
  BY <1>1, SearchParts
<1>3. CASE start < Len(raws)
  <2>1. pc' = "build" /\ Building' /\ worker' = [w \in Workers |-> Free] /\ nextIdx' = start /\ results' = NoRow
    BY <1>3 DEF StartBatch, Building
  <2>2. End' = End /\ start' = start
    BY <1>1 DEF End
  <2>3. /\ AllAhead.starts = Segments \ UpTo(start) /\ AllAhead'.starts = Segments \ UpTo(End)
        /\ AllAhead.handed = Segments \ UpTo(start) /\ AllAhead'.handed = Segments \ UpTo(start)
        /\ AllAhead.stores = Segments \ UpTo(start) /\ AllAhead'.stores = Segments \ UpTo(start)
    <3>1. /\ AllAhead'.starts = Segments' \ UpTo(End)' /\ AllAhead'.handed = Segments' \ UpTo(nextIdx)'
          /\ AllAhead'.stores = Segments' \ UpTo(start)'
      BY <2>1 DEF AllAhead, Waiting
    <3>2. /\ AllAhead.starts = Segments \ UpTo(start) /\ AllAhead.handed = Segments \ UpTo(start)
          /\ AllAhead.stores = Segments \ UpTo(start)
      BY <1>1 DEF AllAhead, Waiting
    <3> QED BY <1>1, <2>1, <2>2, <3>1, <3>2, BatchParts
  <2>4. AllAhead.builds = Segments \ UpTo(start) /\ AllAhead'.builds \subseteq Segments \ UpTo(start)
    BY <1>1, <2>1, <2>2, BatchParts DEF AllAhead, Waiting
  <2>5. AllAhead'.leaves \subseteq AllAhead.leaves
    <3>1. AllAhead.leaves = {p \in Segments \X Workers : p[1] \notin UpTo(start)}
      BY <1>1 DEF AllAhead
    <3>2. AllAhead'.leaves \subseteq {p \in Segments' \X Workers : p[1] \notin UpTo(start)'}
      BY DEF AllAhead
    <3> QED BY <1>1, <2>2, <3>1, <3>2, BatchParts
  <2>6. UpTo(start) \subseteq UpTo(End) /\ \E s \in Segments : s \notin UpTo(start) /\ s \in UpTo(End)
    <3>1. /\ start \in 0 .. Len(raws) - 1 /\ End \in 0 .. Len(raws) /\ start <= End /\ Len(raws) \in Nat
          /\ start \in 0 .. Len(raws)
      BY <1>3, UpToFacts
    <3>2. start < End
      BY <1>3, EndIs DEF Inv
    <3>3. PICK s \in raws[start + 1] : s \notin UpTo(start) /\ s \in Segments
      BY <3>1, UpToFacts
    <3>4. start + 1 \in 1 .. End
      BY <3>1, <3>2
    <3>5. s \in UpTo(End)
      BY <3>3, <3>4 DEF UpTo
    <3>6. UpTo(start) \subseteq UpTo(End)
      BY <3>1, UpToFacts
    <3> QED BY <3>3, <3>5, <3>6
  <2>7. AllAhead'.stages = AllAhead.stages
    <3>1. StagesLeft = 5 /\ StagesLeft' = 5
      BY <1>1, <2>1 DEF StagesLeft
    <3> QED BY <3>1 DEF AllAhead
  <2>8. AllAhead'.starts \subseteq AllAhead.starts /\ AllAhead'.starts # AllAhead.starts
    BY <2>3, <2>6
  <2>9. pc' # "failed"
    BY <2>1
  <2> QED BY <1>1, <1>2, <2>3, <2>4, <2>5, <2>7, <2>8, <2>9, LessWhen
<1>4. CASE ~(start < Len(raws))
  <2>1. pc' = "boundary" /\ ~Building' /\ pc' # "failed"
    BY <1>4 DEF StartBatch, Building
  <2>2. /\ AllAhead'.starts = AllAhead.starts /\ AllAhead'.handed = AllAhead.handed
        /\ AllAhead'.builds = AllAhead.builds /\ AllAhead'.stores = AllAhead.stores
        /\ AllAhead'.leaves = AllAhead.leaves
    BY <1>1, <2>1, IdleParts
  <2>3. AllAhead.stages = 1 .. 5 /\ AllAhead'.stages = 1 .. 4
    <3>1. StagesLeft = 5 /\ StagesLeft' = 4
      BY <1>1, <2>1 DEF StagesLeft
    <3> QED BY <3>1 DEF AllAhead
  <2>4. AllAhead'.stages \subseteq AllAhead.stages /\ AllAhead'.stages # AllAhead.stages
    BY <2>3
  <2> QED BY <1>1, <1>2, <2>1, <2>2, <2>4, LessWhen
<1> QED BY <1>3, <1>4

\* A stage after the batches is passed once.
LEMMA StageLess ==
    ASSUME Inv, ResolveBoundaryEquivalents \/ ResolveStandaloneJunctions \/ PersistRest(AllTables)
    PROVE  LessAhead
<1>1. /\ UNCHANGED <<src, claimed, route, raws, start>> /\ ~Building /\ ~Building'
      /\ pc # "failed" /\ pc' # "failed"
      /\ \/ pc = "boundary" /\ pc' = "junctions"
         \/ pc = "junctions" /\ pc' = "persist"
         \/ pc = "persist" /\ pc' = "done"
  BY DEF ResolveBoundaryEquivalents, ResolveStandaloneJunctions, PersistRest, search, pool, Building
<1>2. /\ AllAhead'.starts = AllAhead.starts /\ AllAhead'.handed = AllAhead.handed
      /\ AllAhead'.builds = AllAhead.builds /\ AllAhead'.stores = AllAhead.stores
      /\ AllAhead'.leaves = AllAhead.leaves
  BY <1>1, IdleParts
<1>3. /\ AllAhead'.claims = AllAhead.claims /\ AllAhead'.routes = AllAhead.routes
      /\ AllAhead'.queries = AllAhead.queries
  BY <1>1, SearchParts
<1>4. /\ StagesLeft \in 1 .. 5 /\ StagesLeft' \in 1 .. 5 /\ StagesLeft' < StagesLeft
  BY <1>1 DEF StagesLeft
<1>5. AllAhead.stages = 1 .. StagesLeft /\ AllAhead'.stages = 1 .. StagesLeft'
  BY DEF AllAhead
<1> HIDE DEF StagesLeft
<1>6. /\ AllAhead'.stages \subseteq AllAhead.stages
      /\ StagesLeft \in AllAhead.stages /\ StagesLeft \notin AllAhead'.stages
  BY <1>4, <1>5
<1> QED BY <1>1, <1>2, <1>3, <1>6, LessWhen

\* What is ahead in a batch.
LEMMA BuildingParts ==
    ASSUME Building
    PROVE  /\ AllAhead.starts = Segments \ UpTo(End)
           /\ AllAhead.handed = Segments \ UpTo(nextIdx)
           /\ AllAhead.builds = (Segments \ UpTo(start)) \ Built
           /\ AllAhead.stores = Segments \ UpTo(start)
           /\ AllAhead.leaves = {p \in Segments \X Workers :
                 /\ p[1] \notin UpTo(start)
                 /\ p[1] \in UpTo(End) => worker[p[2]] # Left}
<1>1. pc = "build"
  BY DEF Building
<1>2. /\ AllAhead.starts = Segments \ UpTo(End)
      /\ AllAhead.handed = Segments \ UpTo(nextIdx)
      /\ AllAhead.builds = (Segments \ UpTo(start)) \ Built
      /\ AllAhead.stores = Segments \ UpTo(start)
  BY <1>1 DEF AllAhead, Waiting, Building
<1>3. AllAhead.leaves = {p \in Segments \X Workers :
         /\ p[1] \notin UpTo(start)
         /\ pc = "build" /\ p[1] \in UpTo(End) => worker[p[2]] # Left}
  BY DEF AllAhead, Building
<1> QED BY <1>1, <1>2, <1>3

\* The same, at the next moment, of a step that stays in the batch.
LEMMA StillBuilding ==
    ASSUME Building, Building', UNCHANGED <<src, claimed, route, raws, start, batchSize>>
    PROVE  /\ AllAhead'.claims = AllAhead.claims /\ AllAhead'.routes = AllAhead.routes
           /\ AllAhead'.queries = AllAhead.queries
           /\ AllAhead'.starts = AllAhead.starts /\ AllAhead'.stores = AllAhead.stores
           /\ AllAhead'.stages = AllAhead.stages
           /\ AllAhead'.handed = Segments \ UpTo(nextIdx')
           /\ AllAhead'.builds = (Segments \ UpTo(start)) \ UNION {raws[i] : i \in DOMAIN results'}
           /\ AllAhead'.leaves = {p \in Segments \X Workers :
                 /\ p[1] \notin UpTo(start)
                 /\ p[1] \in UpTo(End) => worker'[p[2]] # Left}
<1>1. End' = End /\ start' = start
  BY DEF End
<1>2. /\ AllAhead'.starts = Segments' \ UpTo(End)'
      /\ AllAhead'.handed = Segments' \ UpTo(nextIdx)'
      /\ AllAhead'.builds = (Segments' \ UpTo(start)') \ Built'
      /\ AllAhead'.stores = Segments' \ UpTo(start)'
      /\ AllAhead'.leaves = {p \in Segments' \X Workers :
            /\ p[1] \notin UpTo(start)'
            /\ p[1] \in UpTo(End)' => worker'[p[2]] # Left}
  <2>1. pc' = "build"
    BY DEF Building
  <2>2. /\ AllAhead'.starts = Segments' \ UpTo(End)'
        /\ AllAhead'.handed = Segments' \ UpTo(nextIdx)'
        /\ AllAhead'.builds = (Segments' \ UpTo(start)') \ Built'
        /\ AllAhead'.stores = Segments' \ UpTo(start)'
    BY <2>1 DEF AllAhead, Waiting, Building
  <2>3. AllAhead'.leaves = {p \in Segments' \X Workers :
           /\ p[1] \notin UpTo(start)'
           /\ pc' = "build" /\ p[1] \in UpTo(End)' => worker'[p[2]] # Left}
    BY DEF AllAhead, Building
  <2> QED BY <2>1, <2>2, <2>3
<1>3. AllAhead'.stages = AllAhead.stages
  <2>1. StagesLeft = 5 /\ StagesLeft' = 5
    BY DEF StagesLeft, Building
  <2> QED BY <2>1 DEF AllAhead
<1> QED BY <1>1, <1>2, <1>3, BatchParts, BuildingParts, SearchParts

\* A route handed out, a worker that leaves and a route built are not so again in the batch.
LEMMA WorkLess ==
    ASSUME Inv, Fresh, NEW w \in Workers, Work(w)
    PROVE  LessAhead
<1>1. Typed /\ Pooled
  BY DEF Inv
<1>2. pc = "build" /\ pc' = pc /\ Building /\ Building' /\ pc # "failed" /\ pc' # "failed"
  BY <1>1 DEF Work, Claim, Build, Pooled, AllLeft, Free, Left, Building
<1>3. UNCHANGED <<src, claimed, route, raws, start, batchSize>>
  BY DEF Work, Claim, Build, search
<1>4. /\ start < Len(raws) /\ nextIdx \in start .. End /\ start \in Nat /\ End \in Nat /\ Len(raws) \in Nat
      /\ start \in 0 .. Len(raws) - 1 /\ End \in start .. Len(raws) /\ worker \in [Workers -> Int]
      /\ worker[w] \in {-1, 0} \cup (start + 1 .. nextIdx)
      /\ \A i \in DOMAIN results : i \in start + 1 .. nextIdx
  BY <1>1, <1>2, EndIs DEF Typed, Pooled, Left, Free
<1>5. /\ AllAhead'.claims = AllAhead.claims /\ AllAhead'.routes = AllAhead.routes
      /\ AllAhead'.queries = AllAhead.queries
      /\ AllAhead'.starts = AllAhead.starts /\ AllAhead'.stores = AllAhead.stores
      /\ AllAhead'.stages = AllAhead.stages
      /\ AllAhead'.handed = Segments \ UpTo(nextIdx')
      /\ AllAhead'.builds = (Segments \ UpTo(start)) \ UNION {raws[i] : i \in DOMAIN results'}
      /\ AllAhead'.leaves = {p \in Segments \X Workers :
            /\ p[1] \notin UpTo(start)
            /\ p[1] \in UpTo(End) => worker'[p[2]] # Left}
  BY <1>2, <1>3, StillBuilding
<1>6. /\ AllAhead.handed = Segments \ UpTo(nextIdx)
      /\ AllAhead.builds = (Segments \ UpTo(start)) \ UNION {raws[i] : i \in DOMAIN results}
      /\ AllAhead.leaves = {p \in Segments \X Workers :
            /\ p[1] \notin UpTo(start)
            /\ p[1] \in UpTo(End) => worker[p[2]] # Left}
  BY <1>2, BuildingParts DEF Built
\* A worker that had not left leaves no pair behind when it moves.
<1>7. worker[w] # Left /\ (\A v \in Workers : v # w => worker'[v] = worker[v])
      => AllAhead'.leaves \subseteq AllAhead.leaves
  <2> SUFFICES ASSUME worker[w] # Left, \A v \in Workers : v # w => worker'[v] = worker[v],
                      NEW p \in AllAhead'.leaves
               PROVE  p \in AllAhead.leaves
    OBVIOUS
  <2>1. /\ p \in Segments \X Workers /\ p[2] \in Workers /\ p[1] \notin UpTo(start)
        /\ p[1] \in UpTo(End) => worker'[p[2]] # Left
    BY <1>5
  <2>2. p[1] \in UpTo(End) => worker[p[2]] # Left
    BY <2>1
  <2> QED BY <1>6, <2>1, <2>2
<1>8. CASE Claim(w) /\ nextIdx < End
  <2>1. /\ worker[w] = 0 /\ worker' = [worker EXCEPT ![w] = nextIdx + 1] /\ nextIdx' = nextIdx + 1
        /\ results' = results
    BY <1>8 DEF Claim, Free
  <2>2. worker[w] # Left /\ \A v \in Workers : v # w => worker'[v] = worker[v]
    BY <1>4, <2>1 DEF Left
  <2>3. nextIdx \in 0 .. Len(raws) - 1 /\ nextIdx + 1 \in 0 .. Len(raws) /\ nextIdx <= nextIdx + 1
        /\ nextIdx \in 0 .. Len(raws)
    BY <1>4, <1>8
  <2>4. PICK s \in raws[nextIdx + 1] : s \notin UpTo(nextIdx) /\ s \in Segments
    BY <2>3, UpToFacts
  <2>5. s \in UpTo(nextIdx + 1)
    <3>1. nextIdx + 1 \in 1 .. nextIdx + 1
      BY <2>3
    <3> QED BY <2>4, <3>1 DEF UpTo
  <2>6. UpTo(nextIdx) \subseteq UpTo(nextIdx + 1)
    BY <2>3, UpToFacts
  <2>7. /\ AllAhead'.handed \subseteq AllAhead.handed
        /\ s \in AllAhead.handed /\ s \notin AllAhead'.handed
    BY <1>5, <1>6, <2>1, <2>4, <2>5, <2>6
  <2>8. AllAhead'.builds = AllAhead.builds
    BY <1>5, <1>6, <2>1
  <2> QED BY <1>2, <1>5, <1>7, <2>2, <2>7, <2>8, LessWhen
<1>9. CASE Claim(w) /\ ~(nextIdx < End)
  <2>1. /\ worker[w] = 0 /\ worker' = [worker EXCEPT ![w] = Left] /\ nextIdx' = nextIdx
        /\ results' = results
    BY <1>9 DEF Claim, Free
  <2>2. worker[w] # Left /\ worker'[w] = Left /\ \A v \in Workers : v # w => worker'[v] = worker[v]
    BY <1>4, <2>1 DEF Left
  <2>3. PICK s \in raws[start + 1] : s \notin UpTo(start) /\ s \in Segments
    BY <1>4, UpToFacts
  <2>4. s \in UpTo(End)
    <3>1. start + 1 \in 1 .. End
      BY <1>1, <1>4, EndIs
    <3> QED BY <2>3, <3>1 DEF UpTo
  <2>5. <<s, w>> \in AllAhead.leaves /\ <<s, w>> \notin AllAhead'.leaves
    BY <1>5, <1>6, <2>2, <2>3, <2>4
  <2>6. AllAhead'.builds = AllAhead.builds /\ AllAhead'.handed = AllAhead.handed
    BY <1>5, <1>6, <2>1
  <2> QED BY <1>2, <1>5, <1>7, <2>2, <2>5, <2>6, LessWhen
<1>10. CASE Build(w)
  <2> DEFINE i == worker[w]
  <2>1. /\ i > 0 /\ worker' = [worker EXCEPT ![w] = 0] /\ nextIdx' = nextIdx
        /\ DOMAIN results' = DOMAIN results \cup {i}
    BY <1>10 DEF Build, Free, Put
  <2>2. worker[w] # Left /\ \A v \in Workers : v # w => worker'[v] = worker[v]
    BY <1>4, <2>1 DEF Left
  <2>3. i \in start + 1 .. nextIdx /\ i \in 1 .. Len(raws) /\ i \notin DOMAIN results
    BY <1>2, <1>4, <2>1 DEF Fresh
  <2>4. /\ \A j \in DOMAIN results : j \in 1 .. Len(raws) /\ j # i
        /\ \A j \in 1 .. start : j \in 1 .. Len(raws) /\ j # i
    BY <1>4, <2>3
  <2> HIDE DEF i
  <2>5. PICK s \in raws[i] : s \in Segments
    BY <2>3, UpToFacts
  <2>6. s \notin UpTo(start)
    BY <2>3, <2>4, <2>5, UpToFacts DEF UpTo
  <2>7. s \notin UNION {raws[j] : j \in DOMAIN results}
    BY <2>3, <2>4, <2>5, UpToFacts
  <2>8. s \in UNION {raws[j] : j \in DOMAIN results'}
        /\ UNION {raws[j] : j \in DOMAIN results} \subseteq UNION {raws[j] : j \in DOMAIN results'}
    BY <2>1, <2>5
  <2>9. /\ AllAhead'.builds \subseteq AllAhead.builds
        /\ s \in AllAhead.builds /\ s \notin AllAhead'.builds
    BY <1>5, <1>6, <2>5, <2>6, <2>7, <2>8
  <2>10. AllAhead'.handed = AllAhead.handed
    BY <1>5, <1>6, <2>1
  <2> QED BY <1>2, <1>5, <1>7, <2>2, <2>9, <2>10, LessWhen
<1> QED BY <1>8, <1>9, <1>10 DEF Work

\* A batch that is stored leaves its segments nothing more to wait for.
LEMMA EmitLess ==
    ASSUME Inv, Emit(AllTables)
    PROVE  LessAhead
<1>1. /\ pc = "build" /\ AllLeft /\ pc' = "next" /\ start' = End /\ UNCHANGED <<src, claimed, route, raws>>
      /\ pc # "failed" /\ pc' # "failed" /\ Building /\ ~Building'
  BY DEF Emit, search, Building
<1>2. Typed /\ Pooled
  BY DEF Inv
<1>3. start < End /\ DOMAIN results = start + 1 .. End
  BY <1>1, <1>2, BatchIsBuilt DEF Batch
<1>4. nextIdx = End
  <2>1. PICK w \in Workers : TRUE
    BY PoolAssumption
  <2> QED BY <1>1, <1>2, <2>1 DEF Pooled, AllLeft
<1>5. /\ start \in 0 .. Len(raws) - 1 /\ End \in 0 .. Len(raws) /\ start <= End /\ start \in 0 .. Len(raws)
      /\ Len(raws) \in Nat
  BY <1>3, UpToFacts
<1>6. /\ AllAhead'.claims = AllAhead.claims /\ AllAhead'.routes = AllAhead.routes
      /\ AllAhead'.queries = AllAhead.queries
  BY <1>1, SearchParts
<1>7. /\ AllAhead.starts = Segments \ UpTo(End) /\ AllAhead.handed = Segments \ UpTo(End)
      /\ AllAhead.builds = (Segments \ UpTo(start)) \ Built /\ AllAhead.stores = Segments \ UpTo(start)
      /\ AllAhead.leaves = {p \in Segments \X Workers :
            /\ p[1] \notin UpTo(start)
            /\ p[1] \in UpTo(End) => worker[p[2]] # Left}
  BY <1>1, <1>4, BuildingParts
<1>8. /\ AllAhead'.starts = Segments \ UpTo(End) /\ AllAhead'.handed = Segments \ UpTo(End)
      /\ AllAhead'.builds = Segments \ UpTo(End) /\ AllAhead'.stores = Segments \ UpTo(End)
      /\ AllAhead'.leaves = {p \in Segments \X Workers : p[1] \notin UpTo(End)}
  <2>1. UpTo(start)' = UpTo(End) /\ Segments' = Segments
    <3>1. \A i : UpTo(i)' = UpTo(i)
      BY <1>1, BatchParts
    <3>2. UpTo(start)' = UNION {raws'[k] : k \in 1 .. start'}
      BY DEF UpTo
    <3> QED BY <1>1, <3>2, BatchParts DEF UpTo
  <2>2. /\ AllAhead'.starts = Segments' \ UpTo(start)' /\ AllAhead'.handed = Segments' \ UpTo(start)'
        /\ AllAhead'.builds = Segments' \ UpTo(start)' /\ AllAhead'.stores = Segments' \ UpTo(start)'
        /\ AllAhead'.leaves = {p \in Segments' \X Workers : p[1] \notin UpTo(start)'}
    BY <1>1 DEF AllAhead, Waiting
  <2> QED BY <2>1, <2>2
<1>9. UpTo(start) \subseteq UpTo(End) /\ UpTo(start) \cup Built = UpTo(End)
  <2>1. UpTo(start) \subseteq UpTo(End)
    BY <1>5, UpToFacts
  <2>2. \A i : i \in 1 .. End <=> i \in 1 .. start \/ i \in start + 1 .. End
    BY <1>5
  <2>3. \A s : s \in UpTo(End) <=> s \in UpTo(start) \/ s \in Built
    BY <1>3, <2>2 DEF UpTo, Built
  <2> QED BY <2>1, <2>3
<1>10. PICK s \in raws[start + 1] : s \notin UpTo(start) /\ s \in Segments
  BY <1>5, UpToFacts
<1>11. s \in UpTo(End)
  <2>1. start + 1 \in 1 .. End
    BY <1>3, <1>5
  <2> QED BY <1>10, <2>1 DEF UpTo
<1>12. /\ AllAhead'.starts = AllAhead.starts /\ AllAhead'.handed = AllAhead.handed
       /\ AllAhead'.builds \subseteq AllAhead.builds /\ AllAhead'.stores \subseteq AllAhead.stores
       /\ s \in AllAhead.stores /\ s \notin AllAhead'.stores
  BY <1>7, <1>8, <1>9, <1>10, <1>11
<1>13. AllAhead'.leaves \subseteq AllAhead.leaves
  BY <1>7, <1>8, <1>9
<1>14. AllAhead'.stages = AllAhead.stages
  <2>1. StagesLeft = 5 /\ StagesLeft' = 5
    BY <1>1 DEF StagesLeft
  <2> QED BY <2>1 DEF AllAhead
<1> QED BY <1>1, <1>6, <1>12, <1>13, <1>14, LessWhen

\* RunPassB never repeats work: every step of its goroutine and of its workers leaves
\* strictly less ahead, and a failure leaves nothing.
THEOREM EveryStepCounts == Spec => [][LessAhead]_vars
<1>1. Inv /\ Fresh /\ [Next]_vars => [LessAhead]_vars
  <2> SUFFICES ASSUME Inv, Fresh, Next PROVE LessAhead \/ UNCHANGED vars
    OBVIOUS
  <2>1. CASE Seed \/ Expand \/ EndRoute
    BY <2>1, SearchLess
  <2>2. CASE StartBatch
    BY <2>2, StartLess
  <2>3. CASE Emit(AllTables)
    BY <2>3, EmitLess
  <2>4. CASE ResolveBoundaryEquivalents \/ ResolveStandaloneJunctions \/ PersistRest(AllTables)
    BY <2>4, StageLess
  <2>5. ASSUME NEW k \in 0 .. AllTables - 1, Emit(k) \/ PersistRest(k) PROVE LessAhead
    <3>1. k # AllTables
      BY DEF AllTables
    <3>2. pc # "failed" /\ pc' = "failed"
      BY <2>5, <3>1 DEF Emit, PersistRest
    <3> QED BY <3>2, FailingEnds
  <2>6. CASE Fail
    <3>1. pc # "failed" /\ pc' = "failed"
      BY <2>6 DEF Fail
    <3> QED BY <3>1, FailingEnds
  <2>7. ASSUME NEW w \in Workers, Work(w) PROVE LessAhead
    BY <2>7, WorkLess
  <2> QED BY <2>1, <2>2, <2>3, <2>4, <2>5, <2>6, <2>7 DEF Next, Main, Errs
<1> QED BY <1>1, InvAlways, AlwaysFresh, PTL DEF Spec

\* A source with finitely many segments has finitely many ends.
LEMMA EndsFinite ==
    ASSUME src \in Sources, IsFiniteSet(Segments)
    PROVE  IsFiniteSet(EndsOf(Segments))
<1>1. ASSUME NEW s \in Segments PROVE IsFiniteSet(ToSet(src.terms[s]))
  <2> DEFINE t == src.terms[s]
  <2>1. t \in Seq(Nat \ {0})
    BY SourceFacts
  <2> HIDE DEF t
  <2>2. Len(t) \in Nat /\ DOMAIN t = 1 .. Len(t) /\ t \in [1 .. Len(t) -> ToSet(t)]
    BY <2>1 DEF ToSet
  <2>3. t \in Surjection(1 .. Len(t), ToSet(t))
    BY <2>2 DEF Surjection, ToSet
  <2>4. IsFiniteSet(1 .. Len(t))
    <3>1. 1 \in Int /\ Len(t) \in Int
      BY <2>2
    <3> QED BY <3>1, FS_Interval
  <2>5. IsFiniteSet(ToSet(t))
    BY <2>3, <2>4, FS_Surjection
  <2> QED BY <2>5 DEF t
<1> DEFINE f == [s \in Segments |-> ToSet(src.terms[s])]
           T == {f[s] : s \in Segments}
<1>2. f \in Surjection(Segments, T)
  BY DEF Surjection
<1>3. \A t \in T : IsFiniteSet(t)
  BY <1>1
<1> HIDE DEF f
<1>4. IsFiniteSet(T)
  BY <1>2, FS_Surjection
<1> HIDE DEF T
<1>5. IsFiniteSet(UNION T)
  BY <1>3, <1>4, FS_UNION
<1>6. EndsOf(Segments) \subseteq UNION T
  BY DEF EndsOf, T, f
<1> QED BY <1>5, <1>6, FS_Subset

\* What is ahead of RunPassB is finite when the source and the pool are, so that it makes
\* finitely many steps.
THEOREM AheadIsFinite ==
    ASSUME IsFiniteSet(Workers), \A s \in Sources : IsFiniteSet(DOMAIN s.terms)
    PROVE  Spec => [](\A k \in DOMAIN AllAhead : IsFiniteSet(Ahead[k]))
<1>1. Inv => \A k \in DOMAIN AllAhead : IsFiniteSet(Ahead[k])
  <2> SUFFICES ASSUME Inv PROVE \A k \in DOMAIN AllAhead : IsFiniteSet(Ahead[k])
    OBVIOUS
  <2>1. src \in Sources /\ route.members \subseteq Segments /\ IsFiniteSet(Segments)
    BY DEF Inv, Typed, Routes, Segments
  <2>2. IsFiniteSet(Segments \X EndsOf(Segments)) /\ IsFiniteSet(Segments \X Workers)
    BY <2>1, EndsFinite, FS_Product
  <2>3. DOMAIN AllAhead = {"claims", "routes", "queries", "starts", "handed", "builds", "stores", "leaves", "stages"}
    BY DEF AllAhead
  <2>4. /\ AllAhead["claims"] \subseteq Segments /\ AllAhead["routes"] \subseteq Segments
        /\ AllAhead["starts"] \subseteq Segments /\ AllAhead["handed"] \subseteq Segments
        /\ AllAhead["builds"] \subseteq Segments /\ AllAhead["stores"] \subseteq Segments
    BY <2>1 DEF AllAhead, Waiting
  <2>5. AllAhead["queries"] \subseteq Segments \X EndsOf(Segments)
        /\ AllAhead["leaves"] \subseteq Segments \X Workers
    BY DEF AllAhead
  <2>6. IsFiniteSet(AllAhead["stages"])
    <3>1. AllAhead["stages"] = 1 .. StagesLeft /\ 1 \in Int /\ StagesLeft \in Int
      BY DEF AllAhead, StagesLeft
    <3>2. IsFiniteSet(1 .. StagesLeft)
      BY <3>1, FS_Interval
    <3> QED BY <3>1, <3>2
  <2>7. /\ IsFiniteSet(AllAhead["claims"]) /\ IsFiniteSet(AllAhead["routes"])
        /\ IsFiniteSet(AllAhead["starts"]) /\ IsFiniteSet(AllAhead["handed"])
        /\ IsFiniteSet(AllAhead["builds"]) /\ IsFiniteSet(AllAhead["stores"])
    BY <2>1, <2>4, FS_Subset
  <2>8. IsFiniteSet(AllAhead["queries"]) /\ IsFiniteSet(AllAhead["leaves"])
    BY <2>2, <2>5, FS_Subset
  <2>9. \A k \in DOMAIN AllAhead : IsFiniteSet(AllAhead[k])
    BY <2>3, <2>6, <2>7, <2>8
  <2>10. IsFiniteSet({})
    BY FS_EmptySet
  <2> QED BY <2>9, <2>10 DEF Ahead
<1> QED BY <1>1, InvAlways, PTL
=============================================================================
