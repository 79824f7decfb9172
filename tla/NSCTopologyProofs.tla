-------------------------- MODULE NSCTopologyProofs --------------------------
(* Proofs about NSCTopology, for any network without rings: the walk passes   *)
(* nothing twice and ends, what it writes is complete, and its connections    *)
(* are the ways of the graph. Two claims of the package comment are settled.   *)
EXTENDS NSCTopology, FiniteSetTheorems, FunctionTheorems, SequenceTheorems, WellFoundedInduction, TLAPS

-----------------------------------------------------------------------------
(* Least numbers, and the induction they give.                              *)

\* A set of naturals has a least one.
LEMMA LeastExists ==
    ASSUME NEW S \in SUBSET Nat, S # {}
    PROVE  \E x \in S : \A y \in S : x <= y
<1>1. IsWellFoundedOn(OpToRel(<, Nat), Nat)
  BY NatLessThanWellFounded
<1>2. PICK x \in S : \A y \in S : ~(<<y, x>> \in OpToRel(<, Nat))
  BY <1>1, WFMin
<1>3. \A y \in S : ~(<<y, x>> \in {p \in Nat \X Nat : p[1] < p[2]})
  BY <1>2 DEF OpToRel
<1>4. ASSUME NEW y \in S, y < x PROVE FALSE
  <2> DEFINE p == <<y, x>>
  <2>1. p \in Nat \X Nat /\ p[1] = y /\ p[2] = x
    OBVIOUS
  <2>2. p[1] < p[2]
    BY <1>4, <2>1
  <2>3. p \notin {q \in Nat \X Nat : q[1] < q[2]}
    BY <1>3
  <2> HIDE DEF p
  <2> QED BY <2>1, <2>2, <2>3
<1>5. \A y \in S : x \in Nat /\ y \in Nat /\ ~(y < x)
  BY <1>4
<1> QED BY <1>5

\* Min names it, and nothing else is it.
LEMMA MinIs ==
    ASSUME NEW S \in SUBSET Nat, S # {}
    PROVE  /\ Min(S) \in S /\ Min(S) \in Nat
           /\ \A y \in S : Min(S) <= y
           /\ \A x \in S : (\A y \in S : x <= y) => x = Min(S)
<1>1. Min(S) \in S /\ \A y \in S : Min(S) <= y
  BY LeastExists DEF Min
<1>2. ASSUME NEW x \in S, \A y \in S : x <= y PROVE x = Min(S)
  <2>1. x <= Min(S) /\ Min(S) <= x /\ x \in Nat /\ Min(S) \in Nat
    BY <1>1, <1>2
  <2> QED BY <2>1
<1> QED BY <1>1, <1>2

\* f records what the steps make of x, one after the other.
Records(f, n, x, step) == f[0] = x /\ \A k \in 1 .. n : f[k] = step[k][f[k - 1]]

\* Steps that are functions have a record.
LEMMA StepsExist ==
    ASSUME NEW n \in Nat, NEW X, NEW x \in X, NEW step \in [1 .. n -> [X -> X]]
    PROVE  \E f \in [0 .. n -> X] : Records(f, n, x, step)
<1> DEFINE Bad == {m \in 0 .. n : ~\E f \in [0 .. m -> X] : Records(f, m, x, step)}
<1>1. Bad = {}
  <2> SUFFICES ASSUME Bad # {} PROVE FALSE
    OBVIOUS
  <2>1. PICK m \in Bad : \A k \in Bad : m <= k
    BY LeastExists, Bad \in SUBSET Nat
  <2>2. CASE m = 0
    <3> DEFINE g == [k \in 0 .. 0 |-> x]
    <3>1. g \in [0 .. 0 -> X] /\ Records(g, 0, x, step)
      BY DEF Records
    <3> QED BY <2>1, <2>2, <3>1
  <2>3. CASE m # 0
    <3>1. m \in 1 .. n /\ m - 1 \in 0 .. n /\ ~(m <= m - 1)
      BY <2>1, <2>3
    <3>2. PICK f \in [0 .. m - 1 -> X] : Records(f, m - 1, x, step)
      BY <2>1, <3>1
    <3> DEFINE g == [k \in 0 .. m |-> IF k = m THEN step[m][f[m - 1]] ELSE f[k]]
    <3>3. f[m - 1] \in X /\ step[m] \in [X -> X]
      BY <3>1, <3>2
    <3>4. g \in [0 .. m -> X] /\ g[0] = x
      BY <3>1, <3>2, <3>3 DEF Records
    <3>5. ASSUME NEW k \in 1 .. m PROVE g[k] = step[k][g[k - 1]]
      <4>1. k - 1 \in 0 .. m /\ k - 1 # m /\ k \in 0 .. m /\ g[k - 1] = f[k - 1]
        BY <3>1
      <4>2. CASE k = m
        BY <4>1, <4>2
      <4>3. CASE k # m
        <5>1. k \in 1 .. (m - 1) /\ g[k] = f[k]
          BY <3>1, <4>1, <4>3
        <5> QED BY <3>2, <4>1, <5>1 DEF Records
      <4> QED BY <4>2, <4>3
    <3>6. Records(g, m, x, step)
      BY <3>4, <3>5 DEF Records
    <3> HIDE DEF g
    <3> QED BY <2>1, <3>4, <3>6
  <2> QED BY <2>2, <2>3
<1> QED BY <1>1, n \in 0 .. n

\* What a function makes of a finite set is finite.
LEMMA ImageFinite ==
    ASSUME NEW f, IsFiniteSet(DOMAIN f)
    PROVE  IsFiniteSet({f[x] : x \in DOMAIN f})
<1> DEFINE T == {f[x] : x \in DOMAIN f}  g == [x \in DOMAIN f |-> f[x]]
<1>1. g \in Surjection(DOMAIN f, T)
  BY DEF Surjection
<1> QED BY <1>1, FS_Surjection

-----------------------------------------------------------------------------
(* Terminals and their nodes.                                               *)

\* The nodes an equipment touches.
NodesOf(e) == ToSet(source.nodes[e])

\* Equipment, busbar sections and what conducts, and the nodes they touch.
LEMMA EquipmentIs ==
    ASSUME source \in Sources
    PROVE  /\ \A e \in Equipment : /\ source.nodes[e] \in Seq(Nodes) /\ NodesOf(e) \subseteq Nodes
                                   /\ DOMAIN source.nodes[e] = 1 .. Len(source.nodes[e])
                                   /\ Len(source.nodes[e]) \in Nat
           /\ Conducting \subseteq Equipment /\ BusbarSections \subseteq Equipment
           /\ BusbarSections \cap Conducting = {}
           /\ Equipment \subseteq Nat /\ IsFiniteSet(Equipment)
<1>1. /\ source.nodes \in [Equipment -> Seq(Nodes)]
      /\ Equipment \subseteq Nat /\ IsFiniteSet(Equipment)
  BY SourceAssumption
<1>2. ASSUME NEW e \in Equipment
      PROVE  /\ source.nodes[e] \in Seq(Nodes) /\ NodesOf(e) \subseteq Nodes
             /\ DOMAIN source.nodes[e] = 1 .. Len(source.nodes[e])
             /\ Len(source.nodes[e]) \in Nat
  <2>1. source.nodes[e] \in Seq(Nodes)
    BY <1>1
  <2> QED BY <2>1 DEF NodesOf, ToSet
<1>3. Conducting \subseteq Equipment /\ BusbarSections \subseteq Equipment
      /\ BusbarSections \cap Conducting = {}
  BY DEF Conducting, BusbarSections, Stops
<1> QED BY <1>1, <1>2, <1>3

\* A Terminal belongs to its equipment and is at one of its nodes; every node of it has one.
LEMMA TerminalIs ==
    ASSUME source \in Sources, NEW E \in SUBSET Equipment
    PROVE  /\ \A t \in Terminals(E) :
                 /\ t.eq \in E /\ t.no \in DOMAIN source.nodes[t.eq] /\ t = Terminal(t.eq, t.no)
                 /\ t.no \in Nat /\ t.no > 0
                 /\ NodeOf(t) \in NodesOf(t.eq) /\ NodeOf(t) \in Nodes
           /\ \A e \in E : \A i \in DOMAIN source.nodes[e] :
                 /\ Terminal(e, i) \in Terminals(E) /\ NodeOf(Terminal(e, i)) = source.nodes[e][i]
                 /\ Terminal(e, i).eq = e /\ Terminal(e, i).no = i
           /\ \A e \in E : \A m \in NodesOf(e) :
                 \E i \in DOMAIN source.nodes[e] : source.nodes[e][i] = m
<1>1. ASSUME NEW t \in Terminals(E)
      PROVE  /\ t.eq \in E /\ t.no \in DOMAIN source.nodes[t.eq] /\ t = Terminal(t.eq, t.no)
             /\ t.no \in Nat /\ t.no > 0
             /\ NodeOf(t) \in NodesOf(t.eq) /\ NodeOf(t) \in Nodes
  <2>1. PICK e \in E : t \in OwnTerminals(e)
    BY DEF Terminals
  <2>2. PICK i \in DOMAIN source.nodes[e] : t = Terminal(e, i)
    BY <2>1 DEF OwnTerminals
  <2>3. t.eq = e /\ t.no = i
    BY <2>2 DEF Terminal
  <2>4. source.nodes[e] \in Seq(Nodes) /\ i \in 1 .. Len(source.nodes[e]) /\ Len(source.nodes[e]) \in Nat
    BY EquipmentIs
  <2>5. NodeOf(t) = source.nodes[e][i]
    BY <2>3 DEF NodeOf
  <2> QED BY <2>2, <2>3, <2>4, <2>5 DEF NodesOf, ToSet
<1>2. ASSUME NEW e \in E, NEW i \in DOMAIN source.nodes[e]
      PROVE  /\ Terminal(e, i) \in Terminals(E) /\ NodeOf(Terminal(e, i)) = source.nodes[e][i]
             /\ Terminal(e, i).eq = e /\ Terminal(e, i).no = i
  <2>1. Terminal(e, i).eq = e /\ Terminal(e, i).no = i
    BY DEF Terminal
  <2>2. Terminal(e, i) \in OwnTerminals(e)
    BY DEF OwnTerminals
  <2> QED BY <2>1, <2>2 DEF Terminals, NodeOf
<1>3. \A e \in E : \A m \in NodesOf(e) : \E i \in DOMAIN source.nodes[e] : source.nodes[e][i] = m
  BY DEF NodesOf, ToSet
<1> QED BY <1>1, <1>2, <1>3

-----------------------------------------------------------------------------
(* What equipment joins.                                                    *)

\* The joined nodes are the least set that the equipment does not leave.
LEMMA JoinedIs ==
    ASSUME source \in Sources, NEW E \in SUBSET Equipment, NEW n \in Nodes
    PROVE  /\ JoinedTo(n, E) \subseteq Nodes /\ n \in JoinedTo(n, E)
           /\ Closed(JoinedTo(n, E), E)
           /\ \A S \in SUBSET Nodes : n \in S /\ Closed(S, E) => JoinedTo(n, E) \subseteq S
           /\ \A e \in E : \A x, y \in NodesOf(e) : x \in JoinedTo(n, E) => y \in JoinedTo(n, E)
<1>1. JoinedTo(n, E) \subseteq Nodes /\ n \in JoinedTo(n, E)
  BY DEF JoinedTo
<1>2. \A S \in SUBSET Nodes : n \in S /\ Closed(S, E) => JoinedTo(n, E) \subseteq S
  BY DEF JoinedTo
<1>3. ASSUME NEW e \in E, NEW x \in NodesOf(e), NEW y \in NodesOf(e), x \in JoinedTo(n, E)
      PROVE  y \in JoinedTo(n, E)
  <2>1. y \in Nodes
    BY EquipmentIs
  <2>2. ASSUME NEW S \in SUBSET Nodes, n \in S, Closed(S, E) PROVE y \in S
    <3>1. x \in S
      BY <1>3, <2>2 DEF JoinedTo
    <3> QED BY <2>2, <3>1 DEF Closed, NodesOf
  <2> QED BY <2>1, <2>2 DEF JoinedTo
<1>4. Closed(JoinedTo(n, E), E)
  BY <1>3 DEF Closed, NodesOf
<1> QED BY <1>1, <1>2, <1>3, <1>4

\* Joining goes both ways.
LEMMA JoinedIsMutual ==
    ASSUME source \in Sources, NEW E \in SUBSET Equipment, NEW n \in Nodes, NEW m \in JoinedTo(n, E)
    PROVE  m \in Nodes /\ n \in JoinedTo(m, E) /\ JoinedTo(m, E) = JoinedTo(n, E)
<1>1. m \in Nodes
  BY JoinedIs
<1>2. n \in JoinedTo(m, E)
  <2>1. SUFFICES ASSUME n \notin JoinedTo(m, E) PROVE FALSE
    OBVIOUS
  <2> DEFINE S == Nodes \ JoinedTo(m, E)
  <2>2. Closed(S, E)
    <3>1. ASSUME NEW e \in E, NodesOf(e) \cap S # {} PROVE NodesOf(e) \subseteq S
      <4>1. NodesOf(e) \subseteq Nodes
        BY EquipmentIs
      <4>2. \A x, y \in NodesOf(e) : x \in JoinedTo(m, E) => y \in JoinedTo(m, E)
        BY <1>1, JoinedIs
      <4> QED BY <3>1, <4>1, <4>2
    <3> QED BY <3>1 DEF Closed, NodesOf
  <2>3. JoinedTo(n, E) \subseteq S
    BY <2>1, <2>2, JoinedIs
  <2> QED BY <1>1, <2>3, JoinedIs
<1>3. JoinedTo(m, E) \subseteq JoinedTo(n, E)
  BY <1>1, JoinedIs
<1>4. JoinedTo(n, E) \subseteq JoinedTo(m, E)
  BY <1>1, <1>2, JoinedIs
<1> QED BY <1>1, <1>2, <1>3, <1>4

\* More equipment joins more.
LEMMA JoinedGrows ==
    ASSUME source \in Sources, NEW F \in SUBSET Equipment, NEW E \in SUBSET F, NEW n \in Nodes
    PROVE  JoinedTo(n, E) \subseteq JoinedTo(n, F)
<1>1. E \in SUBSET Equipment
  OBVIOUS
<1>2. Closed(JoinedTo(n, F), E) /\ n \in JoinedTo(n, F) /\ JoinedTo(n, F) \subseteq Nodes
  BY JoinedIs DEF Closed
<1> QED BY <1>1, <1>2, JoinedIs

\* There are finitely many Terminals.
LEMMA TerminalsFinite ==
    ASSUME source \in Sources, NEW E \in SUBSET Equipment
    PROVE  IsFiniteSet(Terminals(E))
<1>1. IsFiniteSet(E)
  BY EquipmentIs, FS_Subset
<1>2. ASSUME NEW e \in E PROVE IsFiniteSet(OwnTerminals(e))
  <2> DEFINE f == [i \in DOMAIN source.nodes[e] |-> Terminal(e, i)]
  <2>1. IsFiniteSet(DOMAIN f)
    BY EquipmentIs, FS_Interval
  <2>2. OwnTerminals(e) = {f[i] : i \in DOMAIN f}
    BY DEF OwnTerminals
  <2> HIDE DEF f
  <2> QED BY <2>1, <2>2, ImageFinite
<1> DEFINE g == [e \in E |-> OwnTerminals(e)]
<1>3. IsFiniteSet({g[e] : e \in DOMAIN g})
  <2>1. IsFiniteSet(DOMAIN g)
    BY <1>1
  <2> HIDE DEF g
  <2> QED BY <2>1, ImageFinite
<1>4. \A T \in {g[e] : e \in DOMAIN g} : IsFiniteSet(T)
  BY <1>2
<1>5. Terminals(E) = UNION {g[e] : e \in DOMAIN g}
  BY DEF Terminals
<1> HIDE DEF g
<1> QED BY <1>3, <1>4, <1>5, FS_UNION

-----------------------------------------------------------------------------
(* Without a ring every equipment separates its nodes.                      *)

\* The Terminals T link n to m: no set with n is without m that they do not leave.
Kept(S, T) == \A t, u \in T : t.eq = u.eq /\ NodeOf(t) \in S => NodeOf(u) \in S
Linked(T, n, m) == \A S \in SUBSET Nodes : n \in S /\ Kept(S, T) => m \in S

\* Of the sets of Terminals that link two nodes some have the fewest Terminals.
LEMMA FewestLink ==
    ASSUME source \in Sources, NEW E \in SUBSET Equipment, NEW n, NEW m, Linked(Terminals(E), n, m)
    PROVE  \E T \in SUBSET Terminals(E) : Linked(T, n, m) /\ \A t \in T : ~Linked(T \ {t}, n, m)
<1>1. IsFiniteSet(Terminals(E))
  BY TerminalsFinite
<1> DEFINE Links == {T \in SUBSET Terminals(E) : Linked(T, n, m)}
           Sizes == {Cardinality(T) : T \in Links}
<1>2. \A T \in Links : IsFiniteSet(T) /\ Cardinality(T) \in Nat
  BY <1>1, FS_Subset, FS_CardinalityType
<1>3. Sizes \in SUBSET Nat /\ Sizes # {}
  BY <1>2
<1>4. PICK k \in Sizes : \A j \in Sizes : k <= j
  BY <1>3, LeastExists
<1>5. PICK T \in Links : Cardinality(T) = k
  BY <1>4
<1>6. ASSUME NEW t \in T, Linked(T \ {t}, n, m) PROVE FALSE
  <2>1. T \ {t} \in Links
    BY <1>6
  <2>2. Cardinality(T \ {t}) = Cardinality(T) - 1
    BY <1>2, <1>5, FS_RemoveElement
  <2>3. k \in Nat /\ Cardinality(T \ {t}) \in Sizes
    BY <1>2, <1>5, <2>1
  <2>4. k <= Cardinality(T \ {t})
    BY <1>4, <2>3
  <2> QED BY <1>5, <2>2, <2>3, <2>4
<1> QED BY <1>5, <1>6

\* Terminals that are in no ring: one is alone at its equipment or at its node.
\* None of a fewest link is, except at its two ends.
LEMMA FewestAreShared ==
    ASSUME source \in Sources, NEW E \in SUBSET Equipment, NEW n, NEW m,
           NEW T \in SUBSET Terminals(E), Linked(T, n, m), \A t \in T : ~Linked(T \ {t}, n, m)
    PROVE  \A t \in T : /\ \E u \in T \ {t} : u.eq = t.eq
                        /\ (NodeOf(t) \notin {n, m}) => (\E u \in T \ {t} : NodeOf(u) = NodeOf(t))
<1> TAKE t \in T
<1>1. PICK S \in SUBSET Nodes : n \in S /\ Kept(S, T \ {t}) /\ m \notin S
  BY DEF Linked
<1>2. ~Kept(S, T)
  BY <1>1 DEF Linked
<1>3. PICK u \in T \ {t} : u.eq = t.eq /\ ~(NodeOf(u) \in S <=> NodeOf(t) \in S)
  BY <1>1, <1>2 DEF Kept
<1>4. ASSUME NodeOf(t) \notin {n, m}, \A w \in T \ {t} : NodeOf(w) # NodeOf(t) PROVE FALSE
  <2> DEFINE R == IF NodeOf(u) \in S THEN S \cup {NodeOf(t)} ELSE S \ {NodeOf(t)}
  <2>1. R \in SUBSET Nodes /\ n \in R /\ m \notin R
    BY <1>1, <1>4, TerminalIs
  <2>2. \A w \in T \ {t} : NodeOf(w) \in R <=> NodeOf(w) \in S
    BY <1>4
  <2>3. NodeOf(t) \in R <=> NodeOf(u) \in S
    OBVIOUS
  <2>4. \A w \in T \ {t} : w.eq = t.eq => (NodeOf(w) \in S <=> NodeOf(u) \in S)
    BY <1>1, <1>3 DEF Kept
  <2>5. Kept(R, T)
    <3> HIDE DEF R
    <3>1. ASSUME NEW w \in T, NEW v \in T, w.eq = v.eq, NodeOf(w) \in R PROVE NodeOf(v) \in R
      <4>1. CASE w = t /\ v = t
        BY <3>1, <4>1
      <4>2. CASE w = t /\ v # t
        BY <3>1, <4>2, <2>2, <2>3, <2>4
      <4>3. CASE w # t /\ v = t
        BY <3>1, <4>3, <2>2, <2>3, <2>4
      <4>4. CASE w # t /\ v # t
        BY <1>1, <3>1, <4>4, <2>2 DEF Kept
      <4> QED BY <4>1, <4>2, <4>3, <4>4
    <3> QED BY <3>1 DEF Kept
  <2> QED BY <2>1, <2>5 DEF Linked
<1> QED BY <1>3, <1>4

\* The other equipment never joins two nodes of one: neither of two Terminals
\* of it that are at one node, nor of Terminals at two.
LEMMA Apart ==
    ASSUME source \in Sources, RingFree, NEW e \in Conducting,
           NEW i \in DOMAIN source.nodes[e], NEW j \in DOMAIN source.nodes[e], i # j
    PROVE  source.nodes[e][j] \notin JoinedTo(source.nodes[e][i], Conducting \ {e})
<1> DEFINE E == Conducting \ {e}  n == source.nodes[e][i]  m == source.nodes[e][j]
           p == Terminal(e, i)  q == Terminal(e, j)
<1>0. SUFFICES ASSUME m \in JoinedTo(n, E) PROVE FALSE
  OBVIOUS
<1>1. E \in SUBSET Equipment /\ Conducting \in SUBSET Equipment
  BY EquipmentIs
<1>2. /\ p \in Terminals(Conducting) /\ q \in Terminals(Conducting) /\ p # q
      /\ NodeOf(p) = n /\ NodeOf(q) = m /\ p.eq = e /\ q.eq = e
      /\ n \in Nodes /\ m \in Nodes
  <2>1. /\ p \in Terminals(Conducting) /\ q \in Terminals(Conducting)
        /\ NodeOf(p) = n /\ NodeOf(q) = m /\ p.eq = e /\ q.eq = e /\ p.no = i /\ q.no = j
    BY <1>1, TerminalIs
  <2> HIDE DEF p, q, n, m
  <2> QED BY <1>1, <2>1, TerminalIs
<1>3. Terminals(E) \subseteq Terminals(Conducting) /\ p \notin Terminals(E) /\ q \notin Terminals(E)
  <2>1. Terminals(E) \subseteq Terminals(Conducting)
    BY DEF Terminals
  <2> HIDE DEF p, q
  <2>2. p \notin Terminals(E) /\ q \notin Terminals(E)
    BY <1>1, <1>2, TerminalIs
  <2> QED BY <2>1, <2>2
<1> HIDE DEF p, q, n, m
<1>4. \A T \in (SUBSET Terminals(Conducting)) \ {{}} :
         \E t \in T : (\A u \in T \ {t} : u.eq # t.eq) \/ (\A u \in T \ {t} : NodeOf(u) # NodeOf(t))
  BY DEF RingFree
<1>5. CASE n = m
  <2> DEFINE T == {p, q}
  <2>1. T \in (SUBSET Terminals(Conducting)) \ {{}}
    BY <1>2
  <2>2. PICK t \in T : (\A u \in T \ {t} : u.eq # t.eq) \/ (\A u \in T \ {t} : NodeOf(u) # NodeOf(t))
    BY <1>4, <2>1
  <2> QED BY <1>2, <1>5, <2>2
<1>6. CASE n # m
  <2>1. Linked(Terminals(E), n, m)
    <3>1. ASSUME NEW S \in SUBSET Nodes, n \in S, Kept(S, Terminals(E)) PROVE m \in S
      <4>1. ASSUME NEW f \in E, NEW x \in NodesOf(f), NEW y \in NodesOf(f), x \in S PROVE y \in S
        <5>1. PICK a \in DOMAIN source.nodes[f], b \in DOMAIN source.nodes[f] :
                 source.nodes[f][a] = x /\ source.nodes[f][b] = y
          BY <1>1, TerminalIs
        <5>2. /\ Terminal(f, a) \in Terminals(E) /\ Terminal(f, b) \in Terminals(E)
              /\ NodeOf(Terminal(f, a)) = x /\ NodeOf(Terminal(f, b)) = y
              /\ Terminal(f, a).eq = Terminal(f, b).eq
          BY <1>1, <5>1, TerminalIs
        <5> QED BY <3>1, <4>1, <5>2 DEF Kept
      <4>2. Closed(S, E)
        BY <4>1 DEF Closed, NodesOf
      <4> QED BY <1>0, <1>1, <1>2, <3>1, <4>2, JoinedIs
    <3> QED BY <3>1 DEF Linked
  <2>2. PICK T \in SUBSET Terminals(E) : Linked(T, n, m) /\ \A t \in T : ~Linked(T \ {t}, n, m)
    BY <1>1, <2>1, FewestLink
  <2>3. \A t \in T : /\ \E u \in T \ {t} : u.eq = t.eq
                     /\ (NodeOf(t) \notin {n, m}) => (\E u \in T \ {t} : NodeOf(u) = NodeOf(t))
    BY <1>1, <2>2, FewestAreShared
  <2>4. \E t \in T : NodeOf(t) = n
    <3>1. SUFFICES ASSUME \A t \in T : NodeOf(t) # n PROVE FALSE
      OBVIOUS
    <3>2. Kept({n}, T)
      BY <3>1 DEF Kept
    <3> QED BY <1>2, <1>6, <2>2, <3>2 DEF Linked
  <2>5. \E t \in T : NodeOf(t) = m
    <3>1. SUFFICES ASSUME \A t \in T : NodeOf(t) # m PROVE FALSE
      OBVIOUS
    <3>2. \A t \in T : NodeOf(t) \in Nodes \ {m}
      BY <1>1, <3>1, TerminalIs
    <3>3. Kept(Nodes \ {m}, T)
      BY <3>2 DEF Kept
    <3> QED BY <1>2, <1>6, <2>2, <3>3 DEF Linked
  <2> DEFINE R == T \cup {p, q}
  <2>6. R \in (SUBSET Terminals(Conducting)) \ {{}}
    BY <1>2, <1>3
  <2>7. PICK t \in R : (\A u \in R \ {t} : u.eq # t.eq) \/ (\A u \in R \ {t} : NodeOf(u) # NodeOf(t))
    BY <1>4, <2>6
  <2>8. p \notin T /\ q \notin T
    BY <1>3
  <2>9. CASE t \in {p, q}
    BY <1>2, <2>4, <2>5, <2>7, <2>8, <2>9
  <2>10. CASE t \in T
    <3>1. \E u \in R \ {t} : u.eq = t.eq
      BY <2>3, <2>10
    <3>2. \E u \in R \ {t} : NodeOf(u) = NodeOf(t)
      BY <1>2, <2>3, <2>8, <2>10
    <3> QED BY <2>7, <3>1, <3>2
  <2> QED BY <2>9, <2>10
<1> QED BY <1>5, <1>6

-----------------------------------------------------------------------------
(* What lies between two nodes, and what is beyond an equipment.            *)

\* The conducting equipment between two nodes: without it they are apart.
OnWay(s, m) == {e \in Conducting : m \notin JoinedTo(s, Conducting \ {e})}

\* To pass an equipment that was not passed yet adds it, and nothing else.
LEMMA PassAdds ==
    ASSUME source \in Sources, RingFree, NEW s \in Nodes, NEW e \in Conducting,
           NEW i \in DOMAIN source.nodes[e], NEW j \in DOMAIN source.nodes[e], i # j,
           source.nodes[e][i] \in JoinedTo(s, Conducting \ {e})
    PROVE  /\ source.nodes[e][j] \in JoinedTo(s, Conducting)
           /\ source.nodes[e][j] \notin JoinedTo(s, Conducting \ {e})
           /\ e \notin OnWay(s, source.nodes[e][i])
           /\ OnWay(s, source.nodes[e][j]) = OnWay(s, source.nodes[e][i]) \cup {e}
<1> DEFINE m == source.nodes[e][i]  n == source.nodes[e][j]
<1>1. m \in NodesOf(e) /\ n \in NodesOf(e) /\ m \in Nodes /\ n \in Nodes
  <2>1. m \in NodesOf(e) /\ n \in NodesOf(e)
    BY DEF NodesOf, ToSet
  <2> QED BY <2>1, EquipmentIs
<1>2. \A E \in SUBSET Conducting : E \in SUBSET Equipment
  BY EquipmentIs
<1>3. n \notin JoinedTo(m, Conducting \ {e})
  BY Apart
<1> HIDE DEF m, n
<1>4. m \in JoinedTo(s, Conducting)
  BY <1>2, JoinedGrows DEF m
<1>5. n \in JoinedTo(s, Conducting)
  BY <1>1, <1>2, <1>4, JoinedIs
<1>6. n \notin JoinedTo(s, Conducting \ {e})
  BY <1>2, <1>3, JoinedIsMutual DEF m
<1>7. ASSUME NEW f \in Conducting, f # e
      PROVE  m \in JoinedTo(s, Conducting \ {f}) <=> n \in JoinedTo(s, Conducting \ {f})
  <2>1. e \in Conducting \ {f}
    BY <1>7
  <2> QED BY <1>1, <1>2, <2>1, JoinedIs
<1>8. e \notin OnWay(s, m) /\ e \in OnWay(s, n)
  BY <1>6 DEF OnWay, m
<1>9. \A f \in Conducting : f # e => (f \in OnWay(s, m) <=> f \in OnWay(s, n))
  BY <1>7 DEF OnWay
<1>10. OnWay(s, n) = OnWay(s, m) \cup {e}
  BY <1>8, <1>9 DEF OnWay
<1> QED BY <1>5, <1>6, <1>8, <1>10 DEF m, n

\* What was reached before an equipment is reached without what comes after it.
LEMMA FurtherOn ==
    ASSUME source \in Sources, RingFree, NEW s \in Nodes, NEW e \in Conducting,
           NEW i \in DOMAIN source.nodes[e], NEW j \in DOMAIN source.nodes[e], i # j,
           source.nodes[e][i] \in JoinedTo(s, Conducting \ {e}),
           NEW f \in Conducting \ {e}, source.nodes[e][j] \in NodesOf(f)
    PROVE  /\ JoinedTo(s, Conducting \ {e}) \subseteq JoinedTo(s, Conducting \ {f})
           /\ NodesOf(e) \subseteq JoinedTo(s, Conducting \ {f})
<1> DEFINE A == JoinedTo(s, Conducting \ {e})  B == JoinedTo(s, Conducting \ {f})
           n == source.nodes[e][j]
<1>1. Conducting \ {e} \in SUBSET Equipment /\ Conducting \ {f} \in SUBSET Equipment
  BY EquipmentIs
<1>2. n \notin A
  BY PassAdds
<1>3. /\ A \subseteq Nodes /\ s \in A
      /\ \A g \in Conducting \ {e} : \A x, y \in NodesOf(g) : x \in A => y \in A
  BY <1>1, JoinedIs
<1>4. /\ B \subseteq Nodes /\ s \in B
      /\ \A g \in Conducting \ {f} : \A x, y \in NodesOf(g) : x \in B => y \in B
  BY <1>1, JoinedIs
<1>5. NodesOf(f) \cap A = {}
  BY <1>2, <1>3
<1>6. \A S \in SUBSET Nodes : s \in S /\ Closed(S, Conducting \ {e}) => A \subseteq S
  BY <1>1, JoinedIs
<1> HIDE DEF A, B, n
<1>7. ASSUME NEW g \in Conducting \ {e}
      PROVE  NodesOf(g) \cap (A \cap B) = {} \/ NodesOf(g) \subseteq A \cap B
  <2>1. CASE g = f
    BY <1>5, <2>1
  <2>2. CASE g # f
    BY <1>3, <1>4, <2>2
  <2> QED BY <2>1, <2>2
<1>8. Closed(A \cap B, Conducting \ {e})
  BY <1>7 DEF Closed, NodesOf
<1>9. A \subseteq B
  <2>1. A \cap B \in SUBSET Nodes /\ s \in A \cap B
    BY <1>3, <1>4
  <2>2. A \subseteq A \cap B
    BY <1>6, <1>8, <2>1
  <2> QED BY <2>2
<1>10. source.nodes[e][i] \in NodesOf(e) /\ source.nodes[e][i] \in A
  BY DEF NodesOf, ToSet, A
<1>11. e \in Conducting \ {f}
  OBVIOUS
<1> QED BY <1>4, <1>9, <1>10, <1>11 DEF A, B

\* Where several lines F lead on from the nodes K that are reached: every joined
\* node is one of K or beyond one of the lines, and only one.
LeadOn(s, K, F) ==
    /\ K \subseteq JoinedTo(s, Conducting) /\ s \in K /\ F \subseteq Conducting
    /\ \A f \in Conducting \ F : NodesOf(f) \cap K = {} \/ NodesOf(f) \subseteq K
    /\ \A f \in F : NodesOf(f) \cap K # {} /\ K \subseteq JoinedTo(s, Conducting \ {f})
Divides(s, K, F) ==
    /\ \A x \in JoinedTo(s, Conducting) :
          x \in K \/ \E f \in F : x \notin JoinedTo(s, Conducting \ {f})
    /\ \A x \in JoinedTo(s, Conducting) : \A f, g \in F :
          x \notin JoinedTo(s, Conducting \ {f}) /\ x \notin JoinedTo(s, Conducting \ {g}) => f = g
\* What K leads on to is beyond exactly one equipment of F.
LEMMA Fan ==
    ASSUME source \in Sources, RingFree, NEW s \in Nodes, NEW K, NEW F, LeadOn(s, K, F)
    PROVE  Divides(s, K, F)
<1> DEFINE J == JoinedTo(s, Conducting)  B(f) == JoinedTo(s, Conducting \ {f})
<1>0. /\ K \subseteq J /\ s \in K /\ F \subseteq Conducting
      /\ \A f \in Conducting \ F : NodesOf(f) \cap K = {} \/ NodesOf(f) \subseteq K
      /\ \A f \in F : NodesOf(f) \cap K # {} /\ K \subseteq B(f)
  BY DEF LeadOn
<1>1. Conducting \in SUBSET Equipment /\ \A f \in Conducting : Conducting \ {f} \in SUBSET Equipment
  BY EquipmentIs
<1>2. /\ J \subseteq Nodes /\ s \in J
      /\ \A g \in Conducting : \A x, y \in NodesOf(g) : x \in J => y \in J
  BY <1>1, JoinedIs
<1>3. \A f \in Conducting : /\ B(f) \subseteq Nodes /\ s \in B(f)
                            /\ \A g \in Conducting \ {f} : \A x, y \in NodesOf(g) : x \in B(f) => y \in B(f)
  BY <1>1, JoinedIs
<1>4. \A S \in SUBSET Nodes : s \in S /\ Closed(S, Conducting) => J \subseteq S
  BY <1>1, JoinedIs
<1>5. ASSUME NEW f \in F, NEW p \in NodesOf(f) \cap K, NEW y \in NodesOf(f), y # p PROVE y \notin B(f)
  <2>1. PICK i \in DOMAIN source.nodes[f], j \in DOMAIN source.nodes[f] :
           source.nodes[f][i] = p /\ source.nodes[f][j] = y
    BY DEF NodesOf, ToSet
  <2>2. y \notin JoinedTo(p, Conducting \ {f})
    BY <1>0, <1>5, <2>1, Apart
  <2>3. p \in B(f)
    BY <1>0
  <2> QED BY <1>0, <1>1, <2>2, <2>3, JoinedIsMutual
<1> HIDE DEF J, B
<1>6. ASSUME NEW x \in J PROVE x \in K \/ \E f \in F : x \notin B(f)
  <2> DEFINE U == K \cup {y \in J : \E f \in F : y \notin B(f)}
  <2>1. ASSUME NEW f \in F PROVE NodesOf(f) \subseteq U
    <3>1. PICK p \in NodesOf(f) : p \in K
      BY <1>0
    <3>2. \A y \in NodesOf(f) : y \in J
      BY <1>0, <1>2, <3>1
    <3>3. \A y \in NodesOf(f) : y = p \/ y \notin B(f)
      BY <1>5, <3>1
    <3> QED BY <3>1, <3>2, <3>3
  <2>2. ASSUME NEW f \in Conducting \ F, NEW z \in NodesOf(f), z \in U, NEW y \in NodesOf(f)
        PROVE  y \in U
    <3>1. CASE z \in K
      BY <1>0, <2>2, <3>1
    <3>2. CASE z \notin K
      <4>1. PICK g \in F : z \in J /\ z \notin B(g)
        BY <2>2, <3>2
      <4>2. f \in Conducting \ {g} /\ g \in Conducting
        BY <1>0
      <4>3. y \notin B(g) /\ y \in J
        BY <1>2, <1>3, <4>1, <4>2
      <4> QED BY <4>3
    <3> QED BY <3>1, <3>2
  <2>3. Closed(U, Conducting)
    BY <2>1, <2>2 DEF Closed, NodesOf
  <2>4. U \in SUBSET Nodes /\ s \in U
    BY <1>0, <1>2
  <2>5. J \subseteq U
    <3> HIDE DEF U
    <3> QED BY <1>4, <2>3, <2>4
  <2> QED BY <2>5
<1>7. ASSUME NEW x \in J, NEW f \in F, NEW g \in F, x \notin B(f), x \notin B(g), f # g PROVE FALSE
  <2> DEFINE U == B(f) \cup B(g)
  <2>1. NodesOf(f) \subseteq B(g) /\ NodesOf(g) \subseteq B(f)
    <3>1. PICK p \in NodesOf(f), q \in NodesOf(g) : p \in K /\ q \in K
      BY <1>0
    <3>2. p \in B(g) /\ q \in B(f)
      BY <1>0, <3>1
    <3>3. f \in Conducting \ {g} /\ g \in Conducting \ {f}
      BY <1>0, <1>7
    <3> QED BY <1>3, <3>1, <3>2, <3>3
  <2>2. ASSUME NEW h \in Conducting, NEW z \in NodesOf(h), z \in U PROVE NodesOf(h) \subseteq U
    <3>1. CASE h \in {f, g}
      BY <2>1, <3>1
    <3>2. CASE h \notin {f, g}
      <4>1. h \in Conducting \ {f} /\ h \in Conducting \ {g}
        BY <3>2
      <4> QED BY <1>0, <1>3, <2>2, <4>1
    <3> QED BY <3>1, <3>2
  <2>3. Closed(U, Conducting)
    BY <2>2 DEF Closed, NodesOf
  <2>4. U \in SUBSET Nodes /\ s \in U
    BY <1>0, <1>3
  <2>5. J \subseteq U
    <3> HIDE DEF U
    <3> QED BY <1>4, <2>3, <2>4
  <2> QED BY <1>7, <2>5
<1> QED BY <1>6, <1>7 DEF J, B, Divides

-----------------------------------------------------------------------------
(* Lists: of a set in its order, and of lists one after the other.          *)

\* A finite set of Terminals in order: each is listed, and once.
LEMMA OrderedLists ==
    ASSUME source \in Sources, NEW T \in SUBSET Terminals(Equipment)
    PROVE  /\ Ordered(T) \in Seq(T) /\ DOMAIN Ordered(T) = 1 .. Len(Ordered(T))
           /\ ToSet(Ordered(T)) = T
           /\ \A i, j \in DOMAIN Ordered(T) : Ordered(T)[i] = Ordered(T)[j] => i = j
<1> DEFINE n == Cardinality(T)
           below(t) == {u \in T : Before(u, t)}
           r == [t \in T |-> Cardinality(below(t)) + 1]
<1>1. /\ IsFiniteSet(T) /\ n \in Nat
      /\ \A t \in T : t.eq \in Nat /\ t.no \in Nat /\ t = Terminal(t.eq, t.no)
  <2>1. IsFiniteSet(T)
    BY TerminalsFinite, FS_Subset
  <2>2. Equipment \in SUBSET Equipment /\ Equipment \subseteq Nat
    BY EquipmentIs
  <2>3. \A t \in Terminals(Equipment) : t.eq \in Equipment /\ t.no \in Nat /\ t = Terminal(t.eq, t.no)
    BY <2>2, TerminalIs
  <2> QED BY <2>1, <2>2, <2>3, FS_CardinalityType
<1>2. ASSUME NEW t \in T
      PROVE  /\ IsFiniteSet(below(t)) /\ Cardinality(below(t)) \in Nat
             /\ t \notin below(t) /\ r[t] = Cardinality(below(t)) + 1 /\ r[t] \in 1 .. n
  <2>1. IsFiniteSet(below(t)) /\ Cardinality(below(t)) \in Nat
    BY <1>1, FS_Subset, FS_CardinalityType
  <2>2. t \notin below(t)
    BY <1>1 DEF Before
  <2>3. below(t) \in SUBSET (T \ {t})
    BY <2>2
  <2>4. IsFiniteSet(T \ {t}) /\ Cardinality(T \ {t}) = n - 1
    BY <1>1, FS_RemoveElement
  <2> HIDE DEF below, n
  <2>5. Cardinality(below(t)) <= n - 1
    BY <2>3, <2>4, FS_Subset
  <2>6. r[t] = Cardinality(below(t)) + 1
    OBVIOUS
  <2> QED BY <1>1, <2>1, <2>2, <2>5, <2>6
<1>3. ASSUME NEW t \in T, NEW u \in T, Before(t, u) PROVE r[t] < r[u]
  <2>1. below(t) \cup {t} \in SUBSET below(u)
    BY <1>1, <1>3 DEF Before
  <2>2. Cardinality(below(t) \cup {t}) = Cardinality(below(t)) + 1
    BY <1>2, FS_AddElement
  <2>3. Cardinality(below(t) \cup {t}) <= Cardinality(below(u))
    BY <1>2, <2>1, FS_Subset
  <2>4. r[t] = Cardinality(below(t)) + 1 /\ r[u] = Cardinality(below(u)) + 1
    OBVIOUS
  <2>5. Cardinality(below(t)) \in Nat /\ Cardinality(below(u)) \in Nat
    BY <1>2
  <2> HIDE DEF below, r
  <2> QED BY <2>2, <2>3, <2>4, <2>5
<1>4. ASSUME NEW t \in T, NEW u \in T, r[t] = r[u] PROVE t = u
  <2>1. r[t] \in Nat /\ ~(r[t] < r[u]) /\ ~(r[u] < r[t])
    BY <1>2, <1>4
  <2>2. ~Before(t, u) /\ ~Before(u, t)
    BY <1>3, <2>1
  <2>3. t.eq = u.eq /\ t.no = u.no
    BY <1>1, <2>2 DEF Before
  <2> QED BY <1>1, <2>3
<1>5. r \in Injection(T, 1 .. n)
  BY <1>2, <1>4 DEF Injection, IsInjective
<1>6. \A i \in 1 .. n : \E t \in T : r[t] = i
  <2>1. IsFiniteSet(1 .. n) /\ Cardinality(1 .. n) = n
    BY <1>1, FS_Interval
  <2>2. r \in Surjection(T, 1 .. n)
    BY <1>5, <2>1, FS_Injection
  <2> QED BY <2>2 DEF Surjection
<1>7. DOMAIN Ordered(T) = 1 .. n
  BY DEF Ordered
<1>8. ASSUME NEW i \in 1 .. n PROVE Ordered(T)[i] \in T /\ r[Ordered(T)[i]] = i
  <2>1. Ordered(T)[i] = CHOOSE t \in T : Cardinality(below(t)) = i - 1
    BY DEF Ordered
  <2>2. PICK t \in T : r[t] = i
    BY <1>6
  <2>3. Cardinality(below(t)) + 1 = i /\ Cardinality(below(t)) \in Nat
    BY <1>2, <2>2
  <2>4. Cardinality(below(t)) = i - 1
    <3> HIDE DEF below
    <3> QED BY <2>3
  <2>5. Ordered(T)[i] \in T /\ Cardinality(below(Ordered(T)[i])) = i - 1
    BY <2>1, <2>4
  <2>6. i - 1 + 1 = i
    BY <1>1
  <2>7. r[Ordered(T)[i]] = Cardinality(below(Ordered(T)[i])) + 1
    BY <1>2, <2>5
  <2> HIDE DEF r, below
  <2> QED BY <2>5, <2>6, <2>7
<1> HIDE DEF r
<1>9. \A t \in T : Ordered(T)[r[t]] = t
  BY <1>2, <1>4, <1>8
<1>10. Ordered(T) \in Seq(T) /\ DOMAIN Ordered(T) = 1 .. Len(Ordered(T))
  <2> DEFINE pick(i) == CHOOSE t \in T : Cardinality(below(t)) = i - 1
  <2>1. Ordered(T) = [i \in 1 .. n |-> pick(i)]
    BY DEF Ordered
  <2> HIDE DEF pick, n
  <2>2. Ordered(T) \in [1 .. n -> T]
    <3>1. \A i \in 1 .. n : pick(i) \in T
      BY <1>8, <2>1
    <3> QED BY <2>1, <3>1
  <2> QED BY <1>1, <2>2
<1>11. ToSet(Ordered(T)) = T
  BY <1>2, <1>7, <1>8, <1>9 DEF ToSet
<1>12. \A i, j \in DOMAIN Ordered(T) : Ordered(T)[i] = Ordered(T)[j] => i = j
  BY <1>7, <1>8
<1> QED BY <1>10, <1>11, <1>12

\* Where each entry of the first n lists stands in the list w of them.
Stands(at, w, ss, n) ==
    /\ at \in [DOMAIN w -> Nat \X Nat]
    /\ \A p \in DOMAIN w : /\ at[p][1] \in 1 .. n /\ at[p][2] \in DOMAIN ss[at[p][1]]
                           /\ w[p] = ss[at[p][1]][at[p][2]]
    /\ \A i \in 1 .. n : \A k \in DOMAIN ss[i] : \E p \in DOMAIN w : at[p] = <<i, k>>
    /\ \A p, q \in DOMAIN w : at[p] = at[q] => p = q

\* With one more list behind the others each entry still stands in one place.
LEMMA OneMoreStands ==
    ASSUME NEW X, NEW ss \in Seq(Seq(X)), NEW n \in Nat, n + 1 \in 1 .. Len(ss),
           NEW w \in Seq(X), NEW at, Stands(at, w, ss, n)
    PROVE  \E new : Stands(new, w \o ss[n + 1], ss, n + 1)
<1> DEFINE s == ss[n + 1]  v == w \o s
           new == [p \in DOMAIN v |-> IF p <= Len(w) THEN at[p] ELSE <<n + 1, p - Len(w)>>]
<1>1. /\ s \in Seq(X) /\ DOMAIN w = 1 .. Len(w) /\ DOMAIN s = 1 .. Len(s)
      /\ Len(w) \in Nat /\ Len(s) \in Nat
      /\ v \in Seq(X) /\ DOMAIN v = 1 .. Len(w) + Len(s)
      /\ \A p \in 1 .. Len(w) : v[p] = w[p]
      /\ \A p \in 1 .. Len(w) + Len(s) : p > Len(w) => v[p] = s[p - Len(w)] /\ p - Len(w) \in 1 .. Len(s)
  <2>1. s \in Seq(X)
    OBVIOUS
  <2> HIDE DEF s
  <2> QED BY <2>1
<1> HIDE DEF v
<1>2. ASSUME NEW p \in DOMAIN v
      PROVE  /\ new[p] \in Nat \X Nat /\ new[p][1] \in 1 .. n + 1 /\ new[p][2] \in DOMAIN ss[new[p][1]]
             /\ v[p] = ss[new[p][1]][new[p][2]]
             /\ p <= Len(w) => new[p] = at[p] /\ new[p][1] \in 1 .. n
             /\ p > Len(w) => new[p] = <<n + 1, p - Len(w)>>
  <2>1. CASE p <= Len(w)
    <3>1. p \in DOMAIN w /\ new[p] = at[p] /\ v[p] = w[p]
      BY <1>1, <2>1
    <3> HIDE DEF new
    <3>2. /\ at[p] \in Nat \X Nat /\ at[p][1] \in 1 .. n
          /\ at[p][2] \in DOMAIN ss[at[p][1]] /\ w[p] = ss[at[p][1]][at[p][2]]
      BY <3>1 DEF Stands
    <3>3. at[p][1] \in 1 .. n + 1
      BY <3>2
    <3>4. ~(p > Len(w))
      BY <1>1, <2>1
    <3> QED BY <3>1, <3>2, <3>3, <3>4
  <2>2. CASE p > Len(w)
    <3>1. new[p] = <<n + 1, p - Len(w)>> /\ v[p] = s[p - Len(w)] /\ p - Len(w) \in 1 .. Len(s)
      BY <1>1, <2>2, SMTT(30)
    <3> HIDE DEF new
    <3>2. new[p][1] = n + 1 /\ new[p][2] = p - Len(w)
      BY <3>1
    <3>3. n + 1 \in 1 .. n + 1 /\ p - Len(w) \in Nat /\ n + 1 \in Nat
      BY <1>1, <3>1
    <3>4. ~(p <= Len(w))
      BY <1>1, <2>2
    <3>5. p - Len(w) \in DOMAIN ss[n + 1] /\ v[p] = ss[n + 1][p - Len(w)]
      BY <1>1, <3>1 DEF s
    <3> QED BY <3>1, <3>2, <3>3, <3>4, <3>5
  <2>3. p <= Len(w) \/ p > Len(w)
    BY <1>1
  <2> HIDE DEF new
  <2> QED BY <2>1, <2>2, <2>3
<1>3. ASSUME NEW i \in 1 .. n + 1, NEW k \in DOMAIN ss[i] PROVE \E p \in DOMAIN v : new[p] = <<i, k>>
  <2>1. CASE i = n + 1
    <3>1. k \in DOMAIN s
      BY <2>1 DEF s
    <3>2. k + Len(w) \in DOMAIN v /\ k + Len(w) > Len(w) /\ k + Len(w) - Len(w) = k
      BY <1>1, <3>1, SMTT(30)
    <3>3. new[k + Len(w)] = <<n + 1, k>>
      <4> HIDE DEF new
      <4> QED BY <1>2, <3>2
    <3> HIDE DEF new
    <3> QED BY <2>1, <3>2, <3>3
  <2>2. CASE i # n + 1
    <3>1. i \in 1 .. n
      BY <2>2
    <3>2. PICK p \in DOMAIN w : at[p] = <<i, k>>
      BY <3>1 DEF Stands
    <3>3. p \in DOMAIN v /\ p <= Len(w)
      BY <1>1
    <3> QED BY <1>2, <3>2, <3>3
  <2> QED BY <2>1, <2>2
<1>4. ASSUME NEW p \in DOMAIN v, NEW q \in DOMAIN v, new[p] = new[q] PROVE p = q
  <2> HIDE DEF new
  <2>1. p \in Nat /\ q \in Nat /\ Len(w) \in Nat
    BY <1>1
  <2>2. CASE p <= Len(w) /\ q <= Len(w)
    <3>1. at[p] = at[q] /\ p \in DOMAIN w /\ q \in DOMAIN w
      BY <1>1, <1>2, <1>4, <2>2
    <3> QED BY <3>1 DEF Stands
  <2>3. CASE p > Len(w) /\ q > Len(w)
    <3>1. <<n + 1, p - Len(w)>> = <<n + 1, q - Len(w)>>
      BY <1>2, <1>4, <2>3
    <3> QED BY <2>1, <3>1
  <2>4. ASSUME NEW a \in DOMAIN v, NEW b \in DOMAIN v, a <= Len(w), b > Len(w), new[a] = new[b] PROVE FALSE
    <3>1. new[a][1] \in 1 .. n /\ new[b] = <<n + 1, b - Len(w)>>
      BY <1>2, <2>4
    <3>2. new[b][1] = n + 1
      BY <3>1
    <3> QED BY <2>4, <3>1, <3>2
  <2> QED BY <1>4, <2>1, <2>2, <2>3, <2>4
<1>5. new \in [DOMAIN v -> Nat \X Nat]
  BY <1>2
<1>6. Stands(new, v, ss, n + 1)
  <2> HIDE DEF new
  <2> QED BY <1>2, <1>3, <1>4, <1>5 DEF Stands
<1> QED BY <1>6 DEF v

\* FlattenSeq lists every entry of every list, each in one place.
LEMMA FlattenIs ==
    ASSUME NEW X, NEW ss \in Seq(Seq(X))
    PROVE  FlattenSeq(ss) \in Seq(X) /\ \E at : Stands(at, FlattenSeq(ss), ss, Len(ss))
<1> DEFINE n == Len(ss)  Y == Seq(X)
           step == [k \in 1 .. n |-> [w \in Y |-> w \o ss[k]]]
           next(f, k) == f[k - 1] \o ss[k]
           Recursive(f) == f = [k \in 1 .. n |-> IF k = 1 THEN ss[k] ELSE next(f, k)]
           f == CHOOSE g : Recursive(g)
<1>1. n \in Nat /\ << >> \in Y /\ \A k \in 1 .. n : ss[k] \in Y
  OBVIOUS
<1>2. CASE n = 0
  <2>1. FlattenSeq(ss) = ss /\ ss = << >>
    BY <1>2 DEF FlattenSeq
  <2>2. Stands(<< >>, << >>, ss, 0)
    BY DEF Stands
  <2> QED BY <1>2, <2>1, <2>2
<1>3. CASE n # 0
  <2>1. FlattenSeq(ss) = f[n]
    BY <1>3 DEF FlattenSeq
  <2>2. step \in [1 .. n -> [Y -> Y]]
    <3>1. \A k \in 1 .. n : \A w \in Y : w \o ss[k] \in Y
      BY <1>1
    <3> QED BY <3>1
  <2>3. \A k \in 1 .. n : \A w \in Y : step[k][w] = w \o ss[k]
    OBVIOUS
  <2> HIDE DEF step, n, Y
  <2>4. PICK g \in [0 .. n -> Y] : Records(g, n, << >>, step)
    BY <1>1, <2>2, StepsExist
  <2> DEFINE h == [k \in 1 .. n |-> g[k]]
  <2>5. Recursive(h)
    <3>1. \A k \in 1 .. n : h[k] = IF k = 1 THEN ss[k] ELSE next(h, k)
      <4> TAKE k \in 1 .. n
      <4>0. k - 1 \in 0 .. n /\ g[k - 1] \in Y /\ g[k] = step[k][g[k - 1]]
        BY <1>1, <2>4 DEF Records
      <4>1. g[k - 1] \in Y /\ h[k] = g[k - 1] \o ss[k]
        BY <2>3, <4>0
      <4>2. CASE k = 1
        <5>1. g[k - 1] = << >> /\ << >> \o ss[k] = ss[k]
          BY <1>1, <2>4, <4>2 DEF Records, Y
        <5> QED BY <4>1, <4>2, <5>1
      <4>3. CASE k # 1
        <5>1. k - 1 \in 1 .. n
          BY <1>1, <4>3
        <5> QED BY <4>1, <4>3, <5>1
      <4> QED BY <4>2, <4>3
    <3> QED BY <3>1
  <2>6. Recursive(f)
    BY <2>5
  <2> HIDE DEF f, h
  <2>7. \A k \in 1 .. n : f[k] = IF k = 1 THEN ss[k] ELSE next(f, k)
    BY <2>6
  <2> DEFINE Bad == {k \in 1 .. n : ~(f[k] \in Y /\ \E at : Stands(at, f[k], ss, k))}
  <2>8. Bad = {}
    <3> SUFFICES ASSUME Bad # {} PROVE FALSE
      OBVIOUS
    <3>1. PICK m \in Bad : \A k \in Bad : m <= k
      BY <1>1, LeastExists, Bad \in SUBSET Nat
    <3>2. \E w \in Y : /\ f[m] = w \o ss[m] /\ \E at : Stands(at, w, ss, m - 1)
      <4>1. CASE m = 1
        <5>1. f[m] = << >> \o ss[m]
          BY <1>1, <2>7, <4>1 DEF Y
        <5>2. Stands(<< >>, << >>, ss, 0)
          BY DEF Stands
        <5>3. m - 1 = 0
          BY <4>1
        <5> QED BY <1>1, <5>1, <5>2, <5>3
      <4>2. CASE m # 1
        <5>1. m - 1 \in 1 .. n /\ ~(m <= m - 1)
          BY <1>1, <4>2
        <5>2. f[m - 1] \in Y /\ \E at : Stands(at, f[m - 1], ss, m - 1)
          BY <3>1, <5>1
        <5> QED BY <2>7, <4>2, <5>2
      <4> QED BY <4>1, <4>2
    <3>w. PICK w \in Y : f[m] = w \o ss[m] /\ \E at : Stands(at, w, ss, m - 1)
      BY <3>2
    <3>3. PICK at : f[m] = w \o ss[m] /\ Stands(at, w, ss, m - 1)
      BY <3>w
    <3>4. m - 1 \in Nat /\ m - 1 + 1 = m /\ m \in 1 .. Len(ss)
      BY <1>1, <3>1 DEF n
    <3>5. \E new : Stands(new, w \o ss[m], ss, m)
      <4>1. \E new : Stands(new, w \o ss[m - 1 + 1], ss, m - 1 + 1)
        BY <3>3, <3>4, OneMoreStands DEF Y
      <4> QED BY <3>4, <4>1
    <3>6. f[m] \in Y
      BY <1>1, <3>3 DEF Y
    <3> QED BY <3>1, <3>3, <3>5, <3>6
  <2>9. n \in 1 .. n
    BY <1>1, <1>3
  <2> QED BY <2>1, <2>8, <2>9 DEF n, Y
<1> QED BY <1>2, <1>3

\* One entry more.
LEMMA AppendIs ==
    ASSUME NEW X, NEW q \in Seq(X), NEW x \in X
    PROVE  /\ Append(q, x) \in Seq(X) /\ ToSet(Append(q, x)) = ToSet(q) \cup {x}
           /\ DOMAIN Append(q, x) = 1 .. Len(q) + 1 /\ DOMAIN q = 1 .. Len(q) /\ Len(q) \in Nat
           /\ Append(q, x)[Len(q) + 1] = x /\ \A i \in DOMAIN q : Append(q, x)[i] = q[i]
           /\ IsInjective(q) /\ x \notin ToSet(q) => IsInjective(Append(q, x))
<1> DEFINE w == Append(q, x)  n == Len(q)
<1>1. /\ w \in Seq(X) /\ DOMAIN w = 1 .. n + 1 /\ DOMAIN q = 1 .. n /\ n \in Nat
      /\ w[n + 1] = x /\ \A i \in DOMAIN q : w[i] = q[i]
  OBVIOUS
<1>2. \A i \in DOMAIN w : (i \in DOMAIN q /\ w[i] = q[i]) \/ (i = n + 1 /\ w[i] = x)
  <2> HIDE DEF w, n
  <2> QED BY <1>1
<1>3. n + 1 \in DOMAIN w /\ n + 1 \notin DOMAIN q /\ DOMAIN q \subseteq DOMAIN w
  <2> HIDE DEF w, n
  <2> QED BY <1>1
<1> HIDE DEF w, n
<1>4. ToSet(w) = ToSet(q) \cup {x}
  BY <1>1, <1>2, <1>3 DEF ToSet
<1>5. ASSUME IsInjective(q), x \notin ToSet(q) PROVE IsInjective(w)
  <2>1. \A i \in DOMAIN q : q[i] # x
    BY <1>5 DEF ToSet
  <2> QED BY <1>2, <1>5, <2>1 DEF IsInjective
<1> QED BY <1>1, <1>4, <1>5 DEF w, n

-----------------------------------------------------------------------------
(* What is around an equipment.                                             *)

\* The other Terminals at a node: each is listed, and once.
LEMMA StubsAre ==
    ASSUME source \in Sources, NEW n, NEW e
    PROVE  /\ OtherStubs(n, e) \in Seq(Terminals(Equipment))
           /\ DOMAIN OtherStubs(n, e) = 1 .. Len(OtherStubs(n, e))
           /\ \A k \in DOMAIN OtherStubs(n, e) :
                 /\ OtherStubs(n, e)[k] \in Terminals(Equipment)
                 /\ NodeOf(OtherStubs(n, e)[k]) = n /\ OtherStubs(n, e)[k].eq # e
           /\ \A t \in Terminals(Equipment) : NodeOf(t) = n /\ t.eq # e =>
                 \E k \in DOMAIN OtherStubs(n, e) : OtherStubs(n, e)[k] = t
           /\ \A j, k \in DOMAIN OtherStubs(n, e) : OtherStubs(n, e)[j] = OtherStubs(n, e)[k] => j = k
<1> DEFINE T == {t \in TerminalsAt(n) : t.eq # e}
<1>1. T = {t \in Terminals(Equipment) : NodeOf(t) = n /\ t.eq # e}
  BY DEF TerminalsAt, Terminals
<1>2. T \in SUBSET Terminals(Equipment) /\ OtherStubs(n, e) = Ordered(T)
  BY <1>1 DEF OtherStubs
<1> HIDE DEF T
<1>3. /\ Ordered(T) \in Seq(T) /\ DOMAIN Ordered(T) = 1 .. Len(Ordered(T))
      /\ ToSet(Ordered(T)) = T
      /\ \A i, j \in DOMAIN Ordered(T) : Ordered(T)[i] = Ordered(T)[j] => i = j
  BY <1>2, OrderedLists
<1>4. \A k \in DOMAIN Ordered(T) : Ordered(T)[k] \in T
  BY <1>3 DEF ToSet
<1>5. \A t \in T : \E k \in DOMAIN Ordered(T) : Ordered(T)[k] = t
  BY <1>3 DEF ToSet
<1>6. Ordered(T) \in Seq(Terminals(Equipment))
  BY <1>2, <1>3
<1> QED BY <1>1, <1>2, <1>3, <1>4, <1>5, <1>6, ZenonT(30)

\* A Terminal of other equipment at the node is among them.
LEMMA StubFound ==
    ASSUME source \in Sources, NEW n, NEW e, NEW t \in Terminals(Equipment), NodeOf(t) = n, t.eq # e
    PROVE  \E k \in DOMAIN OtherStubs(n, e) : OtherStubs(n, e)[k] = t
<1> DEFINE T == {u \in TerminalsAt(n) : u.eq # e}
<1>1. T = {u \in Terminals(Equipment) : NodeOf(u) = n /\ u.eq # e}
  BY DEF TerminalsAt, Terminals
<1>2. T \in SUBSET Terminals(Equipment) /\ OtherStubs(n, e) = Ordered(T) /\ t \in T
  BY <1>1 DEF OtherStubs
<1> HIDE DEF T
<1>3. ToSet(Ordered(T)) = T
  BY <1>2, OrderedLists
<1> QED BY <1>2, <1>3 DEF ToSet

\* The i-th of the other nodes is on the side this Terminal names.
Side(t, i) == IF i < t.no THEN i ELSE i + 1
\* The other nodes of an equipment are those of its other Terminals, each once.
LEMMA SidesAre ==
    ASSUME source \in Sources, NEW t \in Terminals(Equipment)
    PROVE  /\ DOMAIN OtherNodes(t) = 1 .. Len(source.nodes[t.eq]) - 1
           /\ \A i \in DOMAIN OtherNodes(t) :
                 /\ Side(t, i) \in DOMAIN source.nodes[t.eq] /\ Side(t, i) # t.no
                 /\ OtherNodes(t)[i] = source.nodes[t.eq][Side(t, i)]
           /\ \A j \in DOMAIN source.nodes[t.eq] \ {t.no} : \E i \in DOMAIN OtherNodes(t) : Side(t, i) = j
           /\ \A i, j \in DOMAIN OtherNodes(t) : Side(t, i) = Side(t, j) => i = j
<1> DEFINE L == Len(source.nodes[t.eq])
<1>1. /\ t.eq \in Equipment /\ t.no \in Nat /\ t.no \in 1 .. L /\ L \in Nat
      /\ DOMAIN source.nodes[t.eq] = 1 .. L
  <2>1. t.eq \in Equipment /\ t.no \in DOMAIN source.nodes[t.eq]
    BY TerminalIs
  <2> QED BY <2>1, EquipmentIs
<1>2. DOMAIN OtherNodes(t) = 1 .. L - 1
  BY DEF OtherNodes
<1>3. \A i \in 1 .. L - 1 : OtherNodes(t)[i] = source.nodes[t.eq][Side(t, i)]
  BY DEF OtherNodes, Side
<1> HIDE DEF L
<1>4. \A i \in 1 .. L - 1 : Side(t, i) \in 1 .. L /\ Side(t, i) # t.no
  BY <1>1 DEF Side
<1>5. ASSUME NEW j \in (1 .. L) \ {t.no} PROVE \E i \in 1 .. L - 1 : Side(t, i) = j
  <2>1. CASE j < t.no
    BY <1>1, <2>1 DEF Side
  <2>2. CASE j > t.no
    <3>1. j - 1 \in 1 .. L - 1 /\ Side(t, j - 1) = j
      BY <1>1, <2>2 DEF Side
    <3> QED BY <3>1
  <2> QED BY <1>1, <2>1, <2>2
<1>6. \A i, j \in 1 .. L - 1 : Side(t, i) = Side(t, j) => i = j
  BY <1>1 DEF Side
<1> QED BY <1>1, <1>2, <1>3, <1>4, <1>5, <1>6 DEF L

\* An equipment's own Terminal at a node; without rings there is one only.
LEMMA OwnStubIs ==
    ASSUME source \in Sources, NEW e \in Equipment, NEW n \in NodesOf(e)
    PROVE  /\ OwnStubAt(e, n) \in Terminals(Equipment) /\ OwnStubAt(e, n).eq = e
           /\ NodeOf(OwnStubAt(e, n)) = n /\ OwnStubAt(e, n).no \in Nat /\ OwnStubAt(e, n).no # 0
           /\ RingFree /\ e \in Conducting =>
                 \A t \in Terminals(Equipment) : t.eq = e /\ NodeOf(t) = n => t = OwnStubAt(e, n)
<1> DEFINE I == {i \in DOMAIN source.nodes[e] : source.nodes[e][i] = n}
<1>1. DOMAIN source.nodes[e] = 1 .. Len(source.nodes[e]) /\ Len(source.nodes[e]) \in Nat
  BY EquipmentIs
<1>2. I \in SUBSET Nat /\ I # {}
  BY <1>1 DEF NodesOf, ToSet
<1>3. Min(I) \in I
  BY <1>2, MinIs
<1>4. OwnStubAt(e, n) = Terminal(e, Min(I))
  BY DEF OwnStubAt
<1>5. /\ OwnStubAt(e, n) \in Terminals(Equipment) /\ OwnStubAt(e, n).eq = e
      /\ NodeOf(OwnStubAt(e, n)) = n
  <2>1. Min(I) \in DOMAIN source.nodes[e] /\ source.nodes[e][Min(I)] = n
    BY <1>3
  <2> HIDE DEF I
  <2> QED BY <1>4, <2>1, TerminalIs
<1>6. OwnStubAt(e, n).no \in Nat /\ OwnStubAt(e, n).no > 0
  <2> HIDE DEF I
  <2> QED BY <1>5, TerminalIs
<1>7. ASSUME RingFree, e \in Conducting, NEW t \in Terminals(Equipment), t.eq = e, NodeOf(t) = n
      PROVE  t = OwnStubAt(e, n)
  <2> DEFINE u == OwnStubAt(e, n)
  <2>1. /\ t.no \in DOMAIN source.nodes[e] /\ u.no \in DOMAIN source.nodes[e]
        /\ t = Terminal(t.eq, t.no) /\ u = Terminal(u.eq, u.no)
    BY <1>5, <1>7, TerminalIs
  <2>2. source.nodes[e][t.no] = n /\ source.nodes[e][u.no] = n
    BY <1>5, <1>7 DEF NodeOf
  <2>3. n \in Nodes /\ Conducting \ {e} \in SUBSET Equipment
    BY EquipmentIs
  <2>4. n \in JoinedTo(n, Conducting \ {e})
    BY <2>3, JoinedIs
  <2>5. t.no = u.no
    BY <1>7, <2>1, <2>2, <2>4, Apart
  <2> QED BY <1>5, <1>7, <2>1, <2>5
<1> QED BY <1>5, <1>6, <1>7

-----------------------------------------------------------------------------
(* What a branch carries.                                                   *)

\* A branch or a connection from node s to node m carries the equipment between them:
\* its cables, each once and in their order, and its switches and joints.
Carries(segs, mids, s, m) ==
    /\ IsInjective(segs) /\ IsInjective(mids)
    /\ ToSet(segs) = {e \in OnWay(s, m) : Class(e) = "ACLineSegment"}
    /\ \A t \in ToSet(mids) : t.eq \in OnWay(s, m)
    /\ {t \in ToSet(mids) : t.no = 0} = {Whole(e) : e \in {f \in OnWay(s, m) : Named(f)}}
    /\ \A j, k \in DOMAIN segs :
          j < k => NodesOf(segs[k]) \cap JoinedTo(s, Conducting \ {segs[j]}) = {}

Cables == Seq(Equipment)
Marks == [eq : Equipment, no : Nat]
Middles == Seq(Marks)
Branches == [start : Terminals(BusbarSections), at : Terminals(Equipment), end : BOOLEAN,
             segs : Cables, mids : Middles]

\* A branch has not passed the equipment it is at; one that has ended has.
BranchSound(b) ==
    /\ b \in Branches
    /\ Carries(b.segs, b.mids, NodeOf(b.start), NodeOf(b.at))
    /\ IF b.end THEN /\ b.at.eq \in Conducting /\ b.at \in DeadEnds
                     /\ NodeOf(b.at) \in JoinedTo(NodeOf(b.start), Conducting)
       ELSE NodeOf(b.at) \in JoinedTo(NodeOf(b.start), Conducting \ {b.at.eq})

\* The cables after one more equipment is passed, and what is named.
MoreSegs(segs, e) == IF Class(e) = "ACLineSegment" THEN Append(segs, e) ELSE segs
MoreMids(new, mids, e) ==
    \/ new = mids /\ ~Named(e)
    \/ new = Append(mids, Whole(e)) /\ Named(e)
    \/ \E i \in Nat \ {0} : new = Append(mids, Terminal(e, i)) /\ ~Named(e)

\* A branch that passes one more equipment carries it too, as the last.
LEMMA CarriesMore ==
    ASSUME source \in Sources, RingFree, NEW s \in Nodes, NEW e \in Conducting,
           NEW m \in NodesOf(e), NEW n, e \notin OnWay(s, m), OnWay(s, n) = OnWay(s, m) \cup {e},
           NEW segs \in Cables, NEW mids \in Middles, Carries(segs, mids, s, m),
           NEW new, MoreMids(new, mids, e)
    PROVE  /\ Carries(MoreSegs(segs, e), new, s, n)
           /\ MoreSegs(segs, e) \in Cables /\ new \in Middles
<1>1. /\ e \in Equipment /\ OnWay(s, m) \subseteq Conducting
      /\ \A f \in Conducting : Conducting \ {f} \in SUBSET Equipment
  BY EquipmentIs DEF OnWay
<1>2. /\ MoreSegs(segs, e) \in Cables /\ IsInjective(MoreSegs(segs, e))
      /\ ToSet(MoreSegs(segs, e)) = {f \in OnWay(s, n) : Class(f) = "ACLineSegment"}
      /\ \A j, k \in DOMAIN MoreSegs(segs, e) :
            j < k => NodesOf(MoreSegs(segs, e)[k]) \cap JoinedTo(s, Conducting \ {MoreSegs(segs, e)[j]}) = {}
  <2>0. /\ IsInjective(segs) /\ ToSet(segs) = {f \in OnWay(s, m) : Class(f) = "ACLineSegment"}
        /\ \A j, k \in DOMAIN segs :
              j < k => NodesOf(segs[k]) \cap JoinedTo(s, Conducting \ {segs[j]}) = {}
    BY DEF Carries
  <2>1. CASE Class(e) # "ACLineSegment"
    <3>1. MoreSegs(segs, e) = segs
      BY <2>1 DEF MoreSegs
    <3>2. {f \in OnWay(s, n) : Class(f) = "ACLineSegment"} = {f \in OnWay(s, m) : Class(f) = "ACLineSegment"}
      BY <2>1
    <3> QED BY <2>0, <3>1, <3>2
  <2>2. CASE Class(e) = "ACLineSegment"
    <3> DEFINE w == Append(segs, e)  l == Len(segs)
    <3>1. MoreSegs(segs, e) = w
      BY <2>2 DEF MoreSegs
    <3>2. e \notin ToSet(segs)
      BY <2>0
    <3>3. /\ w \in Seq(Equipment) /\ ToSet(w) = ToSet(segs) \cup {e} /\ IsInjective(w)
          /\ DOMAIN w = 1 .. l + 1 /\ DOMAIN segs = 1 .. l /\ l \in Nat
          /\ w[l + 1] = e /\ \A i \in DOMAIN segs : w[i] = segs[i]
      BY <1>1, <2>0, <3>2, AppendIs DEF Cables
    <3> HIDE DEF w, l
    <3>4. ToSet(w) = {f \in OnWay(s, n) : Class(f) = "ACLineSegment"}
      BY <2>0, <2>2, <3>3
    <3>5. ASSUME NEW f \in ToSet(segs) PROVE NodesOf(e) \cap JoinedTo(s, Conducting \ {f}) = {}
      <4>1. f \in Conducting /\ m \notin JoinedTo(s, Conducting \ {f}) /\ e \in Conducting \ {f}
        BY <2>0, <3>2 DEF OnWay
      <4>2. \A x, y \in NodesOf(e) : x \in JoinedTo(s, Conducting \ {f}) => y \in JoinedTo(s, Conducting \ {f})
        BY <1>1, <4>1, JoinedIs
      <4> QED BY <4>1, <4>2
    <3>6. ASSUME NEW j \in DOMAIN w, NEW k \in DOMAIN w, j < k
          PROVE  NodesOf(w[k]) \cap JoinedTo(s, Conducting \ {w[j]}) = {}
      <4>1. j \in DOMAIN segs /\ w[j] = segs[j] /\ (k = l + 1 \/ k \in DOMAIN segs)
        BY <3>3, <3>6
      <4>2. CASE k = l + 1
        <5>1. segs[j] \in ToSet(segs)
          BY <4>1 DEF ToSet
        <5> QED BY <3>3, <3>5, <4>1, <4>2, <5>1
      <4>3. CASE k \in DOMAIN segs
        BY <2>0, <3>3, <3>6, <4>1, <4>3
      <4> QED BY <4>1, <4>2, <4>3
    <3> QED BY <3>1, <3>3, <3>4, <3>6 DEF Cables
  <2> QED BY <2>1, <2>2
<1>3. /\ new \in Middles /\ IsInjective(new) /\ \A t \in ToSet(new) : t.eq \in OnWay(s, n)
      /\ {t \in ToSet(new) : t.no = 0} = {Whole(f) : f \in {g \in OnWay(s, n) : Named(g)}}
  <2>0. /\ IsInjective(mids) /\ \A t \in ToSet(mids) : t.eq \in OnWay(s, m)
        /\ {t \in ToSet(mids) : t.no = 0} = {Whole(f) : f \in {g \in OnWay(s, m) : Named(g)}}
    BY DEF Carries
  <2>1. CASE new = mids /\ ~Named(e)
    <3>1. {g \in OnWay(s, n) : Named(g)} = {g \in OnWay(s, m) : Named(g)}
      BY <2>1
    <3> QED BY <2>0, <2>1, <3>1
  <2>2. ASSUME NEW x \in Marks, x.eq = e, new = Append(mids, x)
        PROVE  new \in Middles /\ IsInjective(new) /\ ToSet(new) = ToSet(mids) \cup {x}
               /\ \A t \in ToSet(new) : t.eq \in OnWay(s, n)
    <3>1. x \notin ToSet(mids)
      BY <2>0, <2>2
    <3>2. new \in Middles /\ IsInjective(new) /\ ToSet(new) = ToSet(mids) \cup {x}
      BY <2>0, <2>2, <3>1, AppendIs DEF Middles
    <3> QED BY <2>0, <2>2, <3>2
  <2>3. CASE new = Append(mids, Whole(e)) /\ Named(e)
    <3>1. Whole(e) \in Marks /\ Whole(e).eq = e /\ Whole(e).no = 0
      BY <1>1 DEF Whole, Terminal, Marks
    <3>2. {g \in OnWay(s, n) : Named(g)} = {g \in OnWay(s, m) : Named(g)} \cup {e}
      BY <2>3
    <3>3. {t \in ToSet(new) : t.no = 0} = {t \in ToSet(mids) : t.no = 0} \cup {Whole(e)}
      BY <2>2, <2>3, <3>1
    <3>4. {Whole(f) : f \in {g \in OnWay(s, n) : Named(g)}} = {Whole(f) : f \in {g \in OnWay(s, m) : Named(g)}} \cup {Whole(e)}
      BY <3>2
    <3> QED BY <2>0, <2>2, <2>3, <3>1, <3>3, <3>4
  <2>4. CASE \E i \in Nat \ {0} : new = Append(mids, Terminal(e, i)) /\ ~Named(e)
    <3>1. PICK i \in Nat \ {0} : new = Append(mids, Terminal(e, i)) /\ ~Named(e)
      BY <2>4
    <3>2. Terminal(e, i) \in Marks /\ Terminal(e, i).eq = e /\ Terminal(e, i).no # 0
      BY <1>1 DEF Terminal, Marks
    <3>3. {g \in OnWay(s, n) : Named(g)} = {g \in OnWay(s, m) : Named(g)}
      BY <3>1
    <3>4. {t \in ToSet(new) : t.no = 0} = {t \in ToSet(mids) : t.no = 0}
      BY <2>2, <3>1, <3>2
    <3> QED BY <2>0, <2>2, <3>1, <3>2, <3>3, <3>4
  <2> QED BY <2>1, <2>3, <2>4 DEF MoreMids
<1> QED BY <1>2, <1>3 DEF Carries

-----------------------------------------------------------------------------
(* One pass: the branches an equipment's other nodes give.                  *)

\* c is a branch that b becomes where its equipment ends in n.
Follows(c, b, n) ==
    LET e == b.at.eq
    IN  /\ c \in Branches /\ c.start = b.start /\ c.segs = MoreSegs(b.segs, e)
        /\ NodeOf(c.at) = n /\ MoreMids(c.mids, b.mids, e)
        /\ IF c.end THEN c.at.eq = e ELSE c.at.eq # e

\* To pass an equipment changes the cables and what is named, and nothing else.
LEMMA PassedIs ==
    ASSUME source \in Sources, NEW b \in Branches, b.at.eq \in Equipment
    PROVE  LET e == b.at.eq
               p == Passed(b)
           IN  /\ p \in Branches /\ p.start = b.start /\ p.at = b.at /\ p.end = b.end
               /\ p.segs = MoreSegs(b.segs, e)
               /\ p.mids = IF Named(e) THEN Append(b.mids, Whole(e)) ELSE b.mids
<1> DEFINE e == b.at.eq  p == Passed(b)  segs == MoreSegs(b.segs, e)
           mids == IF Named(e) THEN Append(b.mids, Whole(e)) ELSE b.mids
<1>1. segs \in Cables /\ mids \in Middles
  <2>1. Whole(e) \in Marks
    BY DEF Whole, Terminal, Marks
  <2>2. b.segs \in Cables /\ b.mids \in Middles
    BY DEF Branches
  <2>3. segs \in Cables
    BY <2>2, AppendIs DEF MoreSegs, Cables
  <2> HIDE DEF e
  <2> QED BY <2>1, <2>2, <2>3, AppendIs DEF Middles
<1>2. p = [b EXCEPT !.segs = segs, !.mids = mids]
  BY DEF Passed, MoreSegs
<1> HIDE DEF e, segs, mids, p
<1>3. p \in Branches
  BY <1>1, <1>2 DEF Branches
<1>4. p.start = b.start /\ p.at = b.at /\ p.end = b.end /\ p.segs = segs /\ p.mids = mids
  BY <1>2 DEF Branches
<1> QED BY <1>3, <1>4 DEF e, segs, mids, p

\* At one of the other nodes: an end, or a branch for each other Terminal.
LEMMA OnwardIs ==
    ASSUME source \in Sources, NEW b \in Branches, ~b.end, b.at.eq \in Conducting,
           NEW n \in NodesOf(b.at.eq)
    PROVE  LET e == b.at.eq
               w == Onward(Passed(b), n)
               further == OtherStubs(n, e)
           IN  /\ w \in Seq(Branches) /\ \A k \in DOMAIN w : Follows(w[k], b, n)
               /\ IF further = << >> THEN Len(w) = 1 /\ w[1].end /\ w[1].at = OwnStubAt(e, n)
                  ELSE /\ DOMAIN w = DOMAIN further
                       /\ \A k \in DOMAIN w : w[k].at = further[k] /\ ~w[k].end
               /\ \A k \in DOMAIN w : ToSet(w[k].mids) \subseteq ToSet(b.mids)
                     \cup (IF Named(e) THEN {Whole(e)} ELSE {})
                     \cup (IF ~w[k].end /\ Tap(b, w[k].at, further) THEN {OwnStubAt(e, n)} ELSE {})
<1> DEFINE e == b.at.eq  p == Passed(b)  w == Onward(p, n)  further == OtherStubs(n, e)
           far == OwnStubAt(e, n)
           mids == IF Named(e) THEN Append(b.mids, Whole(e)) ELSE b.mids
           midsTo(t) == IF Tap(b, t, further) THEN Append(mids, far) ELSE mids
           into(t) == [p EXCEPT !.at = t, !.mids = IF Tap(p, t, further) THEN Append(@, far) ELSE @]
           stop == [p EXCEPT !.at = far, !.end = TRUE]
<1>1. /\ e \in Equipment /\ b.start \in Terminals(BusbarSections) /\ b.at \in Terminals(Equipment)
      /\ b.segs \in Seq(Equipment) /\ b.mids \in Middles /\ b.end = FALSE
  <2>1. b.end = FALSE
    BY DEF Branches
  <2> QED BY <2>1, EquipmentIs DEF Branches, Cables
<1>2. /\ p \in Branches /\ p.start = b.start /\ p.at = b.at /\ p.end = FALSE
      /\ p.segs = MoreSegs(b.segs, e) /\ p.mids = mids
  BY <1>1, PassedIs
<1>3. /\ MoreSegs(b.segs, e) \in Cables
      /\ far \in Terminals(Equipment) /\ far.eq = e /\ NodeOf(far) = n /\ far.no \in Nat /\ far.no # 0
      /\ far = Terminal(e, far.no)
  <2>1. MoreSegs(b.segs, e) \in Cables
    BY <1>1 DEF MoreSegs, Cables
  <2>2. /\ far \in Terminals(Equipment) /\ far.eq = e /\ NodeOf(far) = n /\ far.no \in Nat /\ far.no # 0
    BY <1>1, OwnStubIs
  <2> QED BY <2>1, <2>2, TerminalIs
<1>4. far \in Marks /\ Whole(e) \in Marks
  <2>1. far = Terminal(e, far.no) /\ far.no \in Nat
    BY <1>3
  <2> HIDE DEF far, e
  <2> QED BY <1>1, <2>1 DEF Whole, Terminal, Marks
<1> HIDE DEF far, e, p, w, further
<1>5. mids \in Middles /\ MoreMids(mids, b.mids, e)
      /\ ToSet(mids) \subseteq ToSet(b.mids) \cup (IF Named(e) THEN {Whole(e)} ELSE {})
  <2>1. CASE Named(e)
    <3>1. Append(b.mids, Whole(e)) \in Middles
          /\ ToSet(Append(b.mids, Whole(e))) = ToSet(b.mids) \cup {Whole(e)}
      BY <1>1, <1>4, AppendIs DEF Middles
    <3> QED BY <2>1, <3>1 DEF MoreMids
  <2>2. CASE ~Named(e)
    BY <1>1, <2>2 DEF MoreMids
  <2> QED BY <2>1, <2>2
<1>6. ASSUME NEW t
      PROVE  /\ midsTo(t) \in Middles /\ MoreMids(midsTo(t), b.mids, e)
             /\ ToSet(midsTo(t)) \subseteq ToSet(b.mids) \cup (IF Named(e) THEN {Whole(e)} ELSE {})
                                              \cup (IF Tap(b, t, further) THEN {far} ELSE {})
  <2>1. CASE Tap(b, t, further)
    <3>1. ~Named(e) /\ mids = b.mids /\ midsTo(t) = Append(b.mids, far)
      BY <2>1 DEF Tap, e
    <3>2. Append(b.mids, far) \in Middles /\ ToSet(Append(b.mids, far)) = ToSet(b.mids) \cup {far}
      BY <1>1, <1>4, AppendIs DEF Middles
    <3>3. MoreMids(Append(b.mids, far), b.mids, e)
      BY <1>3, <3>1 DEF MoreMids
    <3> QED BY <2>1, <3>1, <3>2, <3>3
  <2>2. CASE ~Tap(b, t, further)
    BY <1>5, <2>2
  <2> QED BY <2>1, <2>2
<1> HIDE DEF mids, midsTo
<1>7. w = IF further = << >> THEN <<stop>> ELSE [i \in DOMAIN further |-> into(further[i])]
  <2>1. p.at.eq = e
    BY <1>2 DEF e
  <2> HIDE DEF stop, into
  <2> QED BY <2>1 DEF Onward, w, far, further, stop, into
<1>8. /\ stop \in Branches /\ Follows(stop, b, n) /\ stop.end /\ stop.at = far /\ stop.mids = mids
  <2>1. stop \in Branches
    BY <1>2, <1>3 DEF Branches
  <2>2. stop.start = p.start /\ stop.at = far /\ stop.end = TRUE /\ stop.segs = p.segs /\ stop.mids = p.mids
    BY <1>2 DEF Branches
  <2> HIDE DEF stop
  <2> QED BY <1>2, <1>3, <1>5, <2>1, <2>2 DEF Follows, e
<1>9. ASSUME NEW k \in DOMAIN further
      PROVE  /\ into(further[k]) \in Branches /\ Follows(into(further[k]), b, n)
             /\ into(further[k]).at = further[k] /\ ~into(further[k]).end
             /\ into(further[k]).mids = midsTo(further[k])
  <2> DEFINE t == further[k]  c == into(t)
  <2>1. t \in Terminals(Equipment) /\ NodeOf(t) = n /\ t.eq # e
    BY StubsAre DEF further
  <2> HIDE DEF t
  <2>2. c = [p EXCEPT !.at = t, !.mids = midsTo(t)]
    <3>1. Tap(p, t, further) <=> Tap(b, t, further)
      BY <1>2 DEF Tap
    <3> QED BY <1>2, <3>1 DEF midsTo
  <2> HIDE DEF into
  <2>3. midsTo(t) \in Middles
    BY <1>6
  <2>4. c \in Branches
    BY <1>2, <2>1, <2>2, <2>3 DEF Branches
  <2>5. c.start = p.start /\ c.at = t /\ c.end = p.end /\ c.segs = p.segs /\ c.mids = midsTo(t)
    BY <1>2, <2>2 DEF Branches
  <2> QED BY <1>2, <1>6, <2>1, <2>4, <2>5 DEF Follows, e, t
<1> HIDE DEF stop, into
<1>10. CASE further = << >>
  <2>1. w = <<stop>> /\ DOMAIN w = {1} /\ w[1] = stop /\ Len(w) = 1
    BY <1>7, <1>10
  <2> QED BY <1>5, <1>8, <1>10, <2>1 DEF w, p, e, far, further
<1>11. CASE further # << >>
  <2>1. w = [i \in DOMAIN further |-> into(further[i])]
    BY <1>7, <1>11
  <2>2. DOMAIN further = 1 .. Len(further) /\ Len(further) \in Nat
    BY StubsAre DEF further
  <2>3. w \in Seq(Branches) /\ DOMAIN w = DOMAIN further /\ \A k \in DOMAIN w : w[k] = into(further[k])
    BY <1>9, <2>1, <2>2
  <2> QED BY <1>6, <1>9, <1>11, <2>3 DEF w, p, e, far, further
<1> QED BY <1>10, <1>11

\* The branches after one pass, in the order of the call.
After(b) == FlattenSeq([i \in DOMAIN OtherNodes(b.at) |-> Onward(Passed(b), OtherNodes(b.at)[i])])

\* Each of them is found in the list of one of the other nodes.
LEMMA AfterIs ==
    ASSUME source \in Sources, NEW b \in Branches, ~b.end, b.at.eq \in Conducting
    PROVE  LET N == OtherNodes(b.at)
               ss == [i \in DOMAIN N |-> Onward(Passed(b), N[i])]
           IN  /\ After(b) \in Seq(Branches) /\ \E at : Stands(at, After(b), ss, Len(ss))
               /\ DOMAIN N = 1 .. Len(ss) /\ DOMAIN After(b) = 1 .. Len(After(b)) /\ Len(After(b)) \in Nat
               /\ \A i \in DOMAIN N : N[i] \in NodesOf(b.at.eq) /\ ss[i] = Onward(Passed(b), N[i])
<1> DEFINE N == OtherNodes(b.at)
           ss == [i \in DOMAIN N |-> Onward(Passed(b), N[i])]
<1>1. b.at \in Terminals(Equipment) /\ b.at.eq \in Equipment
  <2>1. b.at \in Terminals(Equipment)
    BY DEF Branches
  <2> QED BY <2>1, TerminalIs
<1>2. Len(source.nodes[b.at.eq]) - 1 \in Int
  BY <1>1, EquipmentIs
<1>3. DOMAIN N = 1 .. Len(source.nodes[b.at.eq]) - 1 /\ \A i \in DOMAIN N : N[i] \in NodesOf(b.at.eq)
  BY <1>1, SidesAre DEF NodesOf, ToSet
<1>4. \A i \in DOMAIN N : Onward(Passed(b), N[i]) \in Seq(Branches)
  BY <1>3, OnwardIs
<1> HIDE DEF N
<1>5. ss \in Seq(Seq(Branches)) /\ DOMAIN N = 1 .. Len(ss)
  <2>1. 1 .. Len(source.nodes[b.at.eq]) - 1 \in {1 .. k : k \in Nat}
    <3>1. CASE Len(source.nodes[b.at.eq]) - 1 \in Nat
      BY <3>1
    <3>2. CASE Len(source.nodes[b.at.eq]) - 1 \notin Nat
      <4>1. 1 .. Len(source.nodes[b.at.eq]) - 1 = 1 .. 0
        BY <1>2, <3>2
      <4> QED BY <4>1
    <3> QED BY <3>1, <3>2
  <2>2. PICK k \in Nat : DOMAIN N = 1 .. k
    BY <1>3, <2>1
  <2>3. ss \in [1 .. k -> Seq(Branches)]
    BY <1>4, <2>2
  <2>4. ss \in Seq(Seq(Branches)) /\ Len(ss) = k
    BY <2>2, <2>3
  <2> QED BY <2>2, <2>4
<1>6. After(b) = FlattenSeq(ss)
  BY DEF After, N
<1>7. \A i \in DOMAIN N : ss[i] = Onward(Passed(b), N[i])
  OBVIOUS
<1> HIDE DEF ss
<1>8. After(b) \in Seq(Branches) /\ \E at : Stands(at, After(b), ss, Len(ss))
  BY <1>5, <1>6, FlattenIs
<1>9. DOMAIN After(b) = 1 .. Len(After(b)) /\ Len(After(b)) \in Nat
  BY <1>8
<1>10. \A i \in DOMAIN N : N[i] \in NodesOf(b.at.eq) /\ ss[i] = Onward(Passed(b), N[i])
  BY <1>3, <1>7
<1> QED BY <1>5, <1>8, <1>9, <1>10 DEF ss, N

\* Where nothing is beyond the other node of an equipment, its Terminal there is a dead end.
LEMMA NothingBeyond ==
    ASSUME source \in Sources, NEW e \in Conducting, NEW n \in NodesOf(e), OtherStubs(n, e) = << >>,
           NEW i \in DOMAIN source.nodes[e], NEW j \in DOMAIN source.nodes[e], i # j
    PROVE  OwnStubAt(e, n) \in DeadEnds
<1> DEFINE t == OwnStubAt(e, n)
<1>1. e \in Equipment /\ Conducting \in SUBSET Equipment
  BY EquipmentIs
<1>2. t \in Terminals(Equipment) /\ t.eq = e /\ NodeOf(t) = n
  BY <1>1, OwnStubIs
<1> HIDE DEF t
<1>3. t \in Terminals(Conducting)
  BY <1>2 DEF Terminals, OwnTerminals, Terminal
<1>4. Len(source.nodes[e]) > 1
  <2>1. DOMAIN source.nodes[e] = 1 .. Len(source.nodes[e]) /\ Len(source.nodes[e]) \in Nat
    BY <1>1, EquipmentIs
  <2> QED BY <2>1
<1>5. ASSUME NEW u \in TerminalsAt(n) PROVE u.eq = e
  <2>1. u \in Terminals(Equipment) /\ NodeOf(u) = n
    BY DEF TerminalsAt, Terminals
  <2>2. SUFFICES ASSUME u.eq # e PROVE FALSE
    OBVIOUS
  <2>3. \E k \in DOMAIN OtherStubs(n, e) : OtherStubs(n, e)[k] = u
    BY <2>1, <2>2, StubFound
  <2> QED BY <2>3
<1> QED BY <1>2, <1>3, <1>4, <1>5 DEF DeadEnds, t

\* Every branch after a pass is sound.
LEMMA AfterSound ==
    ASSUME source \in Sources, RingFree, NEW b, BranchSound(b), ~b.end, b.at.eq \in Conducting
    PROVE  LET e == b.at.eq
           IN  /\ After(b) \in Seq(Branches)
               /\ \A p \in DOMAIN After(b) :
                     LET c == After(b)[p]
                         further == OtherStubs(NodeOf(c.at), e)
                     IN  /\ BranchSound(c) /\ c.start = b.start
                         /\ ToSet(c.mids) \subseteq ToSet(b.mids)
                               \cup (IF Named(e) THEN {Whole(e)} ELSE {})
                               \cup (IF ~c.end /\ Tap(b, c.at, further) THEN {OwnStubAt(e, NodeOf(c.at))} ELSE {})
<1> DEFINE e == b.at.eq  N == OtherNodes(b.at)
           ss == [i \in DOMAIN N |-> Onward(Passed(b), N[i])]
           s == NodeOf(b.start)  m == NodeOf(b.at)
<1>1. /\ b \in Branches /\ Carries(b.segs, b.mids, s, m) /\ m \in JoinedTo(s, Conducting \ {e})
      /\ b.at \in Terminals(Equipment) /\ b.start \in Terminals(BusbarSections)
      /\ b.segs \in Cables /\ b.mids \in Middles
  BY DEF BranchSound, Branches
<1>2. /\ s \in Nodes /\ m \in NodesOf(e) /\ b.at.no \in DOMAIN source.nodes[e]
      /\ m = source.nodes[e][b.at.no]
  <2>1. BusbarSections \in SUBSET Equipment
    BY EquipmentIs
  <2>2. s \in Nodes
    BY <1>1, <2>1, TerminalIs
  <2>3. m \in NodesOf(e) /\ b.at.no \in DOMAIN source.nodes[e]
    BY <1>1, TerminalIs
  <2> QED BY <2>2, <2>3 DEF NodeOf
<1>3. After(b) \in Seq(Branches) /\ DOMAIN N = 1 .. Len(ss)
      /\ \A i \in DOMAIN N : N[i] \in NodesOf(e) /\ ss[i] = Onward(Passed(b), N[i])
  BY <1>1, AfterIs
<1>4. PICK at : Stands(at, After(b), ss, Len(ss))
  BY <1>1, AfterIs
<1> HIDE DEF ss
<1>5. ASSUME NEW p \in DOMAIN After(b)
      PROVE  LET c == After(b)[p]
                 further == OtherStubs(NodeOf(c.at), e)
             IN  /\ BranchSound(c) /\ c.start = b.start
                 /\ ToSet(c.mids) \subseteq ToSet(b.mids)
                       \cup (IF Named(e) THEN {Whole(e)} ELSE {})
                       \cup (IF ~c.end /\ Tap(b, c.at, further) THEN {OwnStubAt(e, NodeOf(c.at))} ELSE {})
  <2> DEFINE c == After(b)[p]
  <2>1. PICK i \in DOMAIN N : \E k \in DOMAIN ss[i] : c = ss[i][k]
    BY <1>3, <1>4 DEF Stands
  <2> DEFINE n == N[i]  w == Onward(Passed(b), n)
  <2>2. PICK k \in DOMAIN w : c = w[k]
    BY <1>3, <2>1
  <2>3. n \in NodesOf(e)
    BY <1>3
  <2> HIDE DEF n
  <2>4. /\ Follows(c, b, n)
        /\ ToSet(c.mids) \subseteq ToSet(b.mids)
              \cup (IF Named(e) THEN {Whole(e)} ELSE {})
              \cup (IF ~c.end /\ Tap(b, c.at, OtherStubs(n, e)) THEN {OwnStubAt(e, n)} ELSE {})
        /\ c.end => c.at = OwnStubAt(e, n) /\ OtherStubs(n, e) = << >>
    <3>1. \A l \in DOMAIN w :
             /\ Follows(w[l], b, n)
             /\ w[l].end => w[l].at = OwnStubAt(e, n) /\ OtherStubs(n, e) = << >>
             /\ ToSet(w[l].mids) \subseteq ToSet(b.mids)
                   \cup (IF Named(e) THEN {Whole(e)} ELSE {})
                   \cup (IF ~w[l].end /\ Tap(b, w[l].at, OtherStubs(n, e)) THEN {OwnStubAt(e, n)} ELSE {})
      <4>1. IF OtherStubs(n, e) = << >> THEN Len(w) = 1 /\ w[1].at = OwnStubAt(e, n)
            ELSE \A l \in DOMAIN w : ~w[l].end
        BY <1>1, <2>3, OnwardIs
      <4>2. w \in Seq(Branches) /\ (Len(w) = 1 => \A l \in DOMAIN w : l = 1)
        BY <1>1, <2>3, OnwardIs
      <4>3. \A l \in DOMAIN w : w[l].end => w[l].at = OwnStubAt(e, n) /\ OtherStubs(n, e) = << >>
        <5> HIDE DEF w, n, e
        <5> QED BY <4>1, <4>2
      <4>4. \A l \in DOMAIN w :
               /\ Follows(w[l], b, n)
               /\ ToSet(w[l].mids) \subseteq ToSet(b.mids)
                     \cup (IF Named(e) THEN {Whole(e)} ELSE {})
                     \cup (IF ~w[l].end /\ Tap(b, w[l].at, OtherStubs(n, e)) THEN {OwnStubAt(e, n)} ELSE {})
        BY <1>1, <2>3, OnwardIs
      <4> HIDE DEF w, n, e
      <4> QED BY <4>3, <4>4
    <3> HIDE DEF w, c
    <3> QED BY <2>2, <3>1
  <2> HIDE DEF c, w
  <2>5. /\ c \in Branches /\ c.start = b.start /\ c.segs = MoreSegs(b.segs, e) /\ NodeOf(c.at) = n
        /\ MoreMids(c.mids, b.mids, e) /\ IF c.end THEN c.at.eq = e ELSE c.at.eq # e
    BY <2>4 DEF Follows
  <2>6. /\ Side(b.at, i) \in DOMAIN source.nodes[e] /\ Side(b.at, i) # b.at.no
        /\ n = source.nodes[e][Side(b.at, i)]
    BY <1>1, SidesAre DEF n
  <2>7. /\ e \notin OnWay(s, m) /\ OnWay(s, n) = OnWay(s, m) \cup {e}
        /\ n \in JoinedTo(s, Conducting)
    <3>1. e \in Conducting /\ source.nodes[e][b.at.no] \in JoinedTo(s, Conducting \ {e})
      BY <1>1, <1>2
    <3> HIDE DEF e, s, m
    <3> QED BY <1>2, <2>6, <3>1, PassAdds
  <2>8. Carries(c.segs, c.mids, s, n)
    <3> HIDE DEF e, s, m
    <3>1. e \in Conducting
      BY DEF e
    <3> QED BY <1>1, <1>2, <2>5, <2>7, <3>1, CarriesMore
  <2>9. ~c.end => n \in JoinedTo(s, Conducting \ {c.at.eq})
    <3>1. SUFFICES ASSUME ~c.end PROVE n \in JoinedTo(s, Conducting \ {c.at.eq})
      OBVIOUS
    <3>2. c.at \in Terminals(Equipment) /\ c.at.eq # e
      BY <2>5, <3>1 DEF Branches
    <3>3. n \in NodesOf(c.at.eq)
      BY <2>5, <3>2, TerminalIs
    <3>4. CASE c.at.eq \in Conducting
      <4>1. NodesOf(e) \subseteq JoinedTo(s, Conducting \ {c.at.eq})
        BY <1>1, <1>2, <2>6, <3>2, <3>3, <3>4, FurtherOn
      <4> QED BY <2>3, <4>1
    <3>5. CASE c.at.eq \notin Conducting
      <4>1. Conducting \ {c.at.eq} = Conducting
        BY <3>5
      <4> QED BY <2>7, <4>1
    <3> QED BY <3>4, <3>5
  <2>10. c.end => c.at \in DeadEnds
    <3>1. SUFFICES ASSUME c.end PROVE c.at \in DeadEnds
      OBVIOUS
    <3>2. c.at = OwnStubAt(e, n) /\ OtherStubs(n, e) = << >> /\ e \in Conducting
      BY <2>4, <3>1
    <3>3. PICK x, y \in DOMAIN source.nodes[e] : x # y
      BY <1>2, <2>6
    <3>4. OwnStubAt(e, n) \in DeadEnds
      <4> HIDE DEF e
      <4> QED BY <2>3, <3>2, <3>3, NothingBeyond
    <3> QED BY <3>2, <3>4
  <2>11. BranchSound(c)
    BY <2>5, <2>7, <2>8, <2>9, <2>10 DEF BranchSound
  <2> QED BY <2>4, <2>5, <2>11 DEF c
<1> QED BY <1>3, <1>5

-----------------------------------------------------------------------------
(* Which ends a branch finds.                                               *)

\* The ends a branch will find: where it is, or all beyond what it is about to pass.
AtEnd(b) == b.end \/ Stops(b.at.eq)
Leads(b, t) == IF AtEnd(b) THEN t = b.at
               ELSE /\ NodeOf(t) \in JoinedTo(NodeOf(b.start), Conducting)
                    /\ NodeOf(t) \notin JoinedTo(NodeOf(b.start), Conducting \ {b.at.eq})
WalkEnds == StopTerminals \cup DeadEnds

\* An end stops the walk, or nothing else is at its node.
LEMMA EndIs ==
    ASSUME source \in Sources, NEW t \in WalkEnds
    PROVE  /\ t \in Terminals(Equipment) /\ t.eq \in Equipment /\ NodeOf(t) \in Nodes
           /\ t.eq \in Conducting => \A u \in Terminals(Equipment) : NodeOf(u) = NodeOf(t) => u.eq = t.eq
           /\ t.eq \notin Conducting => Stops(t.eq)
<1>1. Conducting \in SUBSET Equipment /\ Equipment \ Conducting \in SUBSET Equipment
  BY EquipmentIs
<1>2. CASE t \in StopTerminals
  <2>1. t \in Terminals(Equipment \ Conducting)
    BY <1>2 DEF StopTerminals
  <2>2. t.eq \in Equipment \ Conducting /\ t \in Terminals(Equipment)
    <3>1. t.eq \in Equipment \ Conducting
      BY <1>1, <2>1, TerminalIs
    <3>2. t \in Terminals(Equipment)
      BY <2>1 DEF Terminals
    <3> QED BY <3>1, <3>2
  <2> QED BY <2>2, TerminalIs DEF Conducting
<1>3. CASE t \in DeadEnds
  <2>1. t \in Terminals(Conducting) /\ \A u \in TerminalsAt(NodeOf(t)) : u.eq = t.eq
    BY <1>3 DEF DeadEnds
  <2>2. t.eq \in Conducting /\ t \in Terminals(Equipment)
    <3>1. t.eq \in Conducting
      BY <1>1, <2>1, TerminalIs
    <3>2. t \in Terminals(Equipment)
      BY <1>1, <2>1 DEF Terminals
    <3> QED BY <3>1, <3>2
  <2>3. \A u \in Terminals(Equipment) : NodeOf(u) = NodeOf(t) => u \in TerminalsAt(NodeOf(t))
    BY DEF TerminalsAt, Terminals
  <2> QED BY <1>1, <2>1, <2>2, <2>3, TerminalIs
<1> QED BY <1>2, <1>3 DEF WalkEnds

\* What is beyond an equipment is at one of its other nodes or beyond one further equipment.
Further(e, i) == {f \in Conducting \ {e} : \E j \in DOMAIN source.nodes[e] \ {i} : source.nodes[e][j] \in NodesOf(f)}
\* What is beyond an equipment is at one of its nodes, or beyond one equipment further on.
LEMMA PassFan ==
    ASSUME source \in Sources, RingFree, NEW s \in Nodes, NEW e \in Conducting,
           NEW i \in DOMAIN source.nodes[e], source.nodes[e][i] \in JoinedTo(s, Conducting \ {e})
    PROVE  /\ Divides(s, JoinedTo(s, Conducting \ {e}) \cup NodesOf(e), Further(e, i))
           /\ \A f \in Further(e, i) :
                 /\ JoinedTo(s, Conducting \ {e}) \subseteq JoinedTo(s, Conducting \ {f})
                 /\ NodesOf(e) \subseteq JoinedTo(s, Conducting \ {f})
<1> DEFINE A == JoinedTo(s, Conducting \ {e})  K == A \cup NodesOf(e)  F == Further(e, i)
<1>1. /\ Conducting \in SUBSET Equipment /\ Conducting \ {e} \in SUBSET Conducting
      /\ Conducting \ {e} \in SUBSET Equipment
  BY EquipmentIs
<1>2. /\ A \subseteq Nodes /\ s \in A
      /\ \A g \in Conducting \ {e} : \A x, y \in NodesOf(g) : x \in A => y \in A
  BY <1>1, JoinedIs
<1>3. \A f \in F : A \subseteq JoinedTo(s, Conducting \ {f}) /\ NodesOf(e) \subseteq JoinedTo(s, Conducting \ {f})
  <2> TAKE f \in F
  <2>1. PICK j \in DOMAIN source.nodes[e] \ {i} : source.nodes[e][j] \in NodesOf(f)
    BY DEF Further
  <2>2. f \in Conducting \ {e} /\ i # j /\ j \in DOMAIN source.nodes[e]
    BY <2>1 DEF Further
  <2> QED BY <2>1, <2>2, FurtherOn
<1>4. K \in SUBSET JoinedTo(s, Conducting) /\ s \in K
  <2>1. A \subseteq JoinedTo(s, Conducting)
    BY <1>1, JoinedGrows
  <2>2. source.nodes[e][i] \in NodesOf(e)
    BY DEF NodesOf, ToSet
  <2>3. NodesOf(e) \subseteq JoinedTo(s, Conducting)
    BY <1>1, <2>1, <2>2, JoinedIs
  <2> QED BY <1>2, <2>1, <2>3
<1> HIDE DEF A
<1>5. \A f \in Conducting \ F : NodesOf(f) \cap K = {} \/ NodesOf(f) \subseteq K
  <2> TAKE f \in Conducting \ F
  <2>1. CASE f = e
    BY <2>1
  <2>2. CASE f # e
    <3>1. SUFFICES ASSUME NEW x \in NodesOf(f), x \in K PROVE NodesOf(f) \subseteq K
      OBVIOUS
    <3>2. x \in A
      <4>1. SUFFICES ASSUME x \in NodesOf(e) PROVE x \in A
        BY <3>1
      <4>2. PICK j \in DOMAIN source.nodes[e] : source.nodes[e][j] = x
        BY <4>1 DEF NodesOf, ToSet
      <4>3. j = i
        BY <2>2, <3>1, <4>2 DEF Further
      <4> QED BY <4>2, <4>3 DEF A
    <3> QED BY <1>2, <2>2, <3>2
  <2> QED BY <2>1, <2>2
<1>6. \A f \in F : NodesOf(f) \cap K # {} /\ K \subseteq JoinedTo(s, Conducting \ {f})
  <2> TAKE f \in F
  <2>1. PICK j \in DOMAIN source.nodes[e] \ {i} : source.nodes[e][j] \in NodesOf(f)
    BY DEF Further
  <2>2. source.nodes[e][j] \in NodesOf(e)
    BY DEF NodesOf, ToSet
  <2> QED BY <1>3, <2>1, <2>2
<1>7. F \subseteq Conducting
  BY DEF Further
<1> HIDE DEF K, F
<1>8. LeadOn(s, K, F)
  BY <1>4, <1>5, <1>6, <1>7 DEF LeadOn
<1>9. Divides(s, K, F)
  BY <1>8, Fan
<1> QED BY <1>3, <1>9 DEF A, K, F

\* A pass divides the ends a branch finds among the branches it becomes.
LEMMA AfterLeads ==
    ASSUME source \in Sources, RingFree, NEW b, BranchSound(b), ~b.end, b.at.eq \in Conducting,
           NEW t \in WalkEnds
    PROVE  /\ Leads(b, t) <=> \E p \in DOMAIN After(b) : Leads(After(b)[p], t)
           /\ \A p, q \in DOMAIN After(b) : Leads(After(b)[p], t) /\ Leads(After(b)[q], t) => p = q
<1> DEFINE e == b.at.eq  N == OtherNodes(b.at)  a == b.at.no
           ss == [i \in DOMAIN N |-> Onward(Passed(b), N[i])]
           s == NodeOf(b.start)  x == NodeOf(t)
           J == JoinedTo(s, Conducting)  B(f) == JoinedTo(s, Conducting \ {f})
           F == Further(e, a)
           next == After(b)
<1>1. /\ b \in Branches /\ NodeOf(b.at) \in B(e)
      /\ b.at \in Terminals(Equipment) /\ b.start \in Terminals(BusbarSections) /\ e \in Conducting
  BY DEF BranchSound, Branches
<1>2. /\ s \in Nodes /\ NodeOf(b.at) \in NodesOf(e) /\ a \in DOMAIN source.nodes[e]
      /\ NodeOf(b.at) = source.nodes[e][a]
      /\ Conducting \in SUBSET Equipment /\ e \in Equipment /\ x \in Nodes
      /\ \A f \in Conducting : Conducting \ {f} \in SUBSET Equipment
  <2>1. BusbarSections \in SUBSET Equipment /\ Conducting \in SUBSET Equipment
        /\ \A f \in Conducting : Conducting \ {f} \in SUBSET Equipment
    BY EquipmentIs
  <2>2. s \in Nodes
    BY <1>1, <2>1, TerminalIs
  <2>3. NodeOf(b.at) \in NodesOf(e) /\ a \in DOMAIN source.nodes[e]
    BY <1>1, TerminalIs
  <2>4. x \in Nodes
    BY EndIs
  <2> QED BY <1>1, <2>1, <2>2, <2>3, <2>4 DEF NodeOf
<1>3. /\ DOMAIN N = 1 .. Len(ss) /\ \A i \in DOMAIN N : N[i] \in NodesOf(e) /\ ss[i] = Onward(Passed(b), N[i])
  BY <1>1, AfterIs
<1>4. PICK at : Stands(at, next, ss, Len(ss))
  BY <1>1, AfterIs
<1> HIDE DEF ss
<1> DEFINE I(p) == at[p][1]  L(p) == at[p][2]
<1>5. /\ \A p \in DOMAIN next : /\ I(p) \in DOMAIN N /\ L(p) \in DOMAIN ss[I(p)]
                                /\ next[p] = ss[I(p)][L(p)]
      /\ \A i \in DOMAIN N : \A k \in DOMAIN ss[i] : \E p \in DOMAIN next : I(p) = i /\ L(p) = k
      /\ \A p, q \in DOMAIN next : I(p) = I(q) /\ L(p) = L(q) => p = q
  <2>1. at \in [DOMAIN next -> Nat \X Nat]
    BY <1>4 DEF Stands
  <2>2. \A p, q \in DOMAIN next : I(p) = I(q) /\ L(p) = L(q) => at[p] = at[q]
    BY <2>1
  <2>3. \A i \in DOMAIN N : \A k \in DOMAIN ss[i] : \E p \in DOMAIN next : I(p) = i /\ L(p) = k
    <3> TAKE i \in DOMAIN N
    <3> TAKE k \in DOMAIN ss[i]
    <3>1. PICK p \in DOMAIN next : at[p] = <<i, k>>
      BY <1>3, <1>4 DEF Stands
    <3> QED BY <3>1
  <2> QED BY <1>3, <1>4, <2>2, <2>3 DEF Stands
<1> HIDE DEF I, L
<1>6. /\ \A i \in DOMAIN N : /\ Side(b.at, i) \in DOMAIN source.nodes[e] /\ Side(b.at, i) # a
                             /\ N[i] = source.nodes[e][Side(b.at, i)]
      /\ \A j \in DOMAIN source.nodes[e] \ {a} : \E i \in DOMAIN N : Side(b.at, i) = j
      /\ \A i, j \in DOMAIN N : Side(b.at, i) = Side(b.at, j) => i = j
  BY <1>1, SidesAre
<1>7. /\ \A i \in DOMAIN N : N[i] \in J /\ N[i] \notin B(e)
      /\ \A i, j \in DOMAIN N : N[i] = N[j] => i = j
  <2>1. \A i \in DOMAIN N : N[i] \in J /\ N[i] \notin B(e)
    <3> TAKE i \in DOMAIN N
    <3> HIDE DEF e, s, a
    <3>1. source.nodes[e][a] \in JoinedTo(s, Conducting \ {e})
      BY <1>1, <1>2
    <3> QED BY <1>1, <1>2, <1>6, <3>1, PassAdds
  <2>2. ASSUME NEW i \in DOMAIN N, NEW j \in DOMAIN N, N[i] = N[j] PROVE i = j
    <3>1. N[i] \in Nodes
      BY <1>2, <1>3, EquipmentIs
    <3>2. N[i] \in JoinedTo(N[i], Conducting \ {e})
      BY <1>1, <1>2, <3>1, JoinedIs
    <3>3. Side(b.at, i) = Side(b.at, j)
      BY <1>1, <1>6, <2>2, <3>2, Apart
    <3> QED BY <1>6, <3>3
  <2> QED BY <2>1, <2>2
<1>8. /\ \A y \in J : y \in B(e) \/ y \in NodesOf(e) \/ \E f \in F : y \notin B(f)
      /\ \A y \in J : \A f, g \in F : y \notin B(f) /\ y \notin B(g) => f = g
      /\ \A f \in F : B(e) \subseteq B(f) /\ NodesOf(e) \subseteq B(f)
      /\ F \subseteq Conducting \ {e}
  <2>1. source.nodes[e][a] \in JoinedTo(s, Conducting \ {e})
    BY <1>1, <1>2
  <2> HIDE DEF e, s, a
  <2>2. Divides(s, JoinedTo(s, Conducting \ {e}) \cup NodesOf(e), Further(e, a))
    BY <1>1, <1>2, <2>1, PassFan
  <2>3. \A f \in Further(e, a) : /\ JoinedTo(s, Conducting \ {e}) \subseteq JoinedTo(s, Conducting \ {f})
                                 /\ NodesOf(e) \subseteq JoinedTo(s, Conducting \ {f})
    BY <1>1, <1>2, <2>1, PassFan
  <2>4. F \subseteq Conducting \ {e}
    BY DEF Further
  <2> QED BY <2>2, <2>3, <2>4 DEF Divides
<1> DEFINE stubs(i) == OtherStubs(N[i], e)
<1>9. \A i \in DOMAIN N :
         /\ \A k \in DOMAIN ss[i] : Follows(ss[i][k], b, N[i])
         /\ IF stubs(i) = << >> THEN Len(ss[i]) = 1 /\ DOMAIN ss[i] = {1} /\ ss[i][1].end /\ ss[i][1].at = OwnStubAt(e, N[i])
            ELSE DOMAIN ss[i] = DOMAIN stubs(i) /\ \A k \in DOMAIN ss[i] : ss[i][k].at = stubs(i)[k] /\ ~ss[i][k].end
  <2> TAKE i \in DOMAIN N
  <2>1. N[i] \in NodesOf(e) /\ ss[i] = Onward(Passed(b), N[i])
    BY <1>3
  <2> DEFINE n == N[i]  w == Onward(Passed(b), n)
  <2>2. /\ w \in Seq(Branches) /\ \A k \in DOMAIN w : Follows(w[k], b, n)
        /\ IF OtherStubs(n, e) = << >> THEN Len(w) = 1 /\ w[1].end /\ w[1].at = OwnStubAt(e, n)
           ELSE /\ DOMAIN w = DOMAIN OtherStubs(n, e)
                /\ \A k \in DOMAIN w : w[k].at = OtherStubs(n, e)[k] /\ ~w[k].end
    <3> HIDE DEF n
    <3>1. n \in NodesOf(b.at.eq)
      BY <2>1 DEF n
    <3> QED BY <1>1, <3>1, OnwardIs
  <2>3. Len(w) = 1 => DOMAIN w = {1}
    BY <2>2
  <2> HIDE DEF w
  <2> QED BY <2>1, <2>2, <2>3 DEF w
<1> DEFINE Lead(c) == Leads(c, t)
<1>10. ASSUME NEW p \in DOMAIN next
       PROVE  /\ next[p].start = b.start /\ next[p] \in Branches /\ next[p].at \in Terminals(Equipment)
              /\ NodeOf(next[p].at) = N[I(p)]
              /\ next[p].end \/ Stops(next[p].at.eq) \/ next[p].at.eq \in F
              /\ next[p].at.eq \in F => next[p].at.eq # e /\ ~AtEnd(next[p]) /\ stubs(I(p)) # << >>
  <2> DEFINE c == next[p]
  <2>1. Follows(c, b, N[I(p)]) /\ I(p) \in DOMAIN N
    BY <1>5, <1>9
  <2> HIDE DEF c
  <2>2. /\ c \in Branches /\ c.start = b.start /\ NodeOf(c.at) = N[I(p)] /\ c.end \in BOOLEAN
        /\ c.at \in Terminals(Equipment)
        /\ IF c.end THEN c.at.eq = e ELSE c.at.eq # e
    BY <2>1 DEF Follows, Branches
  <2>3. c.at.eq \in Equipment /\ NodeOf(c.at) \in NodesOf(c.at.eq)
    BY <2>2, TerminalIs
  <2>4. ~c.end /\ ~Stops(c.at.eq) => c.at.eq \in F
    <3>1. SUFFICES ASSUME ~c.end, ~Stops(c.at.eq) PROVE c.at.eq \in F
      OBVIOUS
    <3>2. c.at.eq \in Conducting \ {e}
      BY <2>2, <2>3, <3>1 DEF Conducting
    <3>3. Side(b.at, I(p)) \in DOMAIN source.nodes[e] \ {a} /\ source.nodes[e][Side(b.at, I(p))] \in NodesOf(c.at.eq)
      BY <1>6, <2>1, <2>2, <2>3
    <3> QED BY <3>2, <3>3 DEF Further
  <2>5. c.at.eq \in F => c.at.eq # e /\ ~AtEnd(c) /\ stubs(I(p)) # << >>
    <3>1. SUFFICES ASSUME c.at.eq \in F PROVE c.at.eq # e /\ ~AtEnd(c) /\ stubs(I(p)) # << >>
      OBVIOUS
    <3>2. c.at.eq # e /\ c.at.eq \in Conducting /\ ~c.end
      BY <1>8, <2>2, <3>1
    <3>3. ~AtEnd(c)
      BY <3>2 DEF AtEnd, Conducting
    <3>4. stubs(I(p)) # << >>
      <4>1. SUFFICES ASSUME stubs(I(p)) = << >> PROVE FALSE
        OBVIOUS
      <4>2. L(p) = 1 /\ ss[I(p)][1].end
        BY <1>5, <1>9, <2>1, <4>1
      <4> QED BY <1>5, <3>2, <4>2 DEF c
    <3> QED BY <3>2, <3>3, <3>4
  <2> QED BY <2>2, <2>4, <2>5 DEF c
<1>11. ASSUME NEW p \in DOMAIN next, Lead(next[p])
       PROVE  IF next[p].at.eq \in F THEN x \in J /\ x \notin B(next[p].at.eq)
              ELSE x = N[I(p)] /\ t = next[p].at
  <2>1. CASE next[p].at.eq \in F
    BY <1>10, <1>11, <2>1 DEF Leads
  <2>2. CASE next[p].at.eq \notin F
    <3>1. AtEnd(next[p])
      BY <1>10, <2>2 DEF AtEnd
    <3> QED BY <1>10, <1>11, <2>2, <3>1 DEF Leads
  <2> QED BY <2>1, <2>2
<1>12. Lead(b) <=> x \in J /\ x \notin B(e)
  <2>1. ~AtEnd(b)
    BY <1>1 DEF AtEnd, Conducting
  <2> QED BY <2>1 DEF Leads
<1>13. ASSUME NEW p \in DOMAIN next, Lead(next[p]) PROVE Lead(b)
  <2>1. x \in J /\ x \notin B(e)
    <3>1. CASE next[p].at.eq \in F
      BY <1>8, <1>11, <1>13, <3>1
    <3>2. CASE next[p].at.eq \notin F
      <4>1. x = N[I(p)] /\ I(p) \in DOMAIN N
        BY <1>5, <1>11, <1>13, <3>2
      <4> QED BY <1>7, <4>1
    <3> QED BY <3>1, <3>2
  <2> QED BY <1>12, <2>1
<1>14. ASSUME Lead(b) PROVE \E p \in DOMAIN next : Lead(next[p])
  <2>1. x \in J /\ x \notin B(e)
    BY <1>12, <1>14
  <2>2. CASE x \in NodesOf(e)
    <3>1. PICK j \in DOMAIN source.nodes[e] : source.nodes[e][j] = x
      BY <2>2 DEF NodesOf, ToSet
    <3>2. j # a
      BY <1>1, <1>2, <2>1, <3>1
    <3>3. PICK i \in DOMAIN N : N[i] = x
      BY <1>6, <3>1, <3>2
    <3>4. t \in Terminals(Equipment) /\ NodeOf(t) = N[i]
      BY <3>3, EndIs
    <3>5. CASE t.eq = e
      <4>1. \A u \in Terminals(Equipment) : NodeOf(u) = x => u.eq = e
        BY <1>1, <3>5, EndIs
      <4>2. stubs(i) = << >>
        <5>1. DOMAIN stubs(i) = {}
          BY <3>3, <4>1, StubsAre
        <5>2. stubs(i) \in Seq(Terminals(Equipment))
          BY StubsAre
        <5> HIDE DEF stubs
        <5> QED BY <5>1, <5>2
      <4>3. 1 \in DOMAIN ss[i] /\ ss[i][1].end /\ ss[i][1].at = OwnStubAt(e, N[i])
        BY <1>9, <4>2
      <4>4. t = OwnStubAt(e, N[i])
        BY <1>1, <1>2, <1>3, <3>4, <3>5, OwnStubIs
      <4>5. PICK p \in DOMAIN next : I(p) = i /\ L(p) = 1
        BY <1>5, <4>3
      <4>6. next[p].end /\ next[p].at = t
        BY <1>5, <4>3, <4>4, <4>5
      <4> QED BY <4>6 DEF Leads, AtEnd
    <3>6. CASE t.eq # e
      <4>1. PICK k \in DOMAIN stubs(i) : stubs(i)[k] = t
        <5> DEFINE n == N[i]
        <5>1. t \in Terminals(Equipment) /\ NodeOf(t) = n /\ t.eq # e
          BY <3>4, <3>6
        <5> HIDE DEF n, e
        <5>2. \E k \in DOMAIN OtherStubs(n, e) : OtherStubs(n, e)[k] = t
          BY <5>1, StubFound
        <5> QED BY <5>2 DEF n, e
      <4>2. stubs(i) # << >>
        BY <4>1
      <4>3. k \in DOMAIN ss[i] /\ ss[i][k].at = t
        BY <1>9, <4>1, <4>2
      <4>4. Stops(t.eq)
        <5>1. /\ OwnStubAt(e, x) \in Terminals(Equipment) /\ OwnStubAt(e, x).eq = e
              /\ NodeOf(OwnStubAt(e, x)) = x
          BY <1>2, <2>2, OwnStubIs
        <5> QED BY <3>6, <5>1, EndIs
      <4>5. PICK p \in DOMAIN next : I(p) = i /\ L(p) = k
        BY <1>5, <4>3
      <4>6. next[p].at = t
        BY <1>5, <4>3, <4>5
      <4> QED BY <4>4, <4>6 DEF Leads, AtEnd
    <3> QED BY <3>5, <3>6
  <2>3. CASE \E f \in F : x \notin B(f)
    <3>1. PICK f \in F : x \notin B(f)
      BY <2>3
    <3>2. PICK j \in DOMAIN source.nodes[e] \ {a} : source.nodes[e][j] \in NodesOf(f)
      BY <3>1 DEF Further
    <3>3. PICK i \in DOMAIN N : N[i] \in NodesOf(f)
      BY <1>6, <3>2
    <3>4. PICK l \in DOMAIN source.nodes[f] : source.nodes[f][l] = N[i]
      BY <3>3 DEF NodesOf, ToSet
    <3>5. /\ Terminal(f, l) \in Terminals(Equipment) /\ NodeOf(Terminal(f, l)) = N[i]
          /\ Terminal(f, l).eq = f /\ f # e /\ f \in Conducting
      <4>1. f \in Equipment /\ f # e /\ f \in Conducting
        BY <1>2, <1>8, <3>1
      <4> QED BY <3>4, <4>1, TerminalIs
    <3>6. PICK k \in DOMAIN stubs(i) : stubs(i)[k] = Terminal(f, l)
      <4> DEFINE n == N[i]  u == Terminal(f, l)
      <4>1. u \in Terminals(Equipment) /\ NodeOf(u) = n /\ u.eq # e
        BY <3>5
      <4> HIDE DEF n, e, u
      <4>2. \E k \in DOMAIN OtherStubs(n, e) : OtherStubs(n, e)[k] = u
        BY <4>1, StubFound
      <4> QED BY <4>2 DEF n, e, u
    <3>7. stubs(i) # << >>
      BY <3>6
    <3>8. k \in DOMAIN ss[i] /\ ss[i][k].at = Terminal(f, l)
      BY <1>9, <3>6, <3>7
    <3>9. PICK p \in DOMAIN next : I(p) = i /\ L(p) = k
      BY <1>5, <3>8
    <3>10. next[p].at.eq = f
      BY <1>5, <3>5, <3>8, <3>9
    <3>11. ~AtEnd(next[p]) /\ next[p].start = b.start
      BY <1>10, <3>1, <3>10
    <3> QED BY <2>1, <3>1, <3>10, <3>11 DEF Leads
  <2> QED BY <1>8, <2>1, <2>2, <2>3
<1>15. ASSUME NEW p \in DOMAIN next, NEW q \in DOMAIN next, Lead(next[p]), Lead(next[q]) PROVE p = q
  <2>1. I(p) \in DOMAIN N /\ I(q) \in DOMAIN N /\ L(p) \in DOMAIN ss[I(p)] /\ L(q) \in DOMAIN ss[I(q)]
    BY <1>5
  <2>2. ASSUME NEW i \in DOMAIN N, I(p) = i, I(q) = i, next[p].at = next[q].at PROVE p = q
    <3>1. CASE stubs(i) = << >>
      <4>1. L(p) = 1 /\ L(q) = 1
        BY <1>9, <2>1, <2>2, <3>1
      <4> QED BY <1>5, <2>2, <4>1
    <3>2. CASE stubs(i) # << >>
      <4>1. L(p) \in DOMAIN stubs(i) /\ L(q) \in DOMAIN stubs(i) /\ stubs(i)[L(p)] = stubs(i)[L(q)]
        BY <1>5, <1>9, <2>1, <2>2, <3>2
      <4>2. L(p) = L(q)
        BY <4>1, StubsAre
      <4> QED BY <1>5, <2>2, <4>2
    <3> QED BY <3>1, <3>2
  <2>3. CASE next[p].at.eq \notin F /\ next[q].at.eq \notin F
    <3>1. N[I(p)] = N[I(q)] /\ next[p].at = next[q].at
      BY <1>11, <1>15, <2>3
    <3> QED BY <1>7, <2>1, <2>2, <3>1
  <2>4. CASE ~(next[p].at.eq \in F <=> next[q].at.eq \in F)
    <3>1. \A f \in F : x \in NodesOf(e) => x \in B(f)
      BY <1>8
    <3>2. x \in NodesOf(e)
      BY <1>3, <1>11, <1>15, <2>1, <2>4
    <3> QED BY <1>11, <1>15, <2>4, <3>1, <3>2
  <2>5. CASE next[p].at.eq \in F /\ next[q].at.eq \in F
    <3> DEFINE g == next[p].at.eq
    <3>1. g = next[q].at.eq
      BY <1>8, <1>11, <1>15, <2>5
    <3>2. /\ next[p].at \in Terminals(Equipment) /\ next[q].at \in Terminals(Equipment)
          /\ NodeOf(next[p].at) = N[I(p)] /\ NodeOf(next[q].at) = N[I(q)]
      BY <1>10
    <3>3. g \in Conducting /\ N[I(p)] \in NodesOf(g) /\ N[I(q)] \in NodesOf(g)
      BY <1>8, <2>5, <3>1, <3>2, TerminalIs
    <3>4. N[I(p)] \in B(g) /\ N[I(q)] \in B(g)
      BY <1>3, <1>8, <2>1, <2>5
    <3>5. N[I(p)] = N[I(q)]
      <4>1. PICK i \in DOMAIN source.nodes[g], j \in DOMAIN source.nodes[g] :
               source.nodes[g][i] = N[I(p)] /\ source.nodes[g][j] = N[I(q)]
        BY <3>3 DEF NodesOf, ToSet
      <4>2. N[I(q)] \in JoinedTo(N[I(p)], Conducting \ {g})
        <5>1. JoinedTo(N[I(p)], Conducting \ {g}) = B(g)
          BY <1>2, <3>3, <3>4, JoinedIsMutual
        <5> QED BY <3>4, <5>1
      <4>3. i = j
        BY <3>3, <4>1, <4>2, Apart
      <4> QED BY <4>1, <4>3
    <3>6. I(p) = I(q)
      BY <1>7, <2>1, <3>5
    <3>7. next[p].at = next[q].at
      <4>1. g \in Equipment
        BY <1>2, <3>3
      <4> QED BY <3>1, <3>2, <3>3, <3>5, <4>1, OwnStubIs
    <3> QED BY <2>1, <2>2, <3>6, <3>7
  <2> QED BY <2>3, <2>4, <2>5
<1> QED BY <1>13, <1>14, <1>15


-----------------------------------------------------------------------------
(* The start at a busbar.                                                   *)

\* The branches a busbar's Terminals give, in the order of the call.
Wired(b) == {t \in OwnTerminals(b) : OtherStubs(NodeOf(t), b) # << >>}
FirstAt(b, t) == [i \in DOMAIN OtherStubs(NodeOf(t), b) |-> Branch(t, OtherStubs(NodeOf(t), b)[i], << >>, << >>)]
First(b) == FlattenSeq([i \in DOMAIN Ordered(Wired(b)) |-> FirstAt(b, Ordered(Wired(b))[i])])

\* c starts at a Terminal of the busbar and is at another Terminal of the same node.
IsFirst(c, b) == /\ c.start \in Wired(b) /\ c.at \in Terminals(Equipment)
                 /\ NodeOf(c.at) = NodeOf(c.start) /\ c.at.eq # b
                 /\ c.end = FALSE /\ c.segs = << >> /\ c.mids = << >>
AllStarted(w, b) == \A s \in OwnTerminals(b), t \in Terminals(Equipment) :
                       NodeOf(t) = NodeOf(s) /\ t.eq # b => \E p \in DOMAIN w : w[p].start = s /\ w[p].at = t
StartedOnce(w) == \A p, q \in DOMAIN w : w[p].start = w[q].start /\ w[p].at = w[q].at => p = q

\* There is one for each Terminal and each other Terminal at its node.
LEMMA FirstIs ==
    ASSUME source \in Sources, NEW b \in BusbarSections
    PROVE  /\ ToSet(Ordered(Wired(b))) = Wired(b) /\ First(b) \in Seq(Branches)
           /\ DOMAIN First(b) = 1 .. Len(First(b))
           /\ \A p \in DOMAIN First(b) : IsFirst(First(b)[p], b)
           /\ AllStarted(First(b), b) /\ StartedOnce(First(b))
<1> DEFINE W == Wired(b)  O == Ordered(W)  ss == [i \in DOMAIN O |-> FirstAt(b, O[i])]
           F == First(b)
<1>1. /\ b \in Equipment /\ BusbarSections \in SUBSET Equipment
      /\ OwnTerminals(b) \subseteq Terminals(BusbarSections) /\ W \in SUBSET Terminals(BusbarSections)
      /\ Terminals(BusbarSections) \subseteq Terminals(Equipment)
  <2>1. BusbarSections \in SUBSET Equipment
    BY EquipmentIs
  <2> QED BY <2>1 DEF Wired, Terminals
<1>2. /\ O \in Seq(W) /\ DOMAIN O = 1 .. Len(O) /\ ToSet(O) = W
      /\ \A i, j \in DOMAIN O : O[i] = O[j] => i = j
  <2>1. W \in SUBSET Terminals(Equipment)
    BY <1>1
  <2> HIDE DEF W
  <2> QED BY <2>1, OrderedLists
<1>3. \A i \in DOMAIN O : O[i] \in W /\ O[i] \in Terminals(BusbarSections)
  BY <1>1, <1>2 DEF ToSet
<1> HIDE DEF O, W
<1>4. ASSUME NEW t \in Terminals(BusbarSections)
      PROVE  /\ FirstAt(b, t) \in Seq(Branches) /\ DOMAIN FirstAt(b, t) = DOMAIN OtherStubs(NodeOf(t), b)
             /\ \A k \in DOMAIN FirstAt(b, t) :
                   LET c == FirstAt(b, t)[k]
                   IN  /\ c.start = t /\ c.at = OtherStubs(NodeOf(t), b)[k] /\ c.at \in Terminals(Equipment)
                       /\ NodeOf(c.at) = NodeOf(t) /\ c.at.eq # b
                       /\ c.end = FALSE /\ c.segs = << >> /\ c.mids = << >>
  <2> DEFINE n == NodeOf(t)  others == OtherStubs(n, b)
  <2>1. /\ DOMAIN others = 1 .. Len(others) /\ others \in Seq(Terminals(Equipment))
        /\ \A k \in DOMAIN others : others[k] \in Terminals(Equipment) /\ NodeOf(others[k]) = n /\ others[k].eq # b
    <3> HIDE DEF n
    <3> QED BY StubsAre
  <2>2. FirstAt(b, t) = [i \in DOMAIN others |-> Branch(t, others[i], << >>, << >>)]
    BY DEF FirstAt
  <2> HIDE DEF n, others
  <2>3. << >> \in Cables /\ << >> \in Middles
    BY DEF Cables, Middles
  <2>4. \A u \in Terminals(Equipment) : Branch(t, u, << >>, << >>) \in Branches
    BY <2>3 DEF Branch, Branches
  <2>5. \A u : LET c == Branch(t, u, << >>, << >>)
               IN  c.start = t /\ c.at = u /\ c.end = FALSE /\ c.segs = << >> /\ c.mids = << >>
    BY DEF Branch
  <2>6. Len(others) \in Nat
    BY <2>1
  <2>7. FirstAt(b, t) \in [1 .. Len(others) -> Branches]
    BY <2>1, <2>2, <2>4
  <2>8. FirstAt(b, t) \in Seq(Branches)
    BY <2>6, <2>7
  <2> QED BY <2>1, <2>2, <2>5, <2>8 DEF n, others
<1>5. ss \in Seq(Seq(Branches)) /\ DOMAIN O = 1 .. Len(ss) /\ \A i \in DOMAIN O : ss[i] = FirstAt(b, O[i])
  <2>1. \A i \in DOMAIN O : FirstAt(b, O[i]) \in Seq(Branches)
    BY <1>3, <1>4
  <2>2. Len(O) \in Nat
    BY <1>2
  <2>3. ss \in [1 .. Len(O) -> Seq(Branches)]
    BY <1>2, <2>1
  <2>4. ss \in Seq(Seq(Branches)) /\ Len(ss) = Len(O)
    BY <2>2, <2>3
  <2> QED BY <1>2, <2>4
<1>6. F = FlattenSeq(ss)
  BY DEF First, O, W
<1> HIDE DEF ss, F
<1>7. F \in Seq(Branches) /\ \E at : Stands(at, F, ss, Len(ss))
  BY <1>5, <1>6, FlattenIs
<1>8. PICK at : Stands(at, F, ss, Len(ss))
  BY <1>7
<1>9. ASSUME NEW p \in DOMAIN F
      PROVE  /\ at[p] \in Nat \X Nat /\ at[p][1] \in DOMAIN O
             /\ at[p][2] \in DOMAIN OtherStubs(NodeOf(O[at[p][1]]), b)
             /\ F[p].start = O[at[p][1]] /\ F[p].at = OtherStubs(NodeOf(O[at[p][1]]), b)[at[p][2]]
             /\ IsFirst(F[p], b)
  <2> DEFINE i == at[p][1]  k == at[p][2]  o == O[i]  c == FirstAt(b, o)[k]
  <2>1. at[p] \in Nat \X Nat /\ i \in DOMAIN O /\ k \in DOMAIN ss[i] /\ F[p] = ss[i][k]
    BY <1>5, <1>8 DEF Stands
  <2> HIDE DEF i, k
  <2>2. o \in W /\ o \in Terminals(BusbarSections) /\ ss[i] = FirstAt(b, o)
    BY <1>3, <1>5, <2>1
  <2> HIDE DEF o
  <2>3. k \in DOMAIN FirstAt(b, o) /\ F[p] = c
    BY <2>1, <2>2
  <2>4. /\ DOMAIN FirstAt(b, o) = DOMAIN OtherStubs(NodeOf(o), b)
        /\ c.start = o /\ c.at = OtherStubs(NodeOf(o), b)[k] /\ c.at \in Terminals(Equipment)
        /\ NodeOf(c.at) = NodeOf(o) /\ c.at.eq # b
        /\ c.end = FALSE /\ c.segs = << >> /\ c.mids = << >>
    BY <1>4, <2>2, <2>3
  <2>5. IsFirst(c, b)
    BY <2>2, <2>4 DEF IsFirst, W
  <2> HIDE DEF c
  <2> QED BY <2>1, <2>3, <2>4, <2>5 DEF i, k, o
<1>10. ASSUME NEW s \in OwnTerminals(b), NEW t \in Terminals(Equipment), NodeOf(t) = NodeOf(s), t.eq # b
       PROVE  \E p \in DOMAIN F : F[p].start = s /\ F[p].at = t
  <2>1. PICK k \in DOMAIN OtherStubs(NodeOf(s), b) : OtherStubs(NodeOf(s), b)[k] = t
    <3> DEFINE n == NodeOf(s)
    <3>1. NodeOf(t) = n /\ t.eq # b
      BY <1>10
    <3> HIDE DEF n
    <3>2. \E k \in DOMAIN OtherStubs(n, b) : OtherStubs(n, b)[k] = t
      BY <3>1, StubFound
    <3> QED BY <3>2 DEF n
  <2>2. s \in W
    BY <2>1 DEF W, Wired
  <2>3. PICK i \in DOMAIN O : O[i] = s
    BY <1>2, <2>2 DEF ToSet
  <2>4. k \in DOMAIN ss[i] /\ i \in 1 .. Len(ss)
    BY <1>3, <1>4, <1>5, <2>1, <2>3
  <2>5. PICK p \in DOMAIN F : at[p] = <<i, k>>
    BY <1>8, <2>4 DEF Stands
  <2>6. at[p][1] = i /\ at[p][2] = k
    BY <2>5
  <2> QED BY <1>9, <2>1, <2>3, <2>6
<1>11. ASSUME NEW p \in DOMAIN F, NEW q \in DOMAIN F, F[p].start = F[q].start, F[p].at = F[q].at PROVE p = q
  <2>1. at[p][1] = at[q][1]
    <3>1. O[at[p][1]] = O[at[q][1]] /\ at[p][1] \in DOMAIN O /\ at[q][1] \in DOMAIN O
      BY <1>9, <1>11
    <3> QED BY <1>2, <3>1
  <2>2. at[p][2] = at[q][2]
    <3> DEFINE n == NodeOf(O[at[p][1]])
    <3>1. /\ at[p][2] \in DOMAIN OtherStubs(n, b) /\ at[q][2] \in DOMAIN OtherStubs(n, b)
          /\ OtherStubs(n, b)[at[p][2]] = OtherStubs(n, b)[at[q][2]]
      BY <1>9, <1>11, <2>1
    <3> HIDE DEF n
    <3> QED BY <3>1, StubsAre
  <2>3. at[p] = at[q]
    <3>1. at[p] \in Nat \X Nat /\ at[q] \in Nat \X Nat
      BY <1>9
    <3> QED BY <2>1, <2>2, <3>1
  <2> QED BY <1>8, <2>3 DEF Stands
<1>12. AllStarted(F, b) /\ StartedOnce(F)
  BY <1>10, <1>11 DEF AllStarted, StartedOnce
<1>13. DOMAIN F = 1 .. Len(F) /\ \A p \in DOMAIN F : IsFirst(F[p], b)
  BY <1>7, <1>9
<1> QED BY <1>2, <1>7, <1>12, <1>13 DEF O, W, F

\* They are sound: nothing lies between a node and itself.
LEMMA FirstSound ==
    ASSUME source \in Sources, NEW b \in BusbarSections, NEW p \in DOMAIN First(b)
    PROVE  /\ BranchSound(First(b)[p]) /\ First(b)[p].start.eq = b
           /\ First(b)[p].start \in Wired(b) /\ First(b)[p].mids = << >>
<1> DEFINE c == First(b)[p]  s == NodeOf(c.start)
<1>1. /\ c \in Branches /\ c.start \in Wired(b) /\ c.at \in Terminals(Equipment)
      /\ NodeOf(c.at) = s /\ c.end = FALSE /\ c.segs = << >> /\ c.mids = << >>
  <2>1. First(b) \in Seq(Branches) /\ IsFirst(First(b)[p], b)
    BY FirstIs
  <2> QED BY <2>1 DEF IsFirst
<1> HIDE DEF c
<1>2. s \in Nodes
  BY <1>1, TerminalIs
<1>3. \A E \in SUBSET Conducting : s \in JoinedTo(s, E)
  BY <1>2, EquipmentIs, JoinedIs
<1>4. OnWay(s, s) = {}
  BY <1>3 DEF OnWay
<1> HIDE DEF s
<1>5. Carries(<< >>, << >>, s, s)
  <2>1. ToSet(<< >>) = {}
    BY DEF ToSet
  <2> QED BY <1>4, <2>1 DEF Carries, IsInjective
<1>6. c.start.eq = b
  BY <1>1 DEF Wired, OwnTerminals, Terminal
<1> QED BY <1>1, <1>3, <1>5, <1>6 DEF BranchSound, c, s

\* What should be found from Terminal s of a busbar: all it is joined to but itself.
Wanted(s, t) == /\ NodeOf(t) \in JoinedTo(NodeOf(s), Conducting)
                /\ ~(s.eq = t.eq /\ NodeOf(s) = NodeOf(t))

\* The first branches divide it among them.
LEMMA FirstLeads ==
    ASSUME source \in Sources, RingFree, NEW b \in BusbarSections, NEW s \in OwnTerminals(b), NEW t \in WalkEnds
    PROVE  /\ Wanted(s, t) <=> \E p \in DOMAIN First(b) : First(b)[p].start = s /\ Leads(First(b)[p], t)
           /\ \A p, q \in DOMAIN First(b) :
                 /\ First(b)[p].start = s /\ Leads(First(b)[p], t)
                 /\ First(b)[q].start = s /\ Leads(First(b)[q], t)
                 => p = q
<1> DEFINE n == NodeOf(s)  x == NodeOf(t)  J == JoinedTo(n, Conducting)
           B(f) == JoinedTo(n, Conducting \ {f})
           K == {n}  F == {f \in Conducting : n \in NodesOf(f)}
           D == DOMAIN First(b)  c(p) == First(b)[p]
<1>1. /\ s.eq = b /\ b \in Equipment /\ b \notin Conducting /\ s \in Terminals(Equipment) /\ n \in Nodes
      /\ Conducting \in SUBSET Equipment /\ \A f \in Conducting : Conducting \ {f} \in SUBSET Equipment
  <2>1. b \in Equipment /\ b \notin Conducting /\ Conducting \in SUBSET Equipment
        /\ \A f \in Conducting : Conducting \ {f} \in SUBSET Equipment
    BY EquipmentIs
  <2>2. s.eq = b /\ s \in Terminals(Equipment)
    BY <2>1 DEF OwnTerminals, Terminal, Terminals
  <2> QED BY <2>1, <2>2, TerminalIs
<1>2. n \in J /\ \A f \in Conducting : n \in B(f)
  BY <1>1, JoinedIs
<1>3. Divides(n, K, F)
  <2>1. LeadOn(n, K, F)
    BY <1>2 DEF LeadOn
  <2> HIDE DEF n, K, F
  <2> QED BY <1>1, <2>1, Fan
<1>4. /\ \A y \in J : y = n \/ \E f \in F : y \notin B(f)
      /\ \A y \in J : \A f, g \in F : y \notin B(f) /\ y \notin B(g) => f = g
  BY <1>3 DEF Divides
<1>5. \A p \in D : /\ c(p).at \in Terminals(Equipment) /\ c(p).end = FALSE /\ c(p).at.eq # b
                   /\ NodeOf(c(p).at) = NodeOf(c(p).start)
  <2>1. \A p \in D : IsFirst(c(p), b)
    BY FirstIs
  <2> QED BY <2>1 DEF IsFirst
<1>6. \A u \in Terminals(Equipment) : NodeOf(u) = n /\ u.eq # b => \E p \in D : c(p).start = s /\ c(p).at = u
  <2>1. AllStarted(First(b), b)
    BY FirstIs
  <2> QED BY <2>1 DEF AllStarted
<1>7. \A p, q \in D : c(p).start = c(q).start /\ c(p).at = c(q).at => p = q
  <2>1. StartedOnce(First(b))
    BY FirstIs
  <2> QED BY <2>1 DEF StartedOnce
<1> HIDE DEF D, c
<1>8. ASSUME NEW p \in D, c(p).start = s, Leads(c(p), t)
      PROVE  \/ t = c(p).at /\ x = n /\ t.eq # b
             \/ c(p).at.eq \in F /\ x \in J /\ x \notin B(c(p).at.eq)
  <2>1. CASE AtEnd(c(p))
    BY <1>5, <1>8, <2>1 DEF Leads
  <2>2. CASE ~AtEnd(c(p))
    <3>1. c(p).at.eq \in Conducting
      <4>1. c(p).at.eq \in Equipment
        BY <1>5, TerminalIs
      <4> QED BY <2>2, <4>1 DEF AtEnd, Conducting
    <3>2. n \in NodesOf(c(p).at.eq)
      <4>1. NodeOf(c(p).at) \in NodesOf(c(p).at.eq)
        BY <1>5, TerminalIs
      <4> QED BY <1>5, <1>8, <4>1
    <3> QED BY <1>8, <2>2, <3>1, <3>2 DEF Leads
  <2> QED BY <2>1, <2>2
<1>9. ASSUME NEW p \in D, c(p).start = s, Leads(c(p), t) PROVE Wanted(s, t)
  BY <1>1, <1>2, <1>8, <1>9 DEF Wanted
<1>10. ASSUME Wanted(s, t) PROVE \E p \in D : c(p).start = s /\ Leads(c(p), t)
  <2>1. x \in J /\ ~(b = t.eq /\ n = x)
    BY <1>1, <1>10 DEF Wanted
  <2>2. t \in Terminals(Equipment)
    BY EndIs
  <2>3. CASE x = n
    <3>1. t.eq # b
      BY <2>1, <2>3
    <3>2. Stops(t.eq)
      BY <1>1, <2>3, <3>1, EndIs
    <3>3. PICK p \in D : c(p).start = s /\ c(p).at = t
      BY <1>6, <2>2, <2>3, <3>1
    <3> QED BY <3>2, <3>3 DEF Leads, AtEnd
  <2>4. CASE x # n
    <3>1. PICK f \in F : x \notin B(f)
      BY <1>4, <2>1, <2>4
    <3>2. PICK i \in DOMAIN source.nodes[f] : source.nodes[f][i] = n
      BY <3>1 DEF NodesOf, ToSet
    <3>3. f \in Conducting /\ f \in Equipment /\ f # b
      BY <1>1, <3>1
    <3>4. /\ Terminal(f, i) \in Terminals(Equipment) /\ NodeOf(Terminal(f, i)) = n /\ Terminal(f, i).eq = f
      BY <3>2, <3>3, TerminalIs
    <3>5. PICK p \in D : c(p).start = s /\ c(p).at = Terminal(f, i)
      BY <1>6, <3>3, <3>4
    <3>6. ~AtEnd(c(p)) /\ c(p).at.eq = f
      BY <1>5, <3>3, <3>4, <3>5 DEF AtEnd, Conducting
    <3> QED BY <2>1, <3>1, <3>5, <3>6 DEF Leads
  <2> QED BY <2>3, <2>4
<1>11. ASSUME NEW p \in D, NEW q \in D, c(p).start = s, Leads(c(p), t), c(q).start = s, Leads(c(q), t)
       PROVE  p = q
  <2>1. CASE x = n
    <3>1. \A f \in F : x \in B(f)
      BY <1>2, <2>1
    <3>2. t = c(p).at /\ t = c(q).at
      BY <1>8, <1>11, <3>1
    <3> QED BY <1>7, <1>11, <3>2
  <2>2. CASE x # n
    <3>1. /\ c(p).at.eq \in F /\ x \in J /\ x \notin B(c(p).at.eq)
          /\ c(q).at.eq \in F /\ x \notin B(c(q).at.eq)
      BY <1>8, <1>11, <2>2
    <3> DEFINE g == c(p).at.eq
    <3>2. g = c(q).at.eq
      BY <1>4, <3>1
    <3>3. g \in Conducting /\ n \in NodesOf(g) /\ g \in Equipment
      BY <1>1, <3>1
    <3>4. c(p).at \in Terminals(Equipment) /\ c(q).at \in Terminals(Equipment) /\ NodeOf(c(p).at) = n /\ NodeOf(c(q).at) = n
      BY <1>5, <1>11
    <3>5. c(p).at = OwnStubAt(g, n) /\ c(q).at = OwnStubAt(g, n)
      <4> HIDE DEF n
      <4> QED BY <3>2, <3>3, <3>4, OwnStubIs
    <3> QED BY <1>7, <1>11, <3>5
  <2> QED BY <2>1, <2>2
<1> QED BY <1>9, <1>10, <1>11 DEF c, D

-----------------------------------------------------------------------------
(* The inductive invariant.                                                 *)

\* The sound branches and rows, and those from Terminal s that lead to and name t.
Sound == {b \in Branches : BranchSound(b)}
Rows == [source : Terminals(BusbarSections), target : Terminals(Equipment), segs : Cables, mids : Middles]
SoundRows == {c \in Rows : /\ c.target \in WalkEnds /\ NodeOf(c.target) \in JoinedTo(NodeOf(c.source), Conducting)
                           /\ Carries(c.segs, c.mids, NodeOf(c.source), NodeOf(c.target))}
Leading(s, t) == {b \in Branches : b.start = s /\ Leads(b, t)}
Naming(s, t) == {c \in Rows : c.source = s /\ c.target = t}

\* In the list w one entry is in Q, and none but one.
Some(w, Q) == \E i \in DOMAIN w : w[i] \in Q
Once(w, Q) == \A i, j \in DOMAIN w : w[i] \in Q /\ w[j] \in Q => i = j

Graph == source \in Sources /\ RingFree

\* Busbars are done in their order, and no branch is left when one is begun.
Order == /\ left \subseteq BusbarSections
         /\ \A x \in BusbarSections \ left, y \in left : x < y
         /\ todo # << >> => current \in BusbarSections \ left /\ \A x \in BusbarSections \ left : x <= current
WalkSound == /\ todo \in Seq(Sound) /\ \A i \in DOMAIN todo : todo[i].start.eq = current
             /\ connections \in Seq(SoundRows) /\ \A i \in DOMAIN connections : connections[i].source.eq \notin left
RowsThere == /\ \A i \in DOMAIN todo : {todo[i].start} \cup ToSet(todo[i].mids) \subseteq terminals
             /\ \A c \in ToSet(connections) : Referenced(c) \subseteq terminals
             /\ stored # << >> => Done /\ stored = <<[terminals |-> terminals, connections |-> connections]>>

\* From a busbar that was begun each end is found, or a branch leads to it, once; but
\* not an end at a busbar before it.
Skipped(s, t) == t.eq \in BusbarSections /\ t.eq < s.eq
OneSite(s, t) == /\ Wanted(s, t) <=> Some(connections, Naming(s, t)) \/ Some(todo, Leading(s, t))
                 /\ ~Some(connections, Naming(s, t)) \/ ~Some(todo, Leading(s, t))
                 /\ Once(connections, Naming(s, t)) /\ Once(todo, Leading(s, t))
EachOnce == \A s \in Terminals(BusbarSections), t \in WalkEnds :
               s.eq \notin left => IF Skipped(s, t) THEN ~Some(connections, Naming(s, t)) ELSE OneSite(s, t)

Inv == Graph /\ Order /\ WalkSound /\ RowsThere /\ EachOnce

-----------------------------------------------------------------------------
(* The graph does not change, and what is defined from it does not.         *)

\* While the source stays, so do the graph and the sound branches and rows.
LEMMA SameGraph ==
    ASSUME source' = source
    PROVE  /\ BusbarSections' = BusbarSections /\ Conducting' = Conducting /\ Graph' = Graph
           /\ Terminals(BusbarSections)' = Terminals(BusbarSections) /\ WalkEnds' = WalkEnds
           /\ Sound' = Sound /\ SoundRows' = SoundRows /\ Rows' = Rows
           /\ \A s, t : /\ Leading(s, t)' = Leading(s, t) /\ Naming(s, t)' = Naming(s, t)
                        /\ Wanted(s, t)' = Wanted(s, t) /\ Skipped(s, t)' = Skipped(s, t)
           /\ \A t : NodeOf(t)' = NodeOf(t)
           /\ \A s, m : OnWay(s, m)' = OnWay(s, m)
<1>1. /\ \A e : Class(e)' = Class(e) /\ NodesOf(e)' = NodesOf(e) /\ OwnTerminals(e)' = OwnTerminals(e)
      /\ \A t : NodeOf(t)' = NodeOf(t)
  BY DEF Class, NodesOf, OwnTerminals, NodeOf
<1>2. /\ \A e : Stops(e)' = Stops(e) /\ Named(e)' = Named(e)
      /\ \A E : Terminals(E)' = Terminals(E)
      /\ \A S, E : Closed(S, E)' = Closed(S, E)
  BY <1>1 DEF Stops, Named, Terminals, Closed, NodesOf
<1>3. BusbarSections' = BusbarSections /\ Conducting' = Conducting
  BY <1>1, <1>2 DEF BusbarSections, Conducting
<1>4. \A n, E : JoinedTo(n, E)' = JoinedTo(n, E)
  BY <1>2 DEF JoinedTo
<1>5. Terminals(BusbarSections)' = Terminals(BusbarSections) /\ Terminals(Equipment)' = Terminals(Equipment)
      /\ Terminals(Conducting)' = Terminals(Conducting)
      /\ Terminals(Equipment \ Conducting)' = Terminals(Equipment \ Conducting)
  BY <1>1, <1>3 DEF Terminals
<1>6. \A n : TerminalsAt(n)' = TerminalsAt(n)
  BY <1>1 DEF TerminalsAt
<1>7. WalkEnds' = WalkEnds /\ DeadEnds' = DeadEnds
  BY <1>1, <1>5, <1>6 DEF WalkEnds, StopTerminals, DeadEnds
<1>8. Branches' = Branches /\ Rows' = Rows
  BY <1>5 DEF Branches, Rows
<1>9. \A s, m : OnWay(s, m)' = OnWay(s, m)
  BY <1>3, <1>4 DEF OnWay
<1>10. \A segs, mids, s, m : Carries(segs, mids, s, m)' <=> Carries(segs, mids, s, m)
  BY <1>1, <1>2, <1>3, <1>4, <1>9 DEF Carries
<1>11. Sound' = Sound /\ SoundRows' = SoundRows
  BY <1>1, <1>3, <1>4, <1>7, <1>8, <1>10 DEF Sound, BranchSound, SoundRows
<1>12. \A s, t : Leading(s, t)' = Leading(s, t) /\ Naming(s, t)' = Naming(s, t)
  BY <1>1, <1>2, <1>3, <1>4, <1>8 DEF Leading, Leads, AtEnd, Naming
<1>13. \A s, t : Wanted(s, t)' = Wanted(s, t) /\ Skipped(s, t)' = Skipped(s, t)
  BY <1>1, <1>3, <1>4 DEF Wanted, Skipped
<1>14. Graph' = Graph
  BY <1>1, <1>5 DEF Graph, RingFree
<1> QED BY <1>1, <1>3, <1>5, <1>7, <1>8, <1>9, <1>11, <1>12, <1>13, <1>14

-----------------------------------------------------------------------------
(* What a list has once.                                                    *)

\* A list without its first entry.
LEMMA HeadGoes ==
    ASSUME NEW X, NEW w \in Seq(X), w # << >>, NEW Q
    PROVE  /\ Head(w) \in X /\ Tail(w) \in Seq(X) /\ 1 \in DOMAIN w /\ Head(w) = w[1]
           /\ \A i \in DOMAIN Tail(w) : i + 1 \in DOMAIN w /\ Tail(w)[i] = w[i + 1]
           /\ Some(w, Q) <=> Head(w) \in Q \/ Some(Tail(w), Q)
           /\ Once(w, Q) => Once(Tail(w), Q) /\ ~(Head(w) \in Q /\ Some(Tail(w), Q))
<1> DEFINE v == Tail(w)  n == Len(w)
<1>1. /\ Head(w) \in X /\ v \in Seq(X) /\ n \in Nat /\ n > 0 /\ DOMAIN w = 1 .. n /\ DOMAIN v = 1 .. n - 1
      /\ Head(w) = w[1] /\ \A i \in 1 .. n - 1 : v[i] = w[i + 1]
  OBVIOUS
<1> HIDE DEF v, n
<1>2. 1 \in DOMAIN w /\ \A i \in DOMAIN v : i \in Nat /\ i + 1 \in DOMAIN w /\ v[i] = w[i + 1] /\ i + 1 # 1
  BY <1>1
<1>3. \A i \in DOMAIN w : i = 1 \/ \E j \in DOMAIN v : i = j + 1
  <2> TAKE i \in DOMAIN w
  <2>1. CASE i # 1
    <3>1. i - 1 \in DOMAIN v /\ i = (i - 1) + 1
      BY <1>1, <2>1
    <3> QED BY <3>1
  <2> QED BY <2>1
<1>4. Some(w, Q) <=> Head(w) \in Q \/ Some(v, Q)
  BY <1>1, <1>2, <1>3 DEF Some
<1>5. ASSUME Once(w, Q) PROVE Once(v, Q) /\ ~(Head(w) \in Q /\ Some(v, Q))
  <2>1. ASSUME NEW i \in DOMAIN v, NEW j \in DOMAIN v, v[i] \in Q, v[j] \in Q PROVE i = j
    <3>1. i + 1 = j + 1 /\ i \in Nat /\ j \in Nat
      BY <1>2, <1>5, <2>1 DEF Once
    <3> QED BY <3>1
  <2>2. ASSUME Head(w) \in Q, NEW i \in DOMAIN v, v[i] \in Q PROVE FALSE
    <3>1. i + 1 = 1 /\ i + 1 # 1
      BY <1>1, <1>2, <1>5, <2>2 DEF Once
    <3> QED BY <3>1
  <2> QED BY <2>1, <2>2 DEF Once, Some
<1> QED BY <1>1, <1>2, <1>4, <1>5 DEF v

\* One list before another.
LEMMA PutBefore ==
    ASSUME NEW X, NEW v \in Seq(X), NEW w \in Seq(X), NEW Q
    PROVE  /\ v \o w \in Seq(X)
           /\ \A i \in DOMAIN (v \o w) : \/ \E j \in DOMAIN v : (v \o w)[i] = v[j]
                                         \/ \E j \in DOMAIN w : (v \o w)[i] = w[j]
           /\ Some(v \o w, Q) <=> Some(v, Q) \/ Some(w, Q)
           /\ Once(v, Q) /\ Once(w, Q) /\ ~(Some(v, Q) /\ Some(w, Q)) => Once(v \o w, Q)
<1> DEFINE u == v \o w  n == Len(v)  m == Len(w)
<1>1. /\ u \in Seq(X) /\ n \in Nat /\ m \in Nat /\ DOMAIN v = 1 .. n /\ DOMAIN w = 1 .. m /\ DOMAIN u = 1 .. n + m
      /\ \A i \in 1 .. n + m : u[i] = IF i <= n THEN v[i] ELSE w[i - n]
  OBVIOUS
<1> HIDE DEF u, n, m
<1>2. \A i \in DOMAIN u : \/ i \in DOMAIN v /\ u[i] = v[i]
                          \/ \E j \in DOMAIN w : i = n + j /\ u[i] = w[j]
  <2> TAKE i \in DOMAIN u
  <2>1. CASE i <= n
    BY <1>1, <2>1
  <2>2. CASE ~(i <= n)
    <3>1. i - n \in DOMAIN w /\ i = n + (i - n) /\ u[i] = w[i - n]
      BY <1>1, <2>2
    <3> QED BY <3>1
  <2> QED BY <2>1, <2>2
<1>3. \A i \in DOMAIN v : i \in DOMAIN u /\ u[i] = v[i]
  BY <1>1
<1>4. \A j \in DOMAIN w : n + j \in DOMAIN u /\ u[n + j] = w[j]
  <2> TAKE j \in DOMAIN w
  <2>1. n + j \in 1 .. n + m /\ ~(n + j <= n) /\ n + j - n = j
    BY <1>1
  <2> QED BY <1>1, <2>1
<1>5. Some(u, Q) <=> Some(v, Q) \/ Some(w, Q)
  BY <1>2, <1>3, <1>4 DEF Some
<1>6. ASSUME Once(v, Q), Once(w, Q), ~(Some(v, Q) /\ Some(w, Q)) PROVE Once(u, Q)
  <2> SUFFICES ASSUME NEW i \in DOMAIN u, NEW j \in DOMAIN u, u[i] \in Q, u[j] \in Q PROVE i = j
    BY DEF Once
  <2>1. CASE i \in DOMAIN v /\ u[i] = v[i]
    <3>1. Some(v, Q) /\ ~Some(w, Q)
      BY <1>6, <2>1 DEF Some
    <3>2. j \in DOMAIN v /\ u[j] = v[j]
      BY <1>2, <3>1 DEF Some
    <3> QED BY <1>6, <2>1, <3>2 DEF Once
  <2>2. CASE \E k \in DOMAIN w : i = n + k /\ u[i] = w[k]
    <3>1. PICK k \in DOMAIN w : i = n + k /\ u[i] = w[k]
      BY <2>2
    <3>2. ~Some(v, Q)
      BY <1>6, <3>1 DEF Some
    <3>3. PICK l \in DOMAIN w : j = n + l /\ u[j] = w[l]
      BY <1>2, <3>2 DEF Some
    <3>4. k = l
      BY <1>6, <3>1, <3>3 DEF Once
    <3> QED BY <3>1, <3>3, <3>4
  <2> QED BY <1>2, <2>1, <2>2
<1> QED BY <1>1, <1>2, <1>5, <1>6 DEF u

\* A list with one entry more.
LEMMA OneAdded ==
    ASSUME NEW X, NEW w \in Seq(X), NEW x \in X, NEW Q
    PROVE  /\ Append(w, x) \in Seq(X)
           /\ \A i \in DOMAIN Append(w, x) : (\E j \in DOMAIN w : Append(w, x)[i] = w[j]) \/ Append(w, x)[i] = x
           /\ Some(Append(w, x), Q) <=> Some(w, Q) \/ x \in Q
           /\ Once(w, Q) /\ ~(Some(w, Q) /\ x \in Q) => Once(Append(w, x), Q)
<1> DEFINE u == Append(w, x)  n == Len(w)
<1>1. /\ u \in Seq(X) /\ n \in Nat /\ DOMAIN w = 1 .. n /\ DOMAIN u = 1 .. n + 1 /\ u[n + 1] = x
      /\ \A i \in DOMAIN w : u[i] = w[i]
  BY AppendIs
<1> HIDE DEF u, n
<1>2. \A i \in DOMAIN u : (i \in DOMAIN w /\ u[i] = w[i]) \/ (i = n + 1 /\ u[i] = x)
  BY <1>1
<1>3. n + 1 \in DOMAIN u /\ \A i \in DOMAIN w : i \in DOMAIN u
  BY <1>1
<1>4. Some(u, Q) <=> Some(w, Q) \/ x \in Q
  BY <1>1, <1>2, <1>3 DEF Some
<1>5. Once(w, Q) /\ ~(Some(w, Q) /\ x \in Q) => Once(u, Q)
  BY <1>2 DEF Once, Some
<1> QED BY <1>1, <1>2, <1>4, <1>5 DEF u

-----------------------------------------------------------------------------
(* Each step keeps the invariant.                                           *)

\* What the invariant says of a list is said of each entry.
LEMMA EntriesAre ==
    ASSUME Inv
    PROVE  /\ source \in Sources /\ RingFree
           /\ \A i \in DOMAIN todo : /\ todo[i] \in Branches /\ BranchSound(todo[i])
           /\ \A i \in DOMAIN connections :
                 /\ connections[i] \in Rows /\ connections[i].target \in WalkEnds
                 /\ NodeOf(connections[i].target) \in JoinedTo(NodeOf(connections[i].source), Conducting)
                 /\ Carries(connections[i].segs, connections[i].mids,
                            NodeOf(connections[i].source), NodeOf(connections[i].target))
<1>1. todo \in Seq(Sound) /\ connections \in Seq(SoundRows)
  BY DEF Inv, WalkSound
<1>2. \A i \in DOMAIN todo : todo[i] \in Sound
  BY <1>1
<1>3. \A i \in DOMAIN connections : connections[i] \in SoundRows
  BY <1>1
<1> QED BY <1>2, <1>3 DEF Inv, Graph, Sound, SoundRows

\* At the start nothing is found, and no busbar is done.
LEMMA InitInv == Init /\ RingFree => Inv
<1> SUFFICES ASSUME Init, RingFree PROVE Inv
  OBVIOUS
<1>1. source \in Sources /\ left = BusbarSections /\ todo = << >> /\ connections = << >> /\ stored = << >>
  BY DEF Init
<1>2. Graph /\ Order
  BY <1>1 DEF Graph, Order
<1>3. WalkSound
  BY <1>1 DEF WalkSound
<1>4. RowsThere
  BY <1>1 DEF RowsThere, ToSet
<1>5. EachOnce
  <2>1. BusbarSections \in SUBSET Equipment
    BY <1>1, EquipmentIs
  <2>2. \A s \in Terminals(BusbarSections) : s.eq \in left
    BY <1>1, <2>1, TerminalIs
  <2> QED BY <2>2 DEF EachOnce
<1> QED BY <1>2, <1>3, <1>4, <1>5 DEF Inv

\* A busbar is begun: its branches lead to all that should be found from it, and none did before.
LEMMA WalkFromBusbarKeeps == Inv /\ WalkFromBusbar => Inv'
<1> SUFFICES ASSUME Inv, WalkFromBusbar PROVE Inv'
  OBVIOUS
<1> DEFINE b == Min(left)
<1>1. /\ source \in Sources /\ RingFree /\ todo = << >> /\ left # {}
      /\ Order /\ WalkSound /\ RowsThere /\ EachOnce
  BY DEF Inv, Graph, WalkFromBusbar
<1>2. /\ left \in SUBSET BusbarSections /\ BusbarSections \in SUBSET Equipment /\ Equipment \in SUBSET Nat
  BY <1>1, EquipmentIs DEF Order
<1>3. /\ b \in left /\ b \in BusbarSections /\ \A y \in left : b <= y
  <2>1. left \in SUBSET Nat
    BY <1>2
  <2> QED BY <1>1, <1>2, <2>1, MinIs
<1>4. /\ current' = b /\ left' = left \ {b} /\ source' = source /\ connections' = connections
      /\ stored' = stored /\ terminals' = terminals \cup Wired(b) /\ todo' = First(b)
  <2>1. ToSet(Ordered(Wired(b))) = Wired(b)
    <3> HIDE DEF b
    <3> QED BY <1>1, <1>3, FirstIs
  <2>2. /\ current' = b /\ left' = left \ {b} /\ source' = source /\ connections' = connections
        /\ stored' = stored /\ terminals' = terminals \cup ToSet(Ordered(Wired(b)))
    BY DEF WalkFromBusbar, Wired
  <2>3. todo' = First(b)
    BY DEF WalkFromBusbar, Wired, First, FirstAt
  <2> QED BY <2>1, <2>2, <2>3
<1> HIDE DEF b
<1>5. First(b) \in Seq(Branches) /\ DOMAIN First(b) = 1 .. Len(First(b))
  BY <1>1, <1>3, FirstIs
<1>6. \A p \in DOMAIN First(b) : /\ First(b)[p] \in Sound /\ First(b)[p].start.eq = b
                                 /\ First(b)[p].start \in Wired(b) /\ First(b)[p].mids = << >>
  BY <1>1, <1>3, FirstSound DEF Sound, BranchSound
<1>7. First(b) \in Seq(Sound)
  <2>1. Len(First(b)) \in Nat
    BY <1>5
  <2> QED BY <1>5, <1>6, <2>1
<1>8. Order'
  <2>1. \A x \in BusbarSections \ left', y \in left' : x < y
    <3> TAKE x \in BusbarSections \ left', y \in left'
    <3>1. y \in left /\ y # b /\ b <= y /\ y \in Nat /\ b \in Nat
      BY <1>2, <1>3, <1>4
    <3>2. x = b \/ x < y
      BY <1>1, <1>4, <3>1 DEF Order
    <3> QED BY <3>1, <3>2
  <2>2. \A x \in BusbarSections \ left' : x <= b
    <3> TAKE x \in BusbarSections \ left'
    <3>1. x = b \/ x < b
      BY <1>1, <1>3, <1>4 DEF Order
    <3>2. x \in Nat /\ b \in Nat
      BY <1>2, <1>3
    <3> QED BY <3>1, <3>2
  <2>3. BusbarSections' = BusbarSections
    BY <1>4, SameGraph
  <2> QED BY <1>2, <1>3, <1>4, <2>1, <2>2, <2>3 DEF Order
<1>9. WalkSound'
  <2>1. \A i \in DOMAIN connections' : connections'[i].source.eq \notin left'
    BY <1>1, <1>4 DEF WalkSound
  <2>2. connections' \in Seq(SoundRows)
    BY <1>1, <1>4 DEF WalkSound
  <2>3. todo' \in Seq(Sound) /\ \A i \in DOMAIN todo' : todo'[i].start.eq = current'
    BY <1>4, <1>6, <1>7
  <2>4. Sound' = Sound /\ SoundRows' = SoundRows
    BY <1>4, SameGraph
  <2> QED BY <2>1, <2>2, <2>3, <2>4 DEF WalkSound
<1>10. RowsThere'
  <2>1. \A i \in DOMAIN todo' : {todo'[i].start} \cup ToSet(todo'[i].mids) \subseteq terminals'
    BY <1>4, <1>6 DEF ToSet
  <2>2. stored' = << >>
    BY <1>1, <1>4 DEF RowsThere, Done
  <2>3. \A c \in ToSet(connections') : Referenced(c) \subseteq terminals'
    BY <1>1, <1>4 DEF RowsThere
  <2> QED BY <2>1, <2>2, <2>3 DEF RowsThere, Referenced
<1>11. EachOnce'
  <2>1. ASSUME NEW s \in Terminals(BusbarSections), NEW t \in WalkEnds, s.eq \notin left'
        PROVE  /\ Skipped(s, t) => ~Some(connections', Naming(s, t))
               /\ ~Skipped(s, t) =>
                     /\ Wanted(s, t) <=> Some(connections', Naming(s, t)) \/ Some(todo', Leading(s, t))
                     /\ ~Some(connections', Naming(s, t)) \/ ~Some(todo', Leading(s, t))
                     /\ Once(connections', Naming(s, t)) /\ Once(todo', Leading(s, t))
    <3>1. CASE s.eq # b
      <4>1. s.eq \notin left
        BY <1>4, <2>1, <3>1
      <4>2. ~Some(todo', Leading(s, t)) /\ Once(todo', Leading(s, t))
        BY <1>4, <1>6, <3>1 DEF Some, Once, Leading
      <4>3. ~Some(todo, Leading(s, t))
        BY <1>1 DEF Some
      <4> QED BY <1>1, <1>4, <2>1, <4>1, <4>2, <4>3 DEF EachOnce, OneSite
    <3>2. CASE s.eq = b
      <4>1. ~Some(connections', Naming(s, t)) /\ Once(connections', Naming(s, t))
        BY <1>1, <1>3, <1>4, <3>2 DEF WalkSound, Some, Once, Naming
      <4>2. s \in OwnTerminals(b)
        <5>1. s = Terminal(s.eq, s.no) /\ s.no \in DOMAIN source.nodes[s.eq]
          BY <1>1, <1>2, TerminalIs
        <5> QED BY <3>2, <5>1 DEF OwnTerminals
      <4>3. /\ Wanted(s, t) <=> \E p \in DOMAIN First(b) : First(b)[p].start = s /\ Leads(First(b)[p], t)
            /\ \A p, q \in DOMAIN First(b) :
                  /\ First(b)[p].start = s /\ Leads(First(b)[p], t)
                  /\ First(b)[q].start = s /\ Leads(First(b)[q], t)
                  => p = q
        BY <1>1, <1>3, <2>1, <4>2, FirstLeads
      <4>4. \A p \in DOMAIN First(b) : First(b)[p] \in Leading(s, t) <=> First(b)[p].start = s /\ Leads(First(b)[p], t)
        BY <1>5 DEF Leading
      <4>5. (Wanted(s, t) <=> Some(todo', Leading(s, t))) /\ Once(todo', Leading(s, t))
        BY <1>4, <4>3, <4>4 DEF Some, Once
      <4> QED BY <4>1, <4>5
    <3> QED BY <3>1, <3>2
  <2>2. /\ Terminals(BusbarSections)' = Terminals(BusbarSections) /\ WalkEnds' = WalkEnds
        /\ \A s, t : /\ Leading(s, t)' = Leading(s, t) /\ Naming(s, t)' = Naming(s, t)
                     /\ Wanted(s, t)' = Wanted(s, t) /\ Skipped(s, t)' = Skipped(s, t)
    BY <1>4, SameGraph
  <2> QED BY <2>1, <2>2 DEF EachOnce, OneSite
<1>12. Graph'
  BY <1>1, <1>4, SameGraph DEF Graph
<1> QED BY <1>8, <1>9, <1>10, <1>11, <1>12 DEF Inv

\* The way back to a busbar is left out where that is done: it is before the current one.
LEMMA CompletedIs ==
    ASSUME Inv, todo # << >>, NEW e
    PROVE  Completed(e) <=> e \in BusbarSections /\ e < current
<1>1. /\ Order /\ source \in Sources /\ current \in BusbarSections \ left
      /\ \A x \in BusbarSections \ left : x <= current
      /\ \A x \in BusbarSections \ left, y \in left : x < y
  BY DEF Inv, Graph, Order
<1>2. BusbarSections \in SUBSET Nat
  BY <1>1, EquipmentIs
<1>3. ASSUME Completed(e) PROVE e \in BusbarSections /\ e < current
  <2>1. e \in BusbarSections /\ e <= current /\ e # current /\ e \in Nat /\ current \in Nat
    BY <1>1, <1>2, <1>3 DEF Completed
  <2> QED BY <2>1
<1>4. ASSUME e \in BusbarSections, e < current PROVE Completed(e)
  <2>1. e \in Nat /\ current \in Nat /\ e # current /\ ~(current < e)
    BY <1>1, <1>2, <1>4
  <2> QED BY <1>1, <1>4, <2>1 DEF Completed
<1> QED BY <1>3, <1>4

\* The first branch, and what is left without it.
LEMMA FirstBranch ==
    ASSUME Inv, todo # << >>
    PROVE  /\ Head(todo) \in Branches /\ BranchSound(Head(todo)) /\ Head(todo).start.eq = current
           /\ {Head(todo).start} \cup ToSet(Head(todo).mids) \subseteq terminals
           /\ Tail(todo) \in Seq(Sound)
           /\ \A i \in DOMAIN Tail(todo) :
                 /\ Tail(todo)[i].start.eq = current
                 /\ {Tail(todo)[i].start} \cup ToSet(Tail(todo)[i].mids) \subseteq terminals
           /\ current \notin left /\ stored = << >>
<1>1. /\ todo \in Seq(Sound) /\ \A i \in DOMAIN todo : todo[i].start.eq = current
      /\ \A i \in DOMAIN todo : {todo[i].start} \cup ToSet(todo[i].mids) \subseteq terminals
      /\ current \notin left /\ stored = << >>
  BY DEF Inv, WalkSound, RowsThere, Order, Done
<1>2. /\ Head(todo) \in Sound /\ Tail(todo) \in Seq(Sound) /\ 1 \in DOMAIN todo /\ Head(todo) = todo[1]
      /\ \A i \in DOMAIN Tail(todo) : i + 1 \in DOMAIN todo /\ Tail(todo)[i] = todo[i + 1]
  BY <1>1, HeadGoes
<1>3. \A i \in DOMAIN Tail(todo) : /\ Tail(todo)[i].start.eq = current
                                   /\ {Tail(todo)[i].start} \cup ToSet(Tail(todo)[i].mids) \subseteq terminals
  BY <1>1, <1>2
<1>4. /\ Head(todo).start.eq = current /\ {Head(todo).start} \cup ToSet(Head(todo).mids) \subseteq terminals
      /\ Head(todo) \in Branches /\ BranchSound(Head(todo))
  BY <1>1, <1>2 DEF Sound
<1> QED BY <1>1, <1>2, <1>3, <1>4

\* A branch at its end is where the walk may end, and joined to where it began.
LEMMA EndsRight ==
    ASSUME source \in Sources, NEW b \in Branches, BranchSound(b), AtEnd(b)
    PROVE  b.at \in WalkEnds /\ NodeOf(b.at) \in JoinedTo(NodeOf(b.start), Conducting)
<1>1. CASE b.end
  BY <1>1 DEF BranchSound, WalkEnds
<1>2. CASE ~b.end
  <2>1. Stops(b.at.eq) /\ b.at \in Terminals(Equipment) /\ b.start \in Terminals(BusbarSections)
    BY <1>2 DEF AtEnd, Branches
  <2>2. b.at.eq \in Equipment \ Conducting
    BY <2>1, TerminalIs DEF Conducting
  <2>3. b.at \in StopTerminals
    BY <2>1, <2>2 DEF StopTerminals, Terminals, OwnTerminals, Terminal
  <2>4. NodeOf(b.start) \in Nodes /\ Conducting \in SUBSET Equipment
    <3>1. BusbarSections \in SUBSET Equipment /\ Conducting \in SUBSET Equipment
      BY EquipmentIs
    <3> QED BY <2>1, <3>1, TerminalIs
  <2>5. NodeOf(b.at) \in JoinedTo(NodeOf(b.start), Conducting \ {b.at.eq})
    BY <1>2 DEF BranchSound
  <2>6. Conducting \ {b.at.eq} = Conducting
    BY <2>2
  <2> QED BY <2>3, <2>5, <2>6 DEF WalkEnds
<1> QED BY <1>1, <1>2

\* A branch at its end becomes the one connection to it, or is skipped.
LEMMA CompleteKeeps ==
    ASSUME Inv, todo # << >>, AtEnd(Head(todo)), Complete(Head(todo)),
           source' = source, left' = left, current' = current, stored' = stored
    PROVE  Inv'
<1> DEFINE b == Head(todo)  rest == Tail(todo)
           row == [source |-> b.start, target |-> b.at, segs |-> b.segs, mids |-> b.mids]
<1>1. /\ source \in Sources /\ RingFree /\ Order /\ WalkSound /\ RowsThere /\ EachOnce
  BY DEF Inv, Graph
<1>2. /\ b \in Branches /\ BranchSound(b) /\ b.start.eq = current
      /\ {b.start} \cup ToSet(b.mids) \subseteq terminals
      /\ rest \in Seq(Sound)
      /\ \A i \in DOMAIN rest : /\ rest[i].start.eq = current
                                /\ {rest[i].start} \cup ToSet(rest[i].mids) \subseteq terminals
      /\ current \notin left /\ stored = << >>
  BY FirstBranch
<1>3. todo' = rest
  BY DEF Complete
<1>4. \/ Completed(b.at.eq) /\ terminals' = terminals /\ connections' = connections
      \/ ~Completed(b.at.eq) /\ terminals' = terminals \cup {b.at} /\ connections' = Append(connections, row)
  BY DEF Complete
<1>5. /\ row \in SoundRows /\ row.source = b.start /\ row.target = b.at /\ row.mids = b.mids
  <2>1. row \in Rows /\ row.source = b.start /\ row.target = b.at /\ row.segs = b.segs /\ row.mids = b.mids
    BY <1>2 DEF Rows, Branches
  <2>2. Carries(b.segs, b.mids, NodeOf(b.start), NodeOf(b.at))
    BY <1>2 DEF BranchSound
  <2>3. b.at \in WalkEnds /\ NodeOf(b.at) \in JoinedTo(NodeOf(b.start), Conducting)
    BY <1>1, <1>2, EndsRight DEF AtEnd
  <2> HIDE DEF row
  <2> QED BY <2>1, <2>2, <2>3 DEF SoundRows
<1> HIDE DEF b, rest, row
<1>6. /\ connections \in Seq(SoundRows)
      /\ connections' \in Seq(SoundRows)
      /\ \A i \in DOMAIN connections' : (\E j \in DOMAIN connections : connections'[i] = connections[j])
                                        \/ (connections'[i] = row /\ ~Completed(b.at.eq))
  <2>1. connections \in Seq(SoundRows)
    BY <1>1 DEF WalkSound
  <2>2. CASE connections' = connections
    BY <2>1, <2>2
  <2>3. CASE connections' = Append(connections, row) /\ ~Completed(b.at.eq)
    <3> DEFINE q == Append(connections, row)
    <3>1. /\ q \in Seq(SoundRows)
          /\ \A i \in DOMAIN q : (\E j \in DOMAIN connections : q[i] = connections[j]) \/ q[i] = row
      BY <1>5, <2>1, OneAdded
    <3> HIDE DEF q
    <3> QED BY <2>1, <2>3, <3>1 DEF q
  <2> QED BY <1>4, <2>2, <2>3
<1>7. Order'
  <2>1. BusbarSections' = BusbarSections
    BY SameGraph
  <2>2. todo # << >> => current \in BusbarSections \ left /\ \A x \in BusbarSections \ left : x <= current
    BY <1>1 DEF Order
  <2> QED BY <1>1, <2>1, <2>2 DEF Order
<1>8. WalkSound'
  <2>1. \A i \in DOMAIN connections' : connections'[i].source.eq \notin left
    BY <1>1, <1>2, <1>5, <1>6 DEF WalkSound
  <2>2. Sound' = Sound /\ SoundRows' = SoundRows
    BY SameGraph
  <2> QED BY <1>2, <1>3, <1>6, <2>1, <2>2 DEF WalkSound
<1>9. RowsThere'
  <2>1. terminals \subseteq terminals' /\ (~Completed(b.at.eq) => b.at \in terminals')
    BY <1>4
  <2>2. \A i \in DOMAIN todo' : {todo'[i].start} \cup ToSet(todo'[i].mids) \subseteq terminals'
    BY <1>2, <1>3, <2>1
  <2>3. \A c \in ToSet(connections') : {c.source, c.target} \cup ToSet(c.mids) \subseteq terminals'
    <3> TAKE c \in ToSet(connections')
    <3>1. PICK i \in DOMAIN connections' : c = connections'[i]
      BY DEF ToSet
    <3>2. CASE c = row /\ ~Completed(b.at.eq)
      BY <1>2, <1>5, <2>1, <3>2
    <3>3. CASE \E j \in DOMAIN connections : c = connections[j]
      <4>1. c \in ToSet(connections)
        BY <3>3 DEF ToSet
      <4> QED BY <1>1, <2>1, <4>1 DEF RowsThere, Referenced
    <3> QED BY <1>6, <3>1, <3>2, <3>3
  <2>4. stored' = << >>
    BY <1>2
  <2> QED BY <2>2, <2>3, <2>4 DEF RowsThere, Referenced
<1>10. EachOnce'
  <2>1. ASSUME NEW s \in Terminals(BusbarSections), NEW t \in WalkEnds, s.eq \notin left
        PROVE  /\ Skipped(s, t) => ~Some(connections', Naming(s, t))
               /\ ~Skipped(s, t) =>
                     /\ Wanted(s, t) <=> Some(connections', Naming(s, t)) \/ Some(todo', Leading(s, t))
                     /\ ~Some(connections', Naming(s, t)) \/ ~Some(todo', Leading(s, t))
                     /\ Once(connections', Naming(s, t)) /\ Once(todo', Leading(s, t))
    <3> DEFINE L == Leading(s, t)  N == Naming(s, t)
    <3>1. b \in L <=> b.start = s /\ b.at = t
      BY <1>2 DEF Leading, Leads, b
    <3>2. row \in N <=> b.start = s /\ b.at = t
      BY <1>5 DEF Naming, SoundRows
    <3>3. Completed(b.at.eq) <=> Skipped(b.start, b.at)
      BY <1>2, CompletedIs DEF Skipped
    <3>4. IF Skipped(s, t) THEN ~Some(connections, N)
          ELSE /\ Wanted(s, t) <=> Some(connections, N) \/ Some(todo, L)
               /\ ~Some(connections, N) \/ ~Some(todo, L)
               /\ Once(connections, N) /\ Once(todo, L)
      BY <1>1, <2>1 DEF EachOnce, OneSite
    <3> HIDE DEF L, N
    <3>5. /\ Some(todo, L) <=> b \in L \/ Some(rest, L)
          /\ Once(todo, L) => Once(rest, L) /\ ~(b \in L /\ Some(rest, L))
      <4>1. todo \in Seq(Sound)
        BY <1>1 DEF WalkSound
      <4> QED BY <4>1, HeadGoes DEF b, rest
    <3>6. /\ Some(Append(connections, row), N) <=> Some(connections, N) \/ row \in N
          /\ Once(connections, N) /\ ~(Some(connections, N) /\ row \in N) => Once(Append(connections, row), N)
      BY <1>5, <1>6, OneAdded
    <3>7. CASE b.start = s /\ b.at = t
      <4>1. CASE Skipped(s, t)
        BY <1>4, <3>3, <3>4, <3>7, <4>1 DEF N
      <4>2. CASE ~Skipped(s, t)
        <5>1. connections' = Append(connections, row)
          BY <1>4, <3>3, <3>7, <4>2
        <5> QED BY <1>3, <3>1, <3>2, <3>4, <3>5, <3>6, <3>7, <4>2, <5>1 DEF L, N
      <4> QED BY <4>1, <4>2
    <3>8. CASE ~(b.start = s /\ b.at = t)
      BY <1>3, <1>4, <3>1, <3>2, <3>4, <3>5, <3>6, <3>8 DEF L, N
    <3> QED BY <3>7, <3>8
  <2>2. /\ Terminals(BusbarSections)' = Terminals(BusbarSections) /\ WalkEnds' = WalkEnds
        /\ \A s, t : /\ Leading(s, t)' = Leading(s, t) /\ Naming(s, t)' = Naming(s, t)
                     /\ Wanted(s, t)' = Wanted(s, t) /\ Skipped(s, t)' = Skipped(s, t)
    BY SameGraph
  <2> QED BY <2>1, <2>2 DEF EachOnce, OneSite
<1>11. Graph'
  BY <1>1, SameGraph DEF Graph
<1> QED BY <1>7, <1>8, <1>9, <1>10, <1>11 DEF Inv

\* A branch that passes an equipment gives its place to those that follow.
LEMMA PassKeeps ==
    ASSUME Inv, todo # << >>, ~AtEnd(Head(todo)), Pass(Head(todo)),
           source' = source, left' = left, current' = current, stored' = stored
    PROVE  Inv'
<1> DEFINE b == Head(todo)  rest == Tail(todo)  next == After(b)  e == b.at.eq
<1>1. /\ source \in Sources /\ RingFree /\ Order /\ WalkSound /\ RowsThere /\ EachOnce
  BY DEF Inv, Graph
<1>2. /\ b \in Branches /\ BranchSound(b) /\ b.start.eq = current
      /\ {b.start} \cup ToSet(b.mids) \subseteq terminals
      /\ rest \in Seq(Sound)
      /\ \A i \in DOMAIN rest : /\ rest[i].start.eq = current
                                /\ {rest[i].start} \cup ToSet(rest[i].mids) \subseteq terminals
      /\ current \notin left /\ stored = << >>
  BY FirstBranch
<1>3. ~b.end /\ e \in Conducting
  <2>1. b.at \in Terminals(Equipment)
    BY <1>2 DEF Branches
  <2>2. e \in Equipment
    BY <1>1, <2>1, TerminalIs
  <2> QED BY <2>2 DEF AtEnd, Conducting
<1>4. /\ todo' = next \o rest /\ connections' = connections
      /\ terminals' = terminals
             \cup (IF Named(e) THEN {Whole(e)} ELSE {})
             \cup {OwnStubAt(e, NodeOf(next[i].at)) : i \in {j \in DOMAIN next : ~next[j].end /\
                      Tap(b, next[j].at, OtherStubs(NodeOf(next[j].at), e))}}
  BY DEF Pass, After
<1> HIDE DEF b, rest, next
<1>5. /\ next \in Seq(Branches)
      /\ \A p \in DOMAIN next :
            /\ BranchSound(next[p]) /\ next[p].start = b.start
            /\ ToSet(next[p].mids) \subseteq ToSet(b.mids)
                  \cup (IF Named(e) THEN {Whole(e)} ELSE {})
                  \cup (IF ~next[p].end /\ Tap(b, next[p].at, OtherStubs(NodeOf(next[p].at), e))
                        THEN {OwnStubAt(e, NodeOf(next[p].at))} ELSE {})
  BY <1>1, <1>2, <1>3, AfterSound DEF next
<1>6. next \in Seq(Sound) /\ \A p \in DOMAIN next : next[p] \in Branches
  <2>1. /\ Len(next) \in Nat /\ DOMAIN next = 1 .. Len(next) /\ \A p \in DOMAIN next : next[p] \in Branches
        /\ next = [p \in 1 .. Len(next) |-> next[p]]
    BY <1>5
  <2>2. \A p \in DOMAIN next : next[p] \in Sound
    BY <1>5, <2>1 DEF Sound
  <2> QED BY <2>1, <2>2
<1>7. \A p \in DOMAIN next : {next[p].start} \cup ToSet(next[p].mids) \subseteq terminals'
  <2> TAKE p \in DOMAIN next
  <2>1. CASE ~next[p].end /\ Tap(b, next[p].at, OtherStubs(NodeOf(next[p].at), e))
    <3>1. OwnStubAt(e, NodeOf(next[p].at)) \in terminals'
      BY <1>4, <2>1
    <3>2. ToSet(next[p].mids) \subseteq ToSet(b.mids) \cup (IF Named(e) THEN {Whole(e)} ELSE {})
                                           \cup {OwnStubAt(e, NodeOf(next[p].at))}
      BY <1>5, <2>1
    <3> QED BY <1>2, <1>4, <1>5, <3>1, <3>2
  <2>2. CASE ~(~next[p].end /\ Tap(b, next[p].at, OtherStubs(NodeOf(next[p].at), e)))
    <3>1. ToSet(next[p].mids) \subseteq ToSet(b.mids) \cup (IF Named(e) THEN {Whole(e)} ELSE {})
      BY <1>5, <2>2
    <3> QED BY <1>2, <1>4, <1>5, <3>1
  <2> QED BY <2>1, <2>2
<1>8. /\ todo' \in Seq(Sound)
      /\ \A i \in DOMAIN todo' : \/ \E j \in DOMAIN next : todo'[i] = next[j]
                                 \/ \E j \in DOMAIN rest : todo'[i] = rest[j]
  BY <1>2, <1>4, <1>6, PutBefore, SMTT(30)
<1>9. Order'
  <2>1. BusbarSections' = BusbarSections
    BY SameGraph
  <2>2. current \in BusbarSections \ left /\ \A x \in BusbarSections \ left : x <= current
    BY <1>1 DEF Order
  <2> QED BY <1>1, <2>1, <2>2 DEF Order
<1>10. WalkSound'
  <2>1. \A i \in DOMAIN todo' : todo'[i].start.eq = current
    BY <1>2, <1>5, <1>8
  <2>2. Sound' = Sound /\ SoundRows' = SoundRows
    BY SameGraph
  <2> QED BY <1>1, <1>4, <1>8, <2>1, <2>2 DEF WalkSound
<1>11. RowsThere'
  <2>1. terminals \subseteq terminals'
    BY <1>4
  <2>2. \A i \in DOMAIN todo' : {todo'[i].start} \cup ToSet(todo'[i].mids) \subseteq terminals'
    BY <1>2, <1>7, <1>8, <2>1
  <2>3. \A c \in ToSet(connections') : {c.source, c.target} \cup ToSet(c.mids) \subseteq terminals'
    BY <1>1, <1>4, <2>1 DEF RowsThere, Referenced
  <2>4. stored' = << >>
    BY <1>2
  <2> QED BY <2>2, <2>3, <2>4 DEF RowsThere, Referenced
<1>12. EachOnce'
  <2>1. ASSUME NEW s \in Terminals(BusbarSections), NEW t \in WalkEnds, s.eq \notin left
        PROVE  /\ Some(todo', Leading(s, t)) <=> Some(todo, Leading(s, t))
               /\ Once(todo, Leading(s, t)) => Once(todo', Leading(s, t))
    <3> DEFINE L == Leading(s, t)
    <3>1. /\ Leads(b, t) <=> \E p \in DOMAIN next : Leads(next[p], t)
          /\ \A p, q \in DOMAIN next : Leads(next[p], t) /\ Leads(next[q], t) => p = q
      BY <1>1, <1>2, <1>3, <2>1, AfterLeads DEF next
    <3>2. \A p \in DOMAIN next : next[p] \in L <=> b.start = s /\ Leads(next[p], t)
      BY <1>5, <1>6 DEF Leading
    <3>3. b \in L <=> b.start = s /\ Leads(b, t)
      BY <1>2 DEF Leading
    <3> HIDE DEF L
    <3>4. (b \in L <=> Some(next, L)) /\ Once(next, L)
      BY <3>1, <3>2, <3>3 DEF Some, Once
    <3>5. /\ Some(todo, L) <=> b \in L \/ Some(rest, L)
          /\ Once(todo, L) => Once(rest, L) /\ ~(b \in L /\ Some(rest, L))
      <4>1. todo \in Seq(Sound)
        BY <1>1 DEF WalkSound
      <4> QED BY <4>1, HeadGoes DEF b, rest
    <3>6. /\ Some(next \o rest, L) <=> Some(next, L) \/ Some(rest, L)
          /\ Once(next, L) /\ Once(rest, L) /\ ~(Some(next, L) /\ Some(rest, L)) => Once(next \o rest, L)
      BY <1>2, <1>6, PutBefore
    <3> QED BY <1>4, <3>4, <3>5, <3>6 DEF L
  <2>2. /\ Terminals(BusbarSections)' = Terminals(BusbarSections) /\ WalkEnds' = WalkEnds
        /\ \A s, t : /\ Leading(s, t)' = Leading(s, t) /\ Naming(s, t)' = Naming(s, t)
                     /\ Wanted(s, t)' = Wanted(s, t) /\ Skipped(s, t)' = Skipped(s, t)
    BY SameGraph
  <2> QED BY <1>1, <1>4, <2>1, <2>2 DEF EachOnce, OneSite
<1>13. Graph'
  BY <1>1, SameGraph DEF Graph
<1> QED BY <1>9, <1>10, <1>11, <1>12, <1>13 DEF Inv

\* What is written is complete.
LEMMA WriteTopologyKeeps == Inv /\ WriteTopology => Inv'
<1> SUFFICES ASSUME Inv, WriteTopology PROVE Inv'
  OBVIOUS
<1>1. /\ source' = source /\ left' = left /\ current' = current /\ todo' = todo
      /\ terminals' = terminals /\ connections' = connections
  BY DEF WriteTopology
<1>2. Graph /\ Order /\ WalkSound /\ RowsThere /\ EachOnce
  BY DEF Inv
<1>3. stored' = <<[terminals |-> terminals, connections |-> connections]>> /\ Done
  BY <1>2 DEF WriteTopology, RowsThere
<1>4. /\ BusbarSections' = BusbarSections /\ Graph' = Graph
      /\ Terminals(BusbarSections)' = Terminals(BusbarSections) /\ WalkEnds' = WalkEnds
      /\ Sound' = Sound /\ SoundRows' = SoundRows
      /\ \A s, t : /\ Leading(s, t)' = Leading(s, t) /\ Naming(s, t)' = Naming(s, t)
                   /\ Wanted(s, t)' = Wanted(s, t) /\ Skipped(s, t)' = Skipped(s, t)
  BY <1>1, SameGraph
<1>5. Order' /\ WalkSound'
  BY <1>1, <1>2, <1>4 DEF Order, WalkSound
<1>6. RowsThere'
  BY <1>1, <1>2, <1>3 DEF RowsThere, Done, Referenced
<1>7. EachOnce'
  BY <1>1, <1>2, <1>4 DEF EachOnce, OneSite
<1> QED BY <1>2, <1>4, <1>5, <1>6, <1>7 DEF Inv

\* Every step keeps the invariant.
LEMMA StepKeeps == Inv /\ [Next]_vars => Inv'
<1> SUFFICES ASSUME Inv, [Next]_vars PROVE Inv'
  OBVIOUS
<1>1. CASE WalkFromBusbar
  BY <1>1, WalkFromBusbarKeeps
<1>2. CASE Step
  <2>1. /\ todo # << >> /\ source' = source /\ left' = left /\ current' = current /\ stored' = stored
    BY <1>2 DEF Step
  <2>2. CASE AtEnd(Head(todo)) /\ Complete(Head(todo))
    BY <2>1, <2>2, CompleteKeeps
  <2>3. CASE ~AtEnd(Head(todo)) /\ Pass(Head(todo))
    BY <2>1, <2>3, PassKeeps
  <2> QED BY <1>2, <2>2, <2>3 DEF Step, AtEnd
<1>3. CASE WriteTopology
  BY <1>3, WriteTopologyKeeps
<1>4. CASE UNCHANGED vars
  <2>1. /\ source' = source /\ left' = left /\ current' = current /\ todo' = todo
        /\ terminals' = terminals /\ connections' = connections /\ stored' = stored
    BY <1>4 DEF vars
  <2>2. Graph /\ Order /\ WalkSound /\ RowsThere /\ EachOnce
    BY DEF Inv
  <2>3. /\ BusbarSections' = BusbarSections /\ Graph' = Graph
        /\ Terminals(BusbarSections)' = Terminals(BusbarSections) /\ WalkEnds' = WalkEnds
        /\ Sound' = Sound /\ SoundRows' = SoundRows
        /\ \A s, t : /\ Leading(s, t)' = Leading(s, t) /\ Naming(s, t)' = Naming(s, t)
                     /\ Wanted(s, t)' = Wanted(s, t) /\ Skipped(s, t)' = Skipped(s, t)
    BY <2>1, SameGraph
  <2>4. Order' /\ WalkSound'
    BY <2>1, <2>2, <2>3 DEF Order, WalkSound
  <2>5. RowsThere'
    BY <2>1, <2>2 DEF RowsThere, Done, Referenced
  <2>6. EachOnce'
    BY <2>1, <2>2, <2>3 DEF EachOnce, OneSite
  <2> QED BY <2>2, <2>3, <2>4, <2>5, <2>6 DEF Inv
<1> QED BY <1>1, <1>2, <1>3, <1>4 DEF Next

-----------------------------------------------------------------------------
(* The theorems.                                                            *)

\* Nothing is passed twice, no connection names a Terminal without a row, and what is
\* written is what was found.
LEMMA InvHolds == RingFreeSpec => []Inv
<1>1. RingFreeInit => Inv
  BY InitInv DEF RingFreeInit
<1>2. Inv /\ [Next]_vars => Inv'
  BY StepKeeps
<1> QED BY <1>1, <1>2, PTL DEF RingFreeSpec

\* Without a ring the recursion of step (internal/jag2nsc) passes nothing twice, and no
\* connection names a Terminal without a row, so writeTopology never gives up.
THEOREM TypeCorrect == RingFreeSpec => []TypeOK
<1>1. Inv => TypeOK
  <2> SUFFICES ASSUME Inv PROVE TypeOK
    OBVIOUS
  <2>1. \A i \in DOMAIN todo : IsInjective(todo[i].segs) /\ IsInjective(todo[i].mids)
    BY EntriesAre DEF BranchSound, Carries
  <2> QED BY <2>1 DEF TypeOK, Inv, RowsThere
<1> QED BY <1>1, InvHolds, PTL

\* When the walk is done, each end that is not skipped has one connection if it is wanted, and none otherwise.
LEMMA FoundOnce ==
    ASSUME Inv, Done, NEW s \in Terminals(BusbarSections), NEW t \in WalkEnds
    PROVE  /\ ~Skipped(s, t) /\ Wanted(s, t) =>
                \E i \in DOMAIN connections : connections[i].source = s /\ connections[i].target = t
           /\ \A i \in DOMAIN connections :
                 connections[i].source = s /\ connections[i].target = t => ~Skipped(s, t) /\ Wanted(s, t)
           /\ Cardinality({i \in DOMAIN connections : /\ connections[i].source = s
                                                      /\ connections[i].target = t}) =
                 IF ~Skipped(s, t) /\ Wanted(s, t) THEN 1 ELSE 0
<1> DEFINE N == Naming(s, t)
           found == {i \in DOMAIN connections : connections[i].source = s /\ connections[i].target = t}
<1>1. /\ todo = << >> /\ left = {} /\ EachOnce
      /\ \A i \in DOMAIN connections : connections[i] \in Rows
  BY EntriesAre DEF Inv, Done
<1>2. \A i \in DOMAIN connections : i \in found <=> connections[i] \in N
  BY <1>1 DEF Naming
<1>3. IF Skipped(s, t) THEN ~Some(connections, N)
      ELSE (Wanted(s, t) <=> Some(connections, N)) /\ Once(connections, N)
  <2>1. ~Some(todo, Leading(s, t))
    BY <1>1 DEF Some
  <2> QED BY <1>1, <2>1 DEF EachOnce, OneSite
<1>4. found \subseteq DOMAIN connections
  OBVIOUS
<1> HIDE DEF N
<1>5. found # {} <=> ~Skipped(s, t) /\ Wanted(s, t)
  <2> HIDE DEF found
  <2>1. found # {} <=> Some(connections, N)
    BY <1>2, <1>4 DEF Some
  <2> QED BY <1>3, <2>1
<1>6. CASE ~Skipped(s, t) /\ Wanted(s, t)
  <2>1. PICK i \in DOMAIN connections : i \in found
    BY <1>4, <1>5, <1>6
  <2>2. found = {i}
    <3> HIDE DEF found
    <3> QED BY <1>2, <1>3, <1>4, <1>6, <2>1 DEF Once
  <2>3. Cardinality(found) = 1
    BY <2>2, FS_Singleton
  <2> QED BY <1>6, <2>1, <2>3
<1>7. CASE ~(~Skipped(s, t) /\ Wanted(s, t))
  <2>1. found = {}
    BY <1>5, <1>7
  <2>2. Cardinality(found) = 0
    BY <2>1, FS_EmptySet
  <2> QED BY <1>7, <2>1, <2>2
<1> QED BY <1>6, <1>7

\* A Terminal of a busbar is where a walk may end, and busbars conduct nothing.
LEMMA BarEnds ==
    ASSUME source \in Sources, NEW s \in Terminals(BusbarSections)
    PROVE  /\ s \in WalkEnds /\ s.eq \in BusbarSections /\ s.eq \in Equipment /\ s.eq \in Nat
           /\ s.eq \notin Conducting /\ NodeOf(s) \in Nodes
<1>1. BusbarSections \in SUBSET Equipment /\ BusbarSections \cap Conducting = {} /\ Equipment \in SUBSET Nat
  BY EquipmentIs
<1>2. s.eq \in BusbarSections /\ NodeOf(s) \in Nodes
  BY <1>1, TerminalIs
<1>3. s \in StopTerminals
  BY <1>1 DEF StopTerminals, Terminals
<1> QED BY <1>1, <1>2, <1>3 DEF WalkEnds

\* A way from a busbar back to itself has a connection from either end.
LEMMA LoopFound ==
    ASSUME Inv, Done, NEW s \in Terminals(BusbarSections), NEW t \in Terminals(BusbarSections), Loop(s, t)
    PROVE  /\ \E i \in DOMAIN connections : connections[i].source = s /\ connections[i].target = t
           /\ Loop(t, s)
<1>1. source \in Sources
  BY EntriesAre
<1>2. s.eq = t.eq /\ s.eq \in Nat /\ NodeOf(s) # NodeOf(t) /\ t \in WalkEnds /\ NodeOf(s) \in Nodes
      /\ NodeOf(t) \in JoinedTo(NodeOf(s), Conducting)
  BY <1>1, BarEnds DEF Loop, Reaches
<1>3. ~Skipped(s, t) /\ Wanted(s, t)
  <2>1. ~(t.eq < s.eq)
    BY <1>2
  <2> QED BY <1>2, <2>1 DEF Skipped, Wanted
<1>4. NodeOf(s) \in JoinedTo(NodeOf(t), Conducting)
  <2>1. Conducting \in SUBSET Equipment
    BY <1>1, EquipmentIs
  <2> QED BY <1>1, <1>2, <2>1, JoinedIsMutual
<1> QED BY <1>2, <1>3, <1>4, FoundOnce DEF Loop, Reaches

\* In a network without rings BuildTopology (internal/jag2nsc) finds each way from a busbar
\* to an end of other equipment once, misses none back to itself, and names the equipment
\* on it and no other.
THEOREM ConnectionsAreTheWays == RingFreeSpec => []ConnectionsAreWays
<1>1. Inv => ConnectionsAreWays
  <2> SUFFICES ASSUME Inv, Done PROVE
           /\ \A s \in Terminals(BusbarSections), t \in WalkEnds :
                 s.eq # t.eq =>
                    Cardinality({i \in DOMAIN connections : /\ connections[i].source = s
                                                            /\ connections[i].target = t}) = Ways(s, t)
           /\ \A s, t \in Terminals(BusbarSections) :
                 Loop(s, t) => \E i \in DOMAIN connections :
                                  {connections[i].source, connections[i].target} = {s, t}
           /\ \A i \in DOMAIN connections :
                 LET c == connections[i]
                     without(e) == JoinedTo(NodeOf(c.source), Conducting \ {e})
                     onWay == {e \in Conducting : NodeOf(c.target) \notin without(e)}
                 IN  /\ c.source \in Terminals(BusbarSections) /\ Reaches(c.source, c.target)
                     /\ ToSet(c.segs) = {e \in onWay : Class(e) = "ACLineSegment"}
                     /\ {t \in ToSet(c.mids) : t.no = 0} = {Whole(e) : e \in {f \in onWay : Named(f)}}
                     /\ \A j, k \in DOMAIN c.segs :
                           j < k => ToSet(source.nodes[c.segs[k]]) \cap without(c.segs[j]) = {}
    BY DEF ConnectionsAreWays, WalkEnds
  <2>1. source \in Sources
    BY EntriesAre
  <2>2. ASSUME NEW s \in Terminals(BusbarSections), NEW t \in WalkEnds, s.eq # t.eq
        PROVE  Cardinality({i \in DOMAIN connections : /\ connections[i].source = s
                                                       /\ connections[i].target = t}) = Ways(s, t)
    <3>1. s.eq \in Nat /\ t.eq \in Equipment /\ t.eq \in Nat
      <4>1. Equipment \in SUBSET Nat
        BY <2>1, EquipmentIs
      <4> QED BY <2>1, <4>1, BarEnds, EndIs
    <3>2. t.eq \in BusbarSections <=> Class(t.eq) = "BusbarSection"
      BY <3>1 DEF BusbarSections
    <3>3. ~(t.eq < s.eq) <=> s.eq < t.eq
      BY <2>2, <3>1
    <3>4. Ways(s, t) = IF ~Skipped(s, t) /\ Wanted(s, t) THEN 1 ELSE 0
      BY <2>2, <3>2, <3>3 DEF Ways, Reaches, Skipped, Wanted
    <3> QED BY <3>4, FoundOnce
  <2>3. ASSUME NEW s \in Terminals(BusbarSections), NEW t \in Terminals(BusbarSections), Loop(s, t)
        PROVE  \E i \in DOMAIN connections : {connections[i].source, connections[i].target} = {s, t}
    <3>1. PICK i \in DOMAIN connections : connections[i].source = s /\ connections[i].target = t
      BY <2>1, <2>3, LoopFound
    <3> QED BY <3>1
  <2>4. ASSUME NEW i \in DOMAIN connections
        PROVE  LET c == connections[i]
                   without(e) == JoinedTo(NodeOf(c.source), Conducting \ {e})
                   onWay == {e \in Conducting : NodeOf(c.target) \notin without(e)}
               IN  /\ c.source \in Terminals(BusbarSections) /\ Reaches(c.source, c.target)
                   /\ ToSet(c.segs) = {e \in onWay : Class(e) = "ACLineSegment"}
                   /\ {t \in ToSet(c.mids) : t.no = 0} = {Whole(e) : e \in {f \in onWay : Named(f)}}
                   /\ \A j, k \in DOMAIN c.segs :
                         j < k => ToSet(source.nodes[c.segs[k]]) \cap without(c.segs[j]) = {}
    <3>1. /\ Carries(connections[i].segs, connections[i].mids,
                     NodeOf(connections[i].source), NodeOf(connections[i].target))
          /\ connections[i] \in Rows
          /\ NodeOf(connections[i].target) \in JoinedTo(NodeOf(connections[i].source), Conducting)
      BY EntriesAre
    <3>2. connections[i].source \in Terminals(BusbarSections)
      BY <3>1 DEF Rows
    <3> QED BY <3>1, <3>2 DEF Carries, OnWay, NodesOf, Reaches
  <2> QED BY <2>2, <2>3, <2>4
<1> QED BY <1>1, InvHolds, PTL

-----------------------------------------------------------------------------
(* Where the package comment of topology.go is wrong.                       *)

\* The package comment says that a walk between busbars found again from the other side is
\* counted once (topology.go:32). complete skips it only at a busbar that was done before:
\* the claim holds in the networks where no way leads from a busbar back to itself, and
\* fails in all others, where each such way has two connections.
THEOREM CountedOnceUnlessLoop ==
    RingFreeSpec => [](Done => (CountedOnce <=> ~\E s, t \in Terminals(BusbarSections) : Loop(s, t)))
<1>1. ASSUME Inv, Done, NEW s \in Terminals(BusbarSections), NEW t \in Terminals(BusbarSections), Loop(s, t)
      PROVE  ~CountedOnce
  <2>1. PICK i \in DOMAIN connections : connections[i].source = s /\ connections[i].target = t
    BY <1>1, LoopFound
  <2>2. PICK j \in DOMAIN connections : connections[j].source = t /\ connections[j].target = s
    BY <1>1, LoopFound
  <2>3. s # t
    BY <1>1 DEF Loop
  <2> QED BY <2>1, <2>2, <2>3 DEF CountedOnce
<1>2. ASSUME Inv, Done, NEW i \in DOMAIN connections, NEW j \in DOMAIN connections,
             connections[i].source = connections[j].target, connections[i].target = connections[j].source
      PROVE  \E s, t \in Terminals(BusbarSections) : Loop(s, t)
  <2> DEFINE s == connections[i].source  t == connections[i].target
  <2>1. s \in Terminals(BusbarSections) /\ t \in Terminals(BusbarSections) /\ source \in Sources
    BY <1>2, EntriesAre DEF Rows
  <2> HIDE DEF s, t
  <2>2. /\ s \in WalkEnds /\ s.eq \in BusbarSections /\ s.eq \in Nat
        /\ t \in WalkEnds /\ t.eq \in BusbarSections /\ t.eq \in Nat
    BY <2>1, BarEnds
  <2>3. ~Skipped(s, t) /\ Wanted(s, t)
    BY <1>2, <2>1, <2>2, FoundOnce DEF s, t
  <2>4. ~Skipped(t, s)
    BY <1>2, <2>1, <2>2, FoundOnce DEF s, t
  <2>5. s.eq = t.eq
    BY <2>2, <2>3, <2>4 DEF Skipped
  <2>6. Loop(s, t)
    BY <2>3, <2>5 DEF Wanted, Loop, Reaches
  <2> QED BY <2>1, <2>6
<1>3. Inv => (Done => (CountedOnce <=> ~\E s, t \in Terminals(BusbarSections) : Loop(s, t)))
  BY <1>1, <1>2 DEF CountedOnce
<1> QED BY <1>3, InvHolds, PTL

\* Equipment lies on the way between a busbar and an end where complete writes a row.
Between(e) == \E s \in Terminals(BusbarSections), t \in StopTerminals \cup DeadEnds :
                 Reaches(s, t) /\ NodeOf(t) \notin JoinedTo(NodeOf(s), Conducting \ {e})

\* The cables with a row are those between a busbar and an end with a row.
LEMMA CablesAre ==
    ASSUME Inv, Done, NEW e \in Conducting, Class(e) = "ACLineSegment"
    PROVE  (\E i \in DOMAIN connections : e \in ToSet(connections[i].segs)) <=> Between(e)
<1>1. source \in Sources /\ Conducting \in SUBSET Equipment /\ Conducting \ {e} \in SUBSET Equipment
  BY EntriesAre, EquipmentIs
<1>2. ASSUME NEW i \in DOMAIN connections
      PROVE  /\ connections[i].source \in Terminals(BusbarSections) /\ connections[i].target \in WalkEnds
             /\ Reaches(connections[i].source, connections[i].target)
             /\ e \in ToSet(connections[i].segs) <=>
                  NodeOf(connections[i].target) \notin JoinedTo(NodeOf(connections[i].source), Conducting \ {e})
  BY EntriesAre DEF Rows, Carries, OnWay, Reaches
<1>3. ASSUME NEW i \in DOMAIN connections, e \in ToSet(connections[i].segs) PROVE Between(e)
  BY <1>2, <1>3 DEF Between, WalkEnds
<1>4. ASSUME NEW s \in Terminals(BusbarSections), NEW t \in WalkEnds, Reaches(s, t), ~Skipped(s, t),
             NodeOf(t) \notin JoinedTo(NodeOf(s), Conducting \ {e})
      PROVE  \E i \in DOMAIN connections : e \in ToSet(connections[i].segs)
  <2>1. NodeOf(s) \in JoinedTo(NodeOf(s), Conducting \ {e})
    <3>1. NodeOf(s) \in Nodes
      BY <1>1, BarEnds
    <3> QED BY <1>1, <3>1, JoinedIs
  <2>2. Wanted(s, t)
    BY <1>4, <2>1 DEF Wanted, Reaches
  <2>3. PICK i \in DOMAIN connections : connections[i].source = s /\ connections[i].target = t
    BY <1>4, <2>2, FoundOnce
  <2> QED BY <1>2, <1>4, <2>3
<1>5. ASSUME NEW s \in Terminals(BusbarSections), NEW t \in WalkEnds, Reaches(s, t), Skipped(s, t),
             NodeOf(t) \notin JoinedTo(NodeOf(s), Conducting \ {e})
      PROVE  \E i \in DOMAIN connections : e \in ToSet(connections[i].segs)
  <2>1. /\ s \in WalkEnds /\ s.eq \in Nat /\ NodeOf(s) \in Nodes /\ t \in Terminals(Equipment)
        /\ NodeOf(t) \in Nodes /\ t.eq \in BusbarSections /\ t.eq < s.eq
    BY <1>1, <1>5, BarEnds, EndIs DEF Skipped
  <2>2. t \in Terminals(BusbarSections)
    BY <2>1 DEF Terminals, OwnTerminals, Terminal
  <2>3. ~Skipped(t, s)
    <3>1. t.eq \in Nat
      BY <1>1, <2>2, BarEnds
    <3> QED BY <2>1, <3>1 DEF Skipped
  <2>4. Reaches(t, s)
    BY <1>1, <1>5, <2>1, JoinedIsMutual DEF Reaches
  <2>5. NodeOf(s) \notin JoinedTo(NodeOf(t), Conducting \ {e})
    BY <1>1, <1>5, <2>1, JoinedIsMutual
  <2> QED BY <1>4, <2>1, <2>2, <2>3, <2>4, <2>5
<1> QED BY <1>3, <1>4, <1>5 DEF Between, WalkEnds

\* The package comment says that every cable on a walk contributes a row (topology.go:24).
\* completeDeadEnd drops a branch at equipment with one Terminal: the claim holds in the networks
\* where each cable joined to a busbar lies before another busbar, a transformer, what is in a
\* house, or an end of the line, and fails where one lies only before one-Terminal equipment.
THEOREM CablesContributeBetween ==
    RingFreeSpec => [](Done => (EveryCableContributes <=>
                                   \A e \in Conducting : Class(e) = "ACLineSegment" /\ Reached(e) => Between(e)))
<1>1. Inv => (Done => (EveryCableContributes <=>
                          \A e \in Conducting : Class(e) = "ACLineSegment" /\ Reached(e) => Between(e)))
  BY CablesAre DEF EveryCableContributes
<1> QED BY <1>1, InvHolds, PTL

-----------------------------------------------------------------------------
(* Why the walk ends.                                                       *)

\* How much a branch has passed, how many branches have passed d, and what is ahead of the walk: the
\* busbars to begin, and the branches, those that have passed less before those that have passed more.
Depth(b) == Cardinality(OnWay(NodeOf(b.start), NodeOf(b.at)))
Deepest == Cardinality(Conducting)
Deep(d) == {b \in Sound : Depth(b) = d}
Many(w, Q) == Cardinality({i \in DOMAIN w : w[i] \in Q})
Ahead == [d \in 0 .. Deepest + 1 |-> IF d = 0 THEN Cardinality(left) ELSE Many(todo, Deep(d - 1))]

\* Less comes before more: the first number in which the two differ decides.
Fewer(f, g) == \E d \in DOMAIN g : f[d] < g[d] /\ \A c \in DOMAIN g : c < d => f[c] = g[c]

\* A number that never grows stops somewhere.
LEMMA Settles ==
    ASSUME NEW f \in [Nat -> Nat], NEW N \in Nat, \A n \in Nat : n >= N => f[n + 1] <= f[n]
    PROVE  \E M \in Nat : M >= N /\ \A n \in Nat : n >= M => f[n + 1] = f[n]
<1> DEFINE V == {f[n] : n \in {n \in Nat : n >= N}}
<1>1. f[N] \in V /\ V \in SUBSET Nat
  OBVIOUS
<1>2. \A n \in Nat : n >= N => f[n] \in V
  OBVIOUS
<1>3. \A u \in V : \E n \in Nat : n >= N /\ f[n] = u
  OBVIOUS
<1> HIDE DEF V
<1>4. PICK v \in V : \A u \in V : v <= u
  BY <1>1, LeastExists
<1>5. PICK M \in Nat : M >= N /\ f[M] = v
  BY <1>3
<1>6. v \in Nat
  BY <1>1
<1> DEFINE Other == {x \in Nat : x >= M /\ f[x] # v}
<1>7. Other = {}
  <2> SUFFICES ASSUME Other # {} PROVE FALSE
    OBVIOUS
  <2>1. PICK x \in Other : \A y \in Other : x <= y
    BY LeastExists, Other \in SUBSET Nat
  <2>2. x \in Nat /\ x >= M /\ f[x] # v /\ \A y \in Nat : y >= M /\ f[y] # v => x <= y
    BY <2>1
  <2> HIDE DEF Other
  <2>3. x # M
    BY <1>5, <2>2
  <2>4. PICK y \in Nat : x = y + 1
    <3>1. x - 1 \in Nat /\ x = (x - 1) + 1
      BY <2>2, <2>3
    <3> QED BY <3>1
  <2>5. y >= M /\ y >= N /\ x >= N /\ ~(x <= y)
    BY <1>5, <2>2, <2>3, <2>4
  <2>6. f[y] = v /\ f[x] <= f[y]
    BY <2>2, <2>4, <2>5
  <2>7. v <= f[x] /\ f[x] \in Nat
    BY <1>2, <1>4, <2>2, <2>5
  <2> QED BY <1>6, <2>2, <2>6, <2>7
<1>8. ASSUME NEW n \in Nat, n >= M PROVE f[n + 1] = f[n]
  <2>1. n + 1 \in Nat /\ n + 1 >= M
    BY <1>8
  <2>2. n \notin Other /\ n + 1 \notin Other
    BY <1>7
  <2> QED BY <1>8, <2>1, <2>2
<1> QED BY <1>5, <1>8

\* The first number in which two lists of numbers differ, if one is fewer, is less.
LEMMA NoneBefore ==
    ASSUME NEW k \in Nat, NEW g, NEW h, \A c \in 0 .. k : g[c] \in Nat /\ h[c] \in Nat,
           \E x \in 0 .. k : g[x] < h[x] /\ \A c \in 0 .. k : c < x => g[c] = h[c],
           NEW d \in 0 .. k, \A c \in 0 .. k : c < d => g[c] = h[c]
    PROVE  g[d] <= h[d]
<1>1. PICK x \in 0 .. k : g[x] < h[x] /\ \A c \in 0 .. k : c < x => g[c] = h[c]
  OBVIOUS
<1>2. x \in Nat /\ d \in Nat /\ g[x] \in Nat /\ h[x] \in Nat /\ g[d] \in Nat /\ h[d] \in Nat
  OBVIOUS
<1>3. ~(x < d)
  <2> SUFFICES ASSUME x < d PROVE FALSE
    OBVIOUS
  <2>1. g[x] = h[x]
    OBVIOUS
  <2> QED BY <1>1, <1>2, <2>1
<1>4. CASE x = d
  BY <1>1, <1>2, <1>4
<1>5. CASE d < x
  <2>1. g[d] = h[d]
    BY <1>1, <1>5
  <2> QED BY <1>2, <2>1
<1> QED BY <1>2, <1>3, <1>4, <1>5

\* Numbers cannot become fewer for ever, however many the later ones become in a step.
LEMMA FewerEnds ==
    ASSUME NEW k \in Nat, NEW F \in [Nat -> [0 .. k -> Nat]]
    PROVE  \E n \in Nat : ~Fewer(F[n + 1], F[n])
<1> SUFFICES ASSUME \A n \in Nat : Fewer(F[n + 1], F[n]) PROVE FALSE
  OBVIOUS
<1> DEFINE Same(n, c) == F[n + 1][c] = F[n][c]
           Still(d) == \E N \in Nat : \A n \in Nat : n >= N => \A c \in 0 .. k : c < d => Same(n, c)
           Bad == {d \in 0 .. k + 1 : ~Still(d)}
<1>1. ASSUME NEW n \in Nat
      PROVE  /\ n + 1 \in Nat /\ \A c \in 0 .. k : F[n][c] \in Nat /\ F[n + 1][c] \in Nat
             /\ \E d \in 0 .. k : F[n + 1][d] < F[n][d] /\ \A c \in 0 .. k : c < d => Same(n, c)
  <2>1. n + 1 \in Nat /\ F[n] \in [0 .. k -> Nat] /\ F[n + 1] \in [0 .. k -> Nat]
    OBVIOUS
  <2>2. Fewer(F[n + 1], F[n]) /\ DOMAIN F[n] = 0 .. k
    BY <2>1
  <2> QED BY <2>1, <2>2 DEF Fewer
<1>2. ASSUME NEW d \in Nat, d + 1 \in 0 .. k + 1, Still(d) PROVE Still(d + 1)
  <2>1. PICK N \in Nat : \A n \in Nat : n >= N => \A c \in 0 .. k : c < d => Same(n, c)
    BY <1>2
  <2>2. d \in 0 .. k /\ \A c \in 0 .. k : c < d + 1 => c < d \/ c = d
    BY <1>2
  <2> DEFINE f == [n \in Nat |-> F[n][d]]
  <2>3. f \in [Nat -> Nat] /\ \A n \in Nat : f[n] = F[n][d] /\ f[n + 1] = F[n + 1][d]
    BY <1>1, <2>2
  <2>4. ASSUME NEW n \in Nat, n >= N PROVE F[n + 1][d] <= F[n][d]
    <3> DEFINE g == F[n + 1]  h == F[n]
    <3>1. /\ \A c \in 0 .. k : g[c] \in Nat /\ h[c] \in Nat
          /\ \E x \in 0 .. k : g[x] < h[x] /\ \A c \in 0 .. k : c < x => g[c] = h[c]
          /\ \A c \in 0 .. k : c < d => g[c] = h[c]
      BY <1>1, <2>1, <2>4
    <3> HIDE DEF g, h
    <3>2. g[d] <= h[d]
      BY <2>2, <3>1, NoneBefore
    <3> QED BY <3>2 DEF g, h
  <2> HIDE DEF f
  <2>5. PICK M \in Nat : M >= N /\ \A n \in Nat : n >= M => f[n + 1] = f[n]
    BY <2>3, <2>4, Settles
  <2>6. ASSUME NEW n \in Nat, n >= M, NEW c \in 0 .. k, c < d + 1 PROVE Same(n, c)
    <3>1. n >= N
      BY <2>5, <2>6
    <3>2. CASE c < d
      BY <2>1, <3>1, <3>2
    <3>3. CASE c = d
      BY <2>3, <2>5, <2>6, <3>3
    <3> QED BY <2>2, <2>6, <3>2, <3>3
  <2> HIDE DEF Same
  <2> QED BY <2>6
<1>3. Still(0)
  <2>1. \A n \in Nat : n >= 0 => \A c \in 0 .. k : c < 0 => Same(n, c)
    OBVIOUS
  <2> HIDE DEF Same
  <2> QED BY <2>1
<1> HIDE DEF Still
<1>4. Bad = {}
  <2> SUFFICES ASSUME Bad # {} PROVE FALSE
    OBVIOUS
  <2>1. PICK d \in Bad : \A c \in Bad : d <= c
    BY LeastExists, Bad \in SUBSET Nat
  <2>2. d \in 0 .. k + 1 /\ ~Still(d) /\ \A c \in 0 .. k + 1 : ~Still(c) => d <= c
    BY <2>1
  <2> HIDE DEF Bad
  <2>3. d # 0
    BY <1>3, <2>2
  <2>4. PICK c \in Nat : d = c + 1
    <3>1. d - 1 \in Nat /\ d = (d - 1) + 1
      BY <2>2, <2>3
    <3> QED BY <3>1
  <2>5. c \in 0 .. k + 1 /\ ~(d <= c)
    BY <2>2, <2>4
  <2> QED BY <1>2, <2>2, <2>4, <2>5
<1>5. Still(k + 1)
  <2>1. k + 1 \in 0 .. k + 1
    OBVIOUS
  <2> QED BY <1>4, <2>1
<1>6. PICK N \in Nat : \A n \in Nat : n >= N => \A c \in 0 .. k : c < k + 1 => Same(n, c)
  BY <1>5 DEF Still
<1>7. PICK d \in 0 .. k : F[N + 1][d] < F[N][d]
  BY <1>1
<1> DEFINE x == F[N + 1][d]  y == F[N][d]
<1>8. x = y /\ y \in Nat /\ x < y
  BY <1>1, <1>6, <1>7
<1> HIDE DEF x, y
<1> QED BY <1>8

\* How many entries of a list are in Q: without its first entry, and with other entries before it.
LEMMA ShiftedIs ==
    ASSUME NEW T \in SUBSET Nat, IsFiniteSet(T), NEW k \in Nat, NEW S,
           \A j \in T : j + k \in S, \A i \in S : \E j \in T : i = j + k
    PROVE  IsFiniteSet(S) /\ Cardinality(S) = Cardinality(T)
<1> DEFINE f == [j \in T |-> j + k]
<1>1. f \in [T -> S] /\ \A j \in T : f[j] = j + k
  OBVIOUS
<1> HIDE DEF f
<1>2. \A i \in S : \E j \in T : f[j] = i
  BY <1>1
<1>3. \A i, j \in T : f[i] = f[j] => i = j
  <2> TAKE i, j \in T
  <2>1. i \in Nat /\ j \in Nat /\ f[i] = i + k /\ f[j] = j + k
    BY <1>1
  <2> QED BY <2>1
<1>4. f \in Surjection(T, S) /\ f \in Injection(T, S)
  <2>1. f \in Surjection(T, S)
    BY <1>1, <1>2, Zenon DEF Surjection
  <2>2. f \in Injection(T, S)
    BY <1>1, <1>3, Zenon DEF Injection, IsInjective
  <2> QED BY <2>1, <2>2
<1>5. f \in Bijection(T, S)
  BY <1>4 DEF Bijection
<1>6. ExistsBijection(T, S)
  BY <1>5 DEF ExistsBijection
<1> QED BY <1>6, FS_Bijection

LEMMA ManyIs ==
    ASSUME NEW X, NEW w \in Seq(X), NEW Q
    PROVE  Many(w, Q) \in Nat /\ IsFiniteSet({i \in DOMAIN w : w[i] \in Q})
<1> DEFINE S == {i \in DOMAIN w : w[i] \in Q}
<1>1. DOMAIN w = 1 .. Len(w) /\ Len(w) \in Nat
  OBVIOUS
<1>2. IsFiniteSet(1 .. Len(w))
  BY <1>1, FS_Interval
<1>3. S \in SUBSET (1 .. Len(w))
  BY <1>1
<1> HIDE DEF S
<1>4. IsFiniteSet(S)
  BY <1>2, <1>3, FS_Subset
<1>5. Cardinality(S) \in Nat
  BY <1>4, FS_CardinalityType
<1> QED BY <1>4, <1>5 DEF S, Many

LEMMA ManyOfTail ==
    ASSUME NEW X, NEW w \in Seq(X), w # << >>, NEW Q
    PROVE  Many(w, Q) = IF Head(w) \in Q THEN Many(Tail(w), Q) + 1 ELSE Many(Tail(w), Q)
<1> DEFINE v == Tail(w)
           S == {i \in DOMAIN w : w[i] \in Q}
           T == {j \in DOMAIN v : v[j] \in Q}
<1>1. /\ v \in Seq(X) /\ 1 \in DOMAIN w /\ Head(w) = w[1] /\ DOMAIN v \subseteq Nat \ {0}
      /\ \A j \in DOMAIN v : j + 1 \in DOMAIN w /\ v[j] = w[j + 1]
      /\ \A i \in DOMAIN w : i # 1 => \E j \in DOMAIN v : i = j + 1
  <2>1. /\ v \in Seq(X) /\ Len(w) \in Nat /\ Len(w) > 0 /\ DOMAIN w = 1 .. Len(w) /\ DOMAIN v = 1 .. Len(w) - 1
        /\ Head(w) = w[1] /\ \A i \in 1 .. Len(w) - 1 : v[i] = w[i + 1]
    OBVIOUS
  <2> HIDE DEF v
  <2>2. \A i \in DOMAIN w : i # 1 => i - 1 \in DOMAIN v /\ i = (i - 1) + 1
    BY <2>1
  <2> QED BY <2>1, <2>2
<1> HIDE DEF v
<1>2. IsFiniteSet(S) /\ IsFiniteSet(T) /\ Many(w, Q) = Cardinality(S) /\ Many(v, Q) = Cardinality(T)
      /\ Cardinality(S) \in Nat
  BY <1>1, ManyIs DEF Many
<1>3. Cardinality(S \ {1}) = Cardinality(T)
  <2>1. T \in SUBSET Nat
    BY <1>1
  <2>2. \A j \in T : j + 1 \in S \ {1}
    <3> TAKE j \in T
    <3>1. j \in Nat /\ j # 0 /\ j + 1 \in DOMAIN w /\ w[j + 1] \in Q
      BY <1>1
    <3>2. j + 1 # 1
      BY <3>1
    <3> QED BY <3>1, <3>2
  <2>3. \A i \in S \ {1} : \E j \in T : i = j + 1
    BY <1>1
  <2> HIDE DEF S, T
  <2> QED BY <1>2, <2>1, <2>2, <2>3, ShiftedIs
<1>4. 1 \in S <=> Head(w) \in Q
  BY <1>1
<1> HIDE DEF S, T
<1>5. Cardinality(S \ {1}) = IF 1 \in S THEN Cardinality(S) - 1 ELSE Cardinality(S)
  BY <1>2, FS_RemoveElement
<1> QED BY <1>2, <1>3, <1>4, <1>5 DEF v

LEMMA ManyBefore ==
    ASSUME NEW X, NEW v \in Seq(X), NEW w \in Seq(X), NEW Q, ~Some(v, Q)
    PROVE  Many(v \o w, Q) = Many(w, Q)
<1> DEFINE u == v \o w  n == Len(v)  m == Len(w)
           S == {i \in DOMAIN u : u[i] \in Q}
           T == {j \in DOMAIN w : w[j] \in Q}
<1>1. /\ u \in Seq(X) /\ n \in Nat /\ m \in Nat /\ DOMAIN v = 1 .. n /\ DOMAIN w = 1 .. m /\ DOMAIN u = 1 .. n + m
      /\ \A i \in 1 .. n + m : u[i] = IF i <= n THEN v[i] ELSE w[i - n]
  OBVIOUS
<1> HIDE DEF u, n, m
<1>2. \A j \in T : j + n \in S
  <2> TAKE j \in T
  <2>1. j \in DOMAIN w /\ w[j] \in Q
    OBVIOUS
  <2>2. j + n \in 1 .. n + m /\ ~(j + n <= n) /\ j + n - n = j
    BY <1>1, <2>1
  <2> QED BY <1>1, <2>1, <2>2
<1>3. \A i \in S : \E j \in T : i = j + n
  <2> TAKE i \in S
  <2>1. i \in 1 .. n + m /\ u[i] \in Q
    BY <1>1
  <2>2. ~(i <= n)
    BY <1>1, <2>1 DEF Some
  <2>3. i - n \in DOMAIN w /\ i = (i - n) + n /\ u[i] = w[i - n]
    BY <1>1, <2>1, <2>2
  <2> QED BY <2>1, <2>3
<1>4. T \in SUBSET Nat
  BY <1>1
<1>5. IsFiniteSet(T) /\ Many(w, Q) = Cardinality(T) /\ Many(u, Q) = Cardinality(S)
  BY ManyIs DEF Many
<1> HIDE DEF S, T
<1>6. Cardinality(S) = Cardinality(T)
  BY <1>1, <1>2, <1>3, <1>4, <1>5, ShiftedIs
<1> QED BY <1>5, <1>6 DEF u

\* A branch has passed some of the conducting equipment; what a pass makes of it has passed one more.
LEMMA DepthIs ==
    ASSUME source \in Sources, NEW b \in Sound
    PROVE  Depth(b) \in 0 .. Deepest /\ Deepest \in Nat
<1> DEFINE W == OnWay(NodeOf(b.start), NodeOf(b.at))
<1>1. IsFiniteSet(Conducting)
  BY EquipmentIs, FS_Subset
<1>2. W \in SUBSET Conducting
  BY DEF OnWay
<1> HIDE DEF W
<1>3. Cardinality(W) \in Nat /\ Cardinality(W) <= Cardinality(Conducting) /\ Cardinality(Conducting) \in Nat
  BY <1>1, <1>2, FS_Subset, FS_CardinalityType
<1> QED BY <1>3 DEF W, Depth, Deepest

\* An entry of a joined list is an entry of one of the lists.
LEMMA StandsFor ==
    ASSUME NEW at, NEW w, NEW ss, NEW n, Stands(at, w, ss, n), NEW p \in DOMAIN w
    PROVE  \E i \in 1 .. n : \E k \in DOMAIN ss[i] : w[p] = ss[i][k]
<1>1. at[p][1] \in 1 .. n /\ at[p][2] \in DOMAIN ss[at[p][1]] /\ w[p] = ss[at[p][1]][at[p][2]]
  BY DEF Stands
<1> QED BY <1>1, Zenon

\* What a pass makes of a branch has passed one more of the conducting equipment.
LEMMA AfterIsDeeper ==
    ASSUME source \in Sources, RingFree, NEW b \in Sound, ~b.end, b.at.eq \in Conducting
    PROVE  /\ After(b) \in Seq(Sound)
           /\ \A p \in DOMAIN After(b) : Depth(After(b)[p]) = Depth(b) + 1
<1> DEFINE e == b.at.eq  s == NodeOf(b.start)  m == NodeOf(b.at)
           N == OtherNodes(b.at)
           ss == [i \in DOMAIN N |-> Onward(Passed(b), N[i])]
<1>1. /\ b \in Branches /\ BranchSound(b) /\ m \in JoinedTo(s, Conducting \ {e})
      /\ b.at \in Terminals(Equipment) /\ b.start \in Terminals(BusbarSections)
  BY DEF Sound, BranchSound, Branches
<1>2. /\ s \in Nodes /\ b.at.no \in DOMAIN source.nodes[e] /\ m = source.nodes[e][b.at.no]
  <2>1. BusbarSections \in SUBSET Equipment
    BY EquipmentIs
  <2>2. s \in Nodes
    BY <1>1, <2>1, TerminalIs
  <2>3. b.at.no \in DOMAIN source.nodes[e]
    BY <1>1, TerminalIs
  <2> QED BY <2>2, <2>3 DEF NodeOf
<1>3. /\ After(b) \in Seq(Branches) /\ DOMAIN N = 1 .. Len(ss)
      /\ \A p \in DOMAIN After(b) : BranchSound(After(b)[p]) /\ After(b)[p].start = b.start
  BY <1>1, AfterIs, AfterSound
<1>4. After(b) \in Seq(Sound)
  <2> DEFINE next == After(b)
  <2> HIDE DEF next
  <2>1. /\ Len(next) \in Nat /\ DOMAIN next = 1 .. Len(next) /\ \A p \in DOMAIN next : next[p] \in Branches
        /\ next = [p \in 1 .. Len(next) |-> next[p]]
    BY <1>3 DEF next
  <2>2. \A p \in DOMAIN next : next[p] \in Sound
    BY <1>3, <2>1 DEF Sound, next
  <2>3. next \in Seq(Sound)
    BY <2>1, <2>2
  <2> QED BY <2>3 DEF next
<1>5. PICK at : Stands(at, After(b), ss, Len(ss))
  BY <1>1, AfterIs
<1>6. ASSUME NEW p \in DOMAIN After(b) PROVE Depth(After(b)[p]) = Depth(b) + 1
  <2> DEFINE c == After(b)[p]
  <2>1. PICK i \in DOMAIN N : \E k \in DOMAIN ss[i] : c = ss[i][k]
    <3> DEFINE next == After(b)  D == DOMAIN N
    <3> HIDE DEF ss, next, D
    <3>1. p \in DOMAIN next /\ D = 1 .. Len(ss) /\ Stands(at, next, ss, Len(ss))
      BY <1>3, <1>5 DEF next, D
    <3>2. \E i \in D : \E k \in DOMAIN ss[i] : next[p] = ss[i][k]
      BY <3>1, StandsFor
    <3> QED BY <3>2 DEF next, D
  <2> DEFINE n == N[i]  w == Onward(Passed(b), n)
  <2>2. PICK k \in DOMAIN w : c = w[k]
    BY <2>1
  <2>3. /\ Side(b.at, i) \in DOMAIN source.nodes[e] /\ Side(b.at, i) # b.at.no
        /\ n = source.nodes[e][Side(b.at, i)]
    BY <1>1, SidesAre
  <2>4. n \in NodesOf(e)
    BY <1>1, AfterIs
  <2>5. NodeOf(c.at) = n
    <3>1. \A l \in DOMAIN w : Follows(w[l], b, n)
      BY <1>1, <2>4, OnwardIs
    <3> HIDE DEF w, c, n
    <3> QED BY <2>2, <3>1 DEF Follows
  <2>6. e \notin OnWay(s, m) /\ OnWay(s, n) = OnWay(s, m) \cup {e}
    <3>1. e \in Conducting /\ source.nodes[e][b.at.no] \in JoinedTo(s, Conducting \ {e})
      BY <1>1, <1>2
    <3> HIDE DEF e, s, m, n
    <3> QED BY <1>2, <2>3, <3>1, PassAdds
  <2>7. IsFiniteSet(OnWay(s, m))
    <3>1. IsFiniteSet(Conducting) /\ OnWay(s, m) \in SUBSET Conducting
      BY EquipmentIs, FS_Subset DEF OnWay
    <3> QED BY <3>1, FS_Subset
  <2>8. Cardinality(OnWay(s, m) \cup {e}) = Cardinality(OnWay(s, m)) + 1
    BY <2>6, <2>7, FS_AddElement
  <2> QED BY <1>3, <2>5, <2>6, <2>8 DEF Depth
<1> QED BY <1>4, <1>6

LEMMA SameDepth ==
    ASSUME source' = source
    PROVE  Deepest' = Deepest /\ \A d : Deep(d)' = Deep(d)
<1>1. Conducting' = Conducting /\ Sound' = Sound /\ \A t : NodeOf(t)' = NodeOf(t)
      /\ \A s, m : OnWay(s, m)' = OnWay(s, m)
  BY SameGraph
<1>2. \A b : Depth(b)' = Depth(b)
  BY <1>1 DEF Depth
<1> QED BY <1>1, <1>2 DEF Deep, Deepest

\* What is ahead is a list of numbers.
LEMMA AheadIs ==
    ASSUME Inv
    PROVE  /\ Deepest \in Nat /\ IsFiniteSet(left) /\ Cardinality(left) \in Nat
           /\ Ahead \in [0 .. Deepest + 1 -> Nat]
<1>1. source \in Sources /\ left \subseteq BusbarSections /\ todo \in Seq(Sound)
  BY DEF Inv, Graph, Order, WalkSound
<1>2. IsFiniteSet(Conducting) /\ IsFiniteSet(left)
  BY <1>1, EquipmentIs, FS_Subset
<1>3. Deepest \in Nat /\ Cardinality(left) \in Nat
  BY <1>2, FS_CardinalityType DEF Deepest
<1>4. \A d : Many(todo, Deep(d)) \in Nat
  BY <1>1, ManyIs
<1> QED BY <1>2, <1>3, <1>4 DEF Ahead

\* Of a list that loses its first entry and gains deeper ones before it, fewer are as deep as that entry,
\* and as many are less deep.
LEMMA HeadIsPassed ==
    ASSUME source \in Sources, NEW w \in Seq(Sound), w # << >>, NEW next \in Seq(Sound),
           \A p \in DOMAIN next : Depth(next[p]) = Depth(Head(w)) + 1
    PROVE  LET d == Depth(Head(w))
           IN  /\ d \in 0 .. Deepest
               /\ Many(next \o Tail(w), Deep(d)) < Many(w, Deep(d))
               /\ \A c \in Nat : c < d => Many(next \o Tail(w), Deep(c)) = Many(w, Deep(c))
<1> DEFINE b == Head(w)  rest == Tail(w)  d == Depth(b)
<1>1. b \in Sound /\ rest \in Seq(Sound)
  OBVIOUS
<1> HIDE DEF b, rest
<1>2. d \in 0 .. Deepest /\ d \in Nat
  BY <1>1, DepthIs
<1>3. ASSUME NEW c \in Nat, c <= d PROVE Many(next \o rest, Deep(c)) = Many(rest, Deep(c))
  <2>1. \A p \in DOMAIN next : Depth(next[p]) = d + 1
    BY DEF b
  <2> HIDE DEF d
  <2>2. c # d + 1
    BY <1>2, <1>3
  <2>3. ~Some(next, Deep(c))
    BY <2>1, <2>2 DEF Some, Deep
  <2> QED BY <1>1, <2>3, ManyBefore
<1>4. ASSUME NEW c \in Nat
      PROVE  /\ Many(w, Deep(c)) = IF b \in Deep(c) THEN Many(rest, Deep(c)) + 1 ELSE Many(rest, Deep(c))
             /\ Many(rest, Deep(c)) \in Nat
  BY <1>1, ManyOfTail, ManyIs DEF b, rest
<1>5. b \in Deep(d) /\ \A c \in Nat : c < d => b \notin Deep(c)
  BY <1>1, <1>2 DEF Deep
<1>6. Many(next \o rest, Deep(d)) < Many(w, Deep(d))
  <2> HIDE DEF d
  <2>1. Many(next \o rest, Deep(d)) = Many(rest, Deep(d)) /\ Many(w, Deep(d)) = Many(rest, Deep(d)) + 1
        /\ Many(rest, Deep(d)) \in Nat
    BY <1>2, <1>3, <1>4, <1>5
  <2> QED BY <2>1
<1>7. \A c \in Nat : c < d => Many(next \o rest, Deep(c)) = Many(w, Deep(c))
  <2> HIDE DEF d
  <2> QED BY <1>2, <1>3, <1>4, <1>5
<1> QED BY <1>2, <1>6, <1>7 DEF b, rest, d

\* A step of the walk leaves fewer ahead; to write what was found leaves it as it is.
Advances == /\ WalkFromBusbar \/ Step => Fewer(Ahead', Ahead)
            /\ WriteTopology => UNCHANGED Ahead
            /\ UNCHANGED Deepest

LEMMA StepAdvances == Inv /\ [Next]_vars => [Advances]_vars
<1> SUFFICES ASSUME Inv, Next PROVE Advances
  BY DEF vars
<1>1. source \in Sources /\ RingFree /\ left \subseteq BusbarSections /\ todo \in Seq(Sound)
  BY DEF Inv, Graph, Order, WalkSound
<1>2. source' = source
  BY DEF Next, WalkFromBusbar, Step, WriteTopology
<1>3. Deepest' = Deepest /\ \A d : Deep(d)' = Deep(d)
  BY <1>2, SameDepth
<1>4. Deepest \in Nat /\ IsFiniteSet(left) /\ Cardinality(left) \in Nat
  BY AheadIs
<1>5. /\ Ahead = [d \in 0 .. Deepest + 1 |-> IF d = 0 THEN Cardinality(left) ELSE Many(todo, Deep(d - 1))]
      /\ Ahead' = [d \in 0 .. Deepest + 1 |-> IF d = 0 THEN Cardinality(left') ELSE Many(todo', Deep(d - 1))]
  BY <1>3 DEF Ahead
<1>6. ASSUME WalkFromBusbar PROVE Fewer(Ahead', Ahead)
  <2>1. left' = left \ {Min(left)} /\ left # {}
    BY <1>6 DEF WalkFromBusbar
  <2>2. left \in SUBSET Nat
    BY <1>1, EquipmentIs
  <2>3. Min(left) \in left
    BY <2>1, <2>2, MinIs
  <2>4. Cardinality(left') = Cardinality(left) - 1
    BY <1>4, <2>1, <2>3, FS_RemoveElement
  <2>5. 0 \in DOMAIN Ahead /\ Ahead'[0] < Ahead[0] /\ \A c \in DOMAIN Ahead : ~(c < 0)
    BY <1>4, <1>5, <2>4
  <2> QED BY <2>5 DEF Fewer
<1>7. ASSUME Step PROVE Fewer(Ahead', Ahead)
  <2> DEFINE b == Head(todo)  rest == Tail(todo)
  <2>1. todo # << >> /\ left' = left
    BY <1>7 DEF Step
  <2>2. PICK next \in Seq(Sound) : /\ todo' = next \o rest
                                   /\ \A p \in DOMAIN next : Depth(next[p]) = Depth(b) + 1
    <3>1. b \in Sound /\ rest \in Seq(Sound)
      BY <1>1, <2>1
    <3>2. CASE AtEnd(b)
      <4>1. todo' = rest
        BY <1>7, <3>2 DEF Step, AtEnd, Complete
      <4>2. << >> \in Seq(Sound) /\ << >> \o rest = rest /\ DOMAIN << >> = {}
        BY <3>1
      <4> HIDE DEF b, rest
      <4> QED BY <4>1, <4>2
    <3>3. CASE ~AtEnd(b)
      <4>1. todo' = After(b) \o rest
        BY <1>7, <3>3 DEF Step, AtEnd, Pass, After
      <4>2. ~b.end /\ b.at.eq \in Conducting
        <5>1. b.at \in Terminals(Equipment)
          BY <3>1 DEF Sound, Branches
        <5>2. b.at.eq \in Equipment
          BY <1>1, <5>1, TerminalIs
        <5> QED BY <3>3, <5>2 DEF AtEnd, Conducting
      <4> HIDE DEF b, rest
      <4>3. After(b) \in Seq(Sound) /\ \A p \in DOMAIN After(b) : Depth(After(b)[p]) = Depth(b) + 1
        BY <1>1, <3>1, <4>2, AfterIsDeeper
      <4> QED BY <4>1, <4>3
    <3> QED BY <3>2, <3>3
  <2> DEFINE d == Depth(b)
  <2>3. /\ d \in 0 .. Deepest /\ Many(todo', Deep(d)) < Many(todo, Deep(d))
        /\ \A c \in Nat : c < d => Many(todo', Deep(c)) = Many(todo, Deep(c))
    BY <1>1, <2>1, <2>2, HeadIsPassed
  <2> HIDE DEF d
  <2>4. d + 1 \in 0 .. Deepest + 1 /\ d + 1 # 0 /\ d + 1 - 1 = d
    BY <1>4, <2>3
  <2>5. Ahead'[d + 1] < Ahead[d + 1]
    BY <1>5, <2>3, <2>4
  <2>6. ASSUME NEW c \in 0 .. Deepest + 1, c < d + 1 PROVE Ahead'[c] = Ahead[c]
    <3>1. CASE c = 0
      BY <1>5, <2>1, <3>1
    <3>2. CASE c # 0
      <4>1. c - 1 \in Nat /\ c - 1 < d
        BY <1>4, <2>3, <2>6, <3>2
      <4> QED BY <1>5, <2>3, <3>2, <4>1
    <3> QED BY <3>1, <3>2
  <2>7. DOMAIN Ahead = 0 .. Deepest + 1
    BY <1>5
  <2> QED BY <2>4, <2>5, <2>6, <2>7 DEF Fewer
<1>8. ASSUME WriteTopology PROVE UNCHANGED Ahead
  <2>1. left' = left /\ todo' = todo
    BY <1>8 DEF WriteTopology
  <2> QED BY <1>5, <2>1
<1> QED BY <1>3, <1>6, <1>7, <1>8 DEF Advances

\* Every step of the recursion of step (internal/jag2nsc) leaves fewer ahead, though it keeps no set of what it
\* visited and a branch may become many: in a network without rings, each of those has passed one more.
THEOREM EveryStepCounts == RingFreeSpec => [][Advances]_vars
<1> QED BY StepAdvances, InvHolds, PTL DEF RingFreeSpec

\* What is ahead is a list of numbers, as long as the network has conducting equipment, so by FewerEnds the
\* walk is done after finitely many steps.
THEOREM AheadIsNumbers == RingFreeSpec => [](Ahead \in [0 .. Deepest + 1 -> Nat])
<1> QED BY AheadIs, InvHolds, PTL
=============================================================================
