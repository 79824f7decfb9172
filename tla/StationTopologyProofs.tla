------------------------ MODULE StationTopologyProofs ------------------------
(* Proofs about StationTopology and UseCases, for any source: the batch walk  *)
(* finds the containers of the whole scan, how stations are batched does not  *)
(* show, the merges unify the busbars and nothing else, and groups and        *)
(* circuits are the paths of the switching state.                             *)
EXTENDS UseCases, FiniteSetTheorems, FunctionTheorems, WellFoundedInduction, TLAPS

-----------------------------------------------------------------------------
(* Least numbers, and the induction they give.                              *)

\* A set of naturals has a least one.
LEMMA LeastExists ==
    ASSUME NEW S \in SUBSET Nat, S # {}
    PROVE  \E x \in S : \A y \in S : x <= y
<1>1. IsWellFoundedOn(OpToRel(<, Nat), Nat)
  BY NatLessThanWellFounded
<1>2. PICK x \in S : \A y \in S : ~(<<y, x>> \in OpToRel(<, Nat))
  BY <1>1, WFMin
<1>3. \A y \in S : ~(<<y, x>> \in {p \in Nat \X Nat : p[1] < p[2]})
  BY <1>2 DEF OpToRel
<1>4. ASSUME NEW y \in S, y < x PROVE FALSE
  <2> DEFINE p == <<y, x>>
  <2>1. p \in Nat \X Nat /\ p[1] = y /\ p[2] = x
    OBVIOUS
  <2>2. p[1] < p[2]
    BY <1>4, <2>1
  <2>3. p \notin {q \in Nat \X Nat : q[1] < q[2]}
    BY <1>3
  <2> HIDE DEF p
  <2> QED BY <2>1, <2>2, <2>3
<1>5. \A y \in S : x \in Nat /\ y \in Nat /\ ~(y < x)
  BY <1>4
<1> QED BY <1>5

\* Min names it, and nothing else is it.
LEMMA MinIs ==
    ASSUME NEW S \in SUBSET Nat, S # {}
    PROVE  /\ Min(S) \in S /\ Min(S) \in Nat
           /\ \A y \in S : Min(S) <= y
           /\ \A x \in S : (\A y \in S : x <= y) => x = Min(S)
<1>1. Min(S) \in S /\ \A y \in S : Min(S) <= y
  BY LeastExists DEF Min
<1>2. ASSUME NEW x \in S, \A y \in S : x <= y PROVE x = Min(S)
  <2>1. x <= Min(S) /\ Min(S) <= x /\ x \in Nat /\ Min(S) \in Nat
    BY <1>1, <1>2
  <2> QED BY <2>1
<1> QED BY <1>1, <1>2

-----------------------------------------------------------------------------
(* Finite sets.                                                             *)

\* SetToSeq lists each member of a finite set, and nothing else.
LEMMA SetToSeqLists ==
    ASSUME NEW S, IsFiniteSet(S)
    PROVE  /\ Len(SetToSeq(S)) \in Nat
           /\ DOMAIN SetToSeq(S) = 1 .. Len(SetToSeq(S))
           /\ SetToSeq(S) \in Seq(S)
           /\ ToSet(SetToSeq(S)) = S
<1> DEFINE n == Cardinality(S)
<1>1. n \in Nat /\ ExistsBijection(1..n, S)
  BY FS_CardinalityType
<1>2. \E f \in [1..n -> S] : IsInjective(f)
  BY <1>1 DEF ExistsBijection, Bijection, Injection, IsInjective
<1>3. SetToSeq(S) \in [1..n -> S] /\ IsInjective(SetToSeq(S))
  BY <1>2 DEF SetToSeq
<1>4. SetToSeq(S) \in Injection(1..n, S)
  BY <1>3 DEF Injection, IsInjective
<1>5. Cardinality(1..n) = n
  BY <1>1, FS_Interval
<1>6. SetToSeq(S) \in Surjection(1..n, S)
  BY <1>4, <1>5, FS_Injection
<1>7. ToSet(SetToSeq(S)) = S
  BY <1>3, <1>6 DEF Surjection, ToSet
<1>8. SetToSeq(S) \in Seq(S) /\ Len(SetToSeq(S)) = n
  BY <1>1, <1>3
<1> QED BY <1>1, <1>3, <1>7, <1>8

\* What a function makes of a finite set is finite.
LEMMA ImageFinite ==
    ASSUME NEW f, IsFiniteSet(DOMAIN f)
    PROVE  IsFiniteSet({f[x] : x \in DOMAIN f})
<1> DEFINE T == {f[x] : x \in DOMAIN f}  g == [x \in DOMAIN f |-> f[x]]
<1>1. g \in Surjection(DOMAIN f, T)
  BY DEF Surjection
<1> QED BY <1>1, FS_Surjection

-----------------------------------------------------------------------------
(* Steps repeated: union after union, round after round.                    *)

\* A repeated step has the function that records it.
Records(f, n, x, step) == f[0] = x /\ \A k \in 1 .. n : f[k] = step[k][f[k - 1]]
LEMMA StepsExist ==
    ASSUME NEW n \in Nat, NEW X, NEW x \in X, NEW step \in [1 .. n -> [X -> X]]
    PROVE  \E f \in [0 .. n -> X] : Records(f, n, x, step)
<1> DEFINE Bad == {m \in 0 .. n : ~\E f \in [0 .. m -> X] : Records(f, m, x, step)}
<1>1. Bad = {}
  <2> SUFFICES ASSUME Bad # {} PROVE FALSE
    OBVIOUS
  <2>1. PICK m \in Bad : \A k \in Bad : m <= k
    BY LeastExists, Bad \in SUBSET Nat
  <2>2. CASE m = 0
    <3> DEFINE g == [k \in 0 .. 0 |-> x]
    <3>1. g \in [0 .. 0 -> X] /\ Records(g, 0, x, step)
      BY DEF Records
    <3> QED BY <2>1, <2>2, <3>1
  <2>3. CASE m # 0
    <3>1. m \in 1 .. n /\ m - 1 \in 0 .. n /\ ~(m <= m - 1)
      BY <2>1, <2>3
    <3>2. PICK f \in [0 .. m - 1 -> X] : Records(f, m - 1, x, step)
      BY <2>1, <3>1
    <3> DEFINE g == [k \in 0 .. m |-> IF k = m THEN step[m][f[m - 1]] ELSE f[k]]
    <3>3. f[m - 1] \in X /\ step[m] \in [X -> X]
      BY <3>1, <3>2
    <3>4. g \in [0 .. m -> X] /\ g[0] = x
      BY <3>1, <3>2, <3>3 DEF Records
    <3>5. ASSUME NEW k \in 1 .. m PROVE g[k] = step[k][g[k - 1]]
      <4>1. k - 1 \in 0 .. m /\ k - 1 # m /\ k \in 0 .. m /\ g[k - 1] = f[k - 1]
        BY <3>1
      <4>2. CASE k = m
        BY <4>1, <4>2
      <4>3. CASE k # m
        <5>1. k \in 1 .. (m - 1) /\ g[k] = f[k]
          BY <3>1, <4>1, <4>3
        <5> QED BY <3>2, <4>1, <5>1 DEF Records
      <4> QED BY <4>2, <4>3
    <3>6. Records(g, m, x, step)
      BY <3>4, <3>5 DEF Records
    <3> HIDE DEF g
    <3> QED BY <2>1, <3>4, <3>6
  <2> QED BY <2>2, <2>3
<1> QED BY <1>1, n \in 0 .. n

\* It stays among the values the step keeps it in.
StepsIn(X, f, n, x, step) == f[0] = x /\ \A k \in 1 .. n : f[k - 1] \in X => f[k] = step[k][f[k - 1]]
LEMMA StepsStay ==
    ASSUME NEW n \in Nat, NEW X, NEW x \in X, NEW step \in [1 .. n -> [X -> X]],
           NEW f, StepsIn(X, f, n, x, step)
    PROVE  Records(f, n, x, step) /\ \A k \in 0 .. n : f[k] \in X
<1> DEFINE Bad == {k \in 0 .. n : f[k] \notin X}
<1>1. Bad = {}
  <2> SUFFICES ASSUME Bad # {} PROVE FALSE
    OBVIOUS
  <2>1. PICK m \in Bad : \A k \in Bad : m <= k
    BY LeastExists, Bad \in SUBSET Nat
  <2>2. m \in 1 .. n /\ m - 1 \in 0 .. n /\ ~(m <= m - 1)
    BY <2>1 DEF StepsIn
  <2>3. f[m - 1] \in X /\ step[m] \in [X -> X]
    BY <2>1, <2>2
  <2> QED BY <2>1, <2>2, <2>3 DEF StepsIn
<1>2. \A k \in 1 .. n : k - 1 \in 0 .. n
  OBVIOUS
<1> QED BY <1>1, <1>2 DEF Records, StepsIn

\* Sets that only grow, in a finite one: after as many rounds as that has members, one
\* more adds nothing, and what is there is in every set the step does not leave.
Widens(step, U) == step \in [SUBSET U -> SUBSET U] /\ \A S \in SUBSET U : S \subseteq step[S]
Rounds(f, n, U, x, step) == f \in [0 .. n -> SUBSET U] /\ f[0] = x /\ \A k \in 1 .. n : f[k] = step[f[k - 1]]
Leaves(step, U, S) == \E T \in SUBSET U : T \subseteq S /\ ~(step[T] \subseteq S)
LEMMA RoundsEnd ==
    ASSUME NEW U, IsFiniteSet(U), NEW x \in SUBSET U, x # {}, NEW step, Widens(step, U),
           NEW f, Rounds(f, Cardinality(U), U, x, step)
    PROVE  LET last == f[Cardinality(U)]
           IN  /\ last \in SUBSET U /\ x \subseteq last /\ step[last] = last
               /\ \A S : x \subseteq S /\ ~Leaves(step, U, S) => last \subseteq S
<1> DEFINE n == Cardinality(U)
<1>1. n \in Nat /\ 0 \in 0 .. n /\ n \in 0 .. n
  BY FS_CardinalityType
<1>2. \A S \in SUBSET U : IsFiniteSet(S) /\ Cardinality(S) \in Nat /\ Cardinality(S) <= n
  BY FS_Subset, FS_CardinalityType
<1> HIDE DEF n
<1>3. /\ step \in [SUBSET U -> SUBSET U] /\ \A S \in SUBSET U : S \subseteq step[S]
      /\ f \in [0 .. n -> SUBSET U] /\ f[0] = x /\ \A k \in 1 .. n : f[k] = step[f[k - 1]]
  BY DEF Widens, Rounds, n
<1> DEFINE Bad == {k \in 0 .. n : ~(x \subseteq f[k] /\ (step[f[k]] = f[k] \/ Cardinality(f[k]) > k))}
<1>4. Bad = {}
  <2> SUFFICES ASSUME Bad # {} PROVE FALSE
    OBVIOUS
  <2>1. PICK m \in Bad : \A k \in Bad : m <= k
    BY LeastExists, Bad \in SUBSET Nat
  <2>2. m # 0
    <3>1. Cardinality(x) # 0 /\ Cardinality(x) \in Nat
      BY <1>2, FS_EmptySet
    <3> QED BY <1>3, <2>1, <3>1
  <2>3. m \in 1 .. n /\ m - 1 \in 0 .. n /\ ~(m <= m - 1) /\ m \in 0 .. n
    BY <1>1, <2>1, <2>2
  <2> DEFINE g == f[m - 1]
  <2>4. x \subseteq g /\ (step[g] = g \/ Cardinality(g) > m - 1)
    BY <2>1, <2>3
  <2>5. f[m] = step[g] /\ g \in SUBSET U /\ g \subseteq f[m] /\ f[m] \in SUBSET U
    BY <1>3, <2>3
  <2> HIDE DEF g
  <2>6. CASE step[g] = g
    BY <2>1, <2>4, <2>5, <2>6
  <2>7. CASE step[g] # g
    <3>1. Cardinality(g) <= Cardinality(f[m]) /\ (Cardinality(f[m]) = Cardinality(g) => f[m] = g)
      BY <1>2, <2>5, FS_Subset
    <3>2. Cardinality(f[m]) > m
      BY <1>2, <2>3, <2>4, <2>5, <2>7, <3>1
    <3> QED BY <2>1, <2>4, <2>5, <3>2
  <2> QED BY <2>6, <2>7
<1>5. f[n] \in SUBSET U /\ x \subseteq f[n] /\ step[f[n]] = f[n]
  <2>1. f[n] \in SUBSET U /\ x \subseteq f[n] /\ (step[f[n]] = f[n] \/ Cardinality(f[n]) > n)
    BY <1>1, <1>3, <1>4
  <2> QED BY <1>1, <1>2, <2>1
<1>6. ASSUME NEW S, x \subseteq S, ~Leaves(step, U, S)
      PROVE  f[n] \subseteq S
  <2> DEFINE Out == {k \in 0 .. n : ~(f[k] \subseteq S)}
  <2>1. Out = {}
    <3> SUFFICES ASSUME Out # {} PROVE FALSE
      OBVIOUS
    <3>1. PICK m \in Out : \A k \in Out : m <= k
      BY LeastExists, Out \in SUBSET Nat
    <3>2. m # 0
      BY <1>3, <1>6, <3>1
    <3>3. m \in 1 .. n /\ m - 1 \in 0 .. n /\ ~(m <= m - 1)
      BY <1>1, <3>1, <3>2
    <3>4. f[m - 1] \subseteq S /\ f[m - 1] \in SUBSET U /\ f[m] = step[f[m - 1]]
      BY <1>3, <3>1, <3>3
    <3> QED BY <1>6, <3>1, <3>4 DEF Leaves
  <2> QED BY <1>1, <2>1
<1> QED BY <1>5, <1>6 DEF n

-----------------------------------------------------------------------------
(* What a union-find joins, and what a path reaches.                        *)

Undivided(S, Q) == \A q \in Q : q[1] \in S <=> q[2] \in S

\* The pairs of Q and nothing else: find gives one root to the ends of each pair, a
\* node's root has itself for root, and no set that Q does not leave parts a node
\* from its root.
Joins(root, N, Q) ==
    /\ root \in [N -> N] /\ \A q \in Q : q[1] \in N /\ q[2] \in N
    /\ \A n \in N : root[root[n]] = root[n]
    /\ \A q \in Q : root[q[1]] = root[q[2]]
    /\ \A S \in SUBSET N : Undivided(S, Q) => \A n \in N : n \in S <=> root[n] \in S

LEMMA UnionJoins ==
    ASSUME NEW N, NEW Q, NEW root, Joins(root, N, Q), NEW a \in N, NEW b \in N
    PROVE  Joins(Union(root, a, b), N, Q \cup {<<a, b>>})
<1> DEFINE u == Union(root, a, b)
<1>1. root \in [N -> N] /\ \A n \in N : root[root[n]] = root[n]
  BY DEF Joins
<1>2. u = [n \in N |-> IF root[n] = root[a] THEN root[b] ELSE root[n]]
  BY <1>1 DEF Union
<1> HIDE DEF u
<1>3. u \in [N -> N] /\ \A n \in N : u[n] = IF root[n] = root[a] THEN root[b] ELSE root[n]
  BY <1>1, <1>2
<1>4. \A n \in N : u[u[n]] = u[n]
  <2> TAKE n \in N
  <2>1. u[n] \in N /\ root[root[b]] = root[b] /\ root[root[n]] = root[n]
    BY <1>1, <1>3
  <2>2. u[u[n]] = IF root[u[n]] = root[a] THEN root[b] ELSE root[u[n]]
    BY <1>3, <2>1
  <2> QED BY <1>3, <2>1, <2>2
<1>5. \A q \in Q \cup {<<a, b>>} : q[1] \in N /\ q[2] \in N /\ u[q[1]] = u[q[2]]
  <2>1. u[a] = u[b]
    BY <1>3
  <2>2. \A q \in Q : q[1] \in N /\ q[2] \in N /\ u[q[1]] = u[q[2]]
    BY <1>3 DEF Joins
  <2> QED BY <2>1, <2>2
<1>6. ASSUME NEW S \in SUBSET N, Undivided(S, Q \cup {<<a, b>>}), NEW n \in N
      PROVE  n \in S <=> u[n] \in S
  <2>1. Undivided(S, Q) /\ (a \in S <=> b \in S)
    <3> DEFINE q == <<a, b>>
    <3>1. q \in Q \cup {q} /\ q[1] = a /\ q[2] = b
      OBVIOUS
    <3> HIDE DEF q
    <3> QED BY <1>6, <3>1 DEF Undivided, q
  <2>2. \A m \in N : m \in S <=> root[m] \in S
    BY <2>1 DEF Joins
  <2> QED BY <1>3, <2>1, <2>2
<1> QED BY <1>3, <1>4, <1>5, <1>6 DEF Joins, u

\* A union-find joins the pairs of its sequence.
LEMMA UnionFindJoins ==
    ASSUME NEW N, NEW pairs \in Seq(N \X N)
    PROVE  Joins(UnionFind(N, pairs), N, {pairs[k] : k \in 1 .. Len(pairs)})
<1> DEFINE n == Len(pairs)  X == [N -> N]
           step == [k \in 1 .. n |-> [root \in X |-> Union(root, pairs[k][1], pairs[k][2])]]
           start == [m \in N |-> m]
           next(f, k) == Union(f[k - 1], pairs[k][1], pairs[k][2])
           Recursive(f) == f = [k \in 0 .. n |-> IF k = 0 THEN start ELSE next(f, k)]
           f == CHOOSE g : Recursive(g)
           Q(m) == {pairs[k] : k \in 1 .. m}
<1>1. n \in Nat /\ \A k \in 1 .. n : pairs[k][1] \in N /\ pairs[k][2] \in N
  OBVIOUS
<1>2. UnionFind(N, pairs) = f[n]
  BY DEF UnionFind
<1>3. step \in [1 .. n -> [X -> X]] /\ start \in X
  <2>1. \A root \in X : \A a, b \in N : Union(root, a, b) \in X
    BY DEF Union
  <2> QED BY <1>1, <2>1
<1>4. \A h : \A k \in 1 .. n : h[k - 1] \in X => step[k][h[k - 1]] = next(h, k)
  OBVIOUS
<1>5. n \in Nat /\ \A k \in 1 .. n : k - 1 \in 0 .. n /\ k \in 0 .. n /\ k # 0
  BY <1>1
<1> HIDE DEF step, start, X, next, n
<1>6. PICK g \in [0 .. n -> X] : Records(g, n, start, step)
  BY <1>3, <1>5, StepsExist
<1>7. Recursive(g)
  <2>1. \A k \in 0 .. n : g[k] = IF k = 0 THEN start ELSE next(g, k)
    <3>1. \A k \in 0 .. n : k # 0 => k \in 1 .. n
      BY <1>5
    <3> QED BY <1>4, <1>5, <1>6, <3>1 DEF Records
  <2> QED BY <2>1
<1>8. Recursive(f)
  BY <1>7
<1> HIDE DEF f
<1>9. f[0] = start /\ \A k \in 1 .. n : f[k] = next(f, k)
  <2>1. 0 \in 0 .. n
    BY <1>5
  <2> QED BY <1>5, <1>8, <2>1
<1> DEFINE Bad == {k \in 0 .. n : ~Joins(f[k], N, Q(k))}
<1>10. Bad = {}
  <2> SUFFICES ASSUME Bad # {} PROVE FALSE
    OBVIOUS
  <2>1. PICK m \in Bad : \A k \in Bad : m <= k
    BY <1>5, LeastExists, Bad \in SUBSET Nat
  <2>2. CASE m = 0
    <3>1. Q(0) = {}
      OBVIOUS
    <3>2. Joins(f[0], N, Q(0))
      BY <1>9, <3>1 DEF Joins, start
    <3> QED BY <2>1, <2>2, <3>2
  <2>3. CASE m # 0
    <3>1. m \in 1 .. n /\ m - 1 \in 0 .. n /\ ~(m <= m - 1)
      BY <1>5, <2>1, <2>3
    <3>2. Joins(f[m - 1], N, Q(m - 1))
      BY <2>1, <3>1
    <3> DEFINE a == pairs[m][1]  b == pairs[m][2]
    <3>3. a \in N /\ b \in N /\ f[m] = Union(f[m - 1], a, b) /\ pairs[m] = <<a, b>>
      BY <1>1, <1>9, <3>1 DEF n, next
    <3>4. Q(m) = Q(m - 1) \cup {pairs[m]}
      BY <1>5, <3>1
    <3> HIDE DEF Q, a, b
    <3>5. Joins(f[m], N, Q(m))
      BY <3>2, <3>3, <3>4, UnionJoins
    <3> QED BY <2>1, <3>5
  <2> QED BY <2>2, <2>3
<1> QED BY <1>2, <1>5, <1>10 DEF n

Touch(E, N) == \A e \in E : e.t1 \in N /\ e.t2 \in N

\* So does the one over the edges of a graph.
LEMMA EdgesJoin ==
    ASSUME NEW N, NEW E, IsFiniteSet(E), Touch(E, N)
    PROVE  Joins(UnionFind(N, PairsOf(E)), N, EndPairs(E))
<1> DEFINE s == SetToSeq(E)  pairs == [k \in 1 .. Len(s) |-> <<s[k].t1, s[k].t2>>]
<1>1. /\ Len(s) \in Nat /\ DOMAIN s = 1 .. Len(s) /\ s \in Seq(E)
      /\ ToSet(s) = E
  BY SetToSeqLists
<1>2. PairsOf(E) = pairs
  BY DEF PairsOf
<1> HIDE DEF s
<1>3. \A k \in 1 .. Len(s) : s[k] \in E
  BY <1>1
<1>4. pairs \in Seq(N \X N) /\ Len(pairs) = Len(s)
  BY <1>1, <1>3 DEF Touch
<1>5. {pairs[k] : k \in 1 .. Len(pairs)} = EndPairs(E)
  <2>1. E = {s[k] : k \in 1 .. Len(s)}
    BY <1>1 DEF ToSet
  <2>2. {pairs[k] : k \in 1 .. Len(pairs)} = {<<s[k].t1, s[k].t2>> : k \in 1 .. Len(s)}
    BY <1>4
  <2> QED BY <2>1, <2>2 DEF EndPairs
<1> HIDE DEF pairs
<1> QED BY <1>2, <1>4, <1>5, UnionFindJoins

\* A path reaches the least set with its start that the pairs do not leave.
LEMMA ReachIs ==
    ASSUME NEW P, IsFiniteSet(P), NEW x
    PROVE  /\ x \in Reach(P, x) /\ Undivided(Reach(P, x), P)
           /\ \A S : x \in S /\ Undivided(S, P) => Reach(P, x) \subseteq S
<1> DEFINE U == EndsOf(P) \cup {x}  n == Cardinality(U)  X == SUBSET U
           over == [S \in X |-> Across(P, S)]
           step == [k \in 1 .. n |-> over]
           Recursive(f) == f = [k \in 0 .. n |-> IF k = 0 THEN {x} ELSE Across(P, f[k - 1])]
           f == CHOOSE g : Recursive(g)
<1>1. IsFiniteSet(U) /\ n \in Nat
  <2>1. IsFiniteSet({p[1] : p \in P}) /\ IsFiniteSet({p[2] : p \in P})
    <3> DEFINE first == [p \in P |-> p[1]]  second == [p \in P |-> p[2]]
    <3>1. {first[p] : p \in P} = {p[1] : p \in P} /\ {second[p] : p \in P} = {p[2] : p \in P}
      OBVIOUS
    <3>2. DOMAIN first = P /\ DOMAIN second = P
      OBVIOUS
    <3> HIDE DEF first, second
    <3>3. IsFiniteSet({first[p] : p \in P}) /\ IsFiniteSet({second[p] : p \in P})
      BY <3>2, ImageFinite
    <3> QED BY <3>1, <3>3
  <2>2. IsFiniteSet(EndsOf(P))
    BY <2>1, FS_Union DEF EndsOf
  <2>3. IsFiniteSet(U)
    BY <2>2, FS_AddElement
  <2> QED BY <2>3, FS_CardinalityType
<1>2. Reach(P, x) = f[n]
  BY DEF Reach
<1>3. \A S \in X : Across(P, S) \in X /\ S \subseteq Across(P, S)
  BY DEF Across, EndsOf
<1>4. /\ over \in [X -> X] /\ \A S \in X : over[S] = Across(P, S) /\ S \subseteq over[S]
      /\ {x} \in X /\ step \in [1 .. n -> [X -> X]] /\ \A k \in 1 .. n : step[k] = over
  BY <1>3
<1>5. \A k \in 1 .. n : k - 1 \in 0 .. n /\ k \in 0 .. n /\ k # 0
  BY <1>1
<1> HIDE DEF over, step, n, X
<1>6. PICK g \in [0 .. n -> X] : Records(g, n, {x}, step)
  BY <1>1, <1>4, StepsExist
<1>7. Recursive(g)
  <2>1. \A k \in 0 .. n : g[k] = IF k = 0 THEN {x} ELSE Across(P, g[k - 1])
    <3>1. \A k \in 0 .. n : k # 0 => k \in 1 .. n
      BY <1>1
    <3> QED BY <1>4, <1>5, <1>6, <3>1 DEF Records
  <2> QED BY <2>1
<1>8. Recursive(f)
  BY <1>7
<1> HIDE DEF f
<1>9. DOMAIN f = 0 .. n /\ f[0] = {x} /\ \A k \in 1 .. n : f[k] = Across(P, f[k - 1])
  <2>1. 0 \in 0 .. n
    BY <1>1
  <2> QED BY <1>5, <1>8, <2>1
<1>10. /\ f \in [0 .. n -> X] /\ f[0] = {x} /\ \A k \in 1 .. n : f[k] = over[f[k - 1]]
  <2>1. Records(f, n, {x}, step) /\ \A k \in 0 .. n : f[k] \in X
    <3>1. StepsIn(X, f, n, {x}, step)
      BY <1>4, <1>9 DEF StepsIn
    <3> QED BY <1>1, <1>4, <3>1, StepsStay
  <2>2. f = [k \in 0 .. n |-> f[k]]
    BY <1>8
  <2> QED BY <1>4, <1>9, <2>1, <2>2 DEF Records
<1>11. /\ f[n] \in SUBSET U /\ {x} \subseteq f[n] /\ over[f[n]] = f[n]
       /\ \A S : {x} \subseteq S /\ ~Leaves(over, U, S) => f[n] \subseteq S
  <2>1. {x} \in SUBSET U /\ {x} # {} /\ Widens(over, U)
    BY <1>4 DEF X, Widens
  <2>2. Rounds(f, Cardinality(U), U, {x}, over)
    BY <1>10 DEF X, n, Rounds
  <2> HIDE DEF U
  <2> QED BY <1>1, <2>1, <2>2, RoundsEnd DEF n
<1>12. Across(P, f[n]) = f[n]
  BY <1>4, <1>11 DEF X
<1>13. Undivided(f[n], P)
  BY <1>12 DEF Across, Undivided
<1>14. ASSUME NEW S, x \in S, Undivided(S, P) PROVE f[n] \subseteq S
  <2>1. ~Leaves(over, U, S)
    BY <1>4, <1>14 DEF Across, Undivided, X, Leaves
  <2> QED BY <1>11, <1>14, <2>1
<1> QED BY <1>2, <1>11, <1>13, <1>14

-----------------------------------------------------------------------------
(* What a source says of every piece of equipment, without any batch.       *)

Subs(s) == OfClass(s, {"Substation", "DistributionBox"})
Houses(s) == OfClass(s, {"Building"})
VLs(s) == {v \in OfClass(s, {"VoltageLevel"}) : s.tree[v].up \in Subs(s)}
Bays(s) == {b \in OfClass(s, {"Bay"}) : s.tree[b].up \in VLs(s)}
Feeders(s) == {f \in OfClass(s, {"Feeder"}) : s.tree[f].up \in Subs(s)}
Roots(s) == OfClass(s, RootClasses)

\* The container that is at, or above, an object of the tree.
Place(s, x) == IF x \in VLs(s) THEN s.tree[x].up ELSE x

In(s, i) == s.equip[i].in
Section(s, i) == Class(s, i) = "busbar" /\ In(s, i) \in VLs(s) \cup Subs(s)
Units(s, i) == {u \in DOMAIN s.equip : /\ Class(s, u) = "unit" /\ s.equip[u].of = i
                                       /\ RootAbove(s, In(s, u)) # NoRef}
Seat(s, i) == IF Units(s, i) # {} THEN In(s, CHOOSE u \in Units(s, i) : TRUE) ELSE In(s, i)
StationOf(s, i) == RootAbove(s, Seat(s, i))
Members(s) == {i \in DOMAIN s.equip : /\ StationOf(s, i) # NoRef
                                      /\ Class(s, i) \notin {"unit", "generating"}}
BarName(s, i) == IF In(s, i) \in VLs(s) THEN In(s, i) ELSE BusbarOfBase[s.equip[i].of]
ContainerOf(s, i) == IF Section(s, i) THEN BarName(s, i) ELSE Place(s, Seat(s, i))

Containers(s) ==
    RootContainers(s, Roots(s))
       \cup {Cont(b, "bay", s.tree[s.tree[b].up].up) : b \in Bays(s)}
       \cup {Cont(f, "bay", s.tree[f].up) : f \in Feeders(s)}
       \cup {Cont(BarName(s, i), "busbar", Place(s, In(s, i))) : i \in {i \in DOMAIN s.equip : Section(s, i)}}
Owner(k) == IF k.parent = NoRef THEN k.id ELSE k.parent

-----------------------------------------------------------------------------
(* Places.                                                                  *)

\* Where an object hangs.
LEMMA RootAboveIs ==
    ASSUME NEW s \in Sources, NEW x
    PROVE  /\ x \in Subs(s) \cup Houses(s) => RootAbove(s, x) = x
           /\ x \in VLs(s) \cup Feeders(s) => RootAbove(s, x) = s.tree[x].up
           /\ x \in Bays(s) => RootAbove(s, x) = s.tree[s.tree[x].up].up
           /\ x \notin Subs(s) \cup Houses(s) \cup VLs(s) \cup Feeders(s) \cup Bays(s) => RootAbove(s, x) = NoRef
<1> DEFINE up(y) == s.tree[y].up
<1>1. /\ Roots(s) = Subs(s) \cup Houses(s)
      /\ OfClass(s, {"VoltageLevel", "Feeder"}) = OfClass(s, {"VoltageLevel"}) \cup OfClass(s, {"Feeder"})
  BY DEF Roots, RootClasses, Subs, Houses, OfClass
<1>2. /\ Roots(s) \cap (OfClass(s, {"VoltageLevel"}) \cup OfClass(s, {"Feeder"}) \cup OfClass(s, {"Bay"})) = {}
      /\ OfClass(s, {"Bay"}) \cap (OfClass(s, {"VoltageLevel"}) \cup OfClass(s, {"Feeder"})) = {}
  BY DEF Roots, RootClasses, OfClass
<1>3. /\ VLs(s) \subseteq OfClass(s, {"VoltageLevel"}) /\ Feeders(s) \subseteq OfClass(s, {"Feeder"})
      /\ Bays(s) \subseteq OfClass(s, {"Bay"})
  BY DEF VLs, Feeders, Bays
<1>4. RootAbove(s, x) =
        CASE x \in Roots(s) -> x
          [] x \in OfClass(s, {"VoltageLevel", "Feeder"}) /\ up(x) \in Subs(s) -> up(x)
          [] x \in OfClass(s, {"Bay"}) /\ up(x) \in OfClass(s, {"VoltageLevel"}) /\ up(up(x)) \in Subs(s)
               -> up(up(x))
          [] OTHER -> NoRef
  BY DEF RootAbove, Roots, Subs
<1>5. x \in VLs(s) \cup Feeders(s) <=> x \in OfClass(s, {"VoltageLevel", "Feeder"}) /\ up(x) \in Subs(s)
  BY <1>1, <1>2 DEF VLs, Feeders, OfClass
<1>6. x \in Bays(s) <=> x \in OfClass(s, {"Bay"}) /\ up(x) \in OfClass(s, {"VoltageLevel"}) /\ up(up(x)) \in Subs(s)
  BY DEF Bays, VLs
<1> HIDE DEF up
<1>7. CASE x \in Roots(s)
  BY <1>1, <1>2, <1>3, <1>4, <1>7
<1>8. CASE x \notin Roots(s) /\ x \in VLs(s) \cup Feeders(s)
  <2>1. RootAbove(s, x) = up(x) /\ x \notin Bays(s)
    BY <1>2, <1>3, <1>4, <1>5, <1>6, <1>8
  <2> QED BY <1>1, <1>8, <2>1 DEF up
<1>9. CASE x \notin Roots(s) /\ x \notin VLs(s) \cup Feeders(s) /\ x \in Bays(s)
  <2>1. RootAbove(s, x) = up(up(x))
    BY <1>2, <1>3, <1>4, <1>5, <1>6, <1>9
  <2> QED BY <1>1, <1>9, <2>1 DEF up
<1>10. CASE x \notin Roots(s) /\ x \notin VLs(s) \cup Feeders(s) /\ x \notin Bays(s)
  BY <1>1, <1>4, <1>5, <1>6, <1>10
<1> QED BY <1>7, <1>8, <1>9, <1>10

\* What hangs on nothing is no root, and roots are not what hangs on them.
LEMMA PlacesAre ==
    ASSUME NEW s \in Sources
    PROVE  /\ Roots(s) = Subs(s) \cup Houses(s) /\ Subs(s) \cap Houses(s) = {}
           /\ (VLs(s) \cup Feeders(s) \cup Bays(s)) \cap Roots(s) = {}
           /\ VLs(s) \cap (Feeders(s) \cup Bays(s)) = {} /\ Feeders(s) \cap Bays(s) = {}
           /\ Roots(s) \cup VLs(s) \cup Feeders(s) \cup Bays(s) \subseteq DOMAIN s.tree
           /\ NoRef \notin DOMAIN s.tree /\ PassBOwner \notin DOMAIN s.tree
           /\ \A x : RootAbove(s, x) \in Roots(s) \cup {NoRef}
           /\ \A x : RootAbove(s, x) # NoRef <=> x \in Roots(s) \cup VLs(s) \cup Feeders(s) \cup Bays(s)
<1>1. /\ Roots(s) = Subs(s) \cup Houses(s) /\ Subs(s) \cap Houses(s) = {}
      /\ (VLs(s) \cup Feeders(s) \cup Bays(s)) \cap Roots(s) = {}
      /\ VLs(s) \cap (Feeders(s) \cup Bays(s)) = {} /\ Feeders(s) \cap Bays(s) = {}
      /\ Roots(s) \cup VLs(s) \cup Feeders(s) \cup Bays(s) \subseteq DOMAIN s.tree
  BY DEF Roots, RootClasses, Subs, Houses, OfClass, VLs, Feeders, Bays
<1>2. NoRef \notin DOMAIN s.tree /\ PassBOwner \notin DOMAIN s.tree
  BY NameAssumption
<1>3. /\ \A x \in VLs(s) \cup Feeders(s) : s.tree[x].up \in Subs(s)
      /\ \A x \in Bays(s) : s.tree[s.tree[x].up].up \in Subs(s)
  BY DEF VLs, Feeders, Bays
<1>4. ASSUME NEW x
      PROVE  /\ RootAbove(s, x) \in Roots(s) \cup {NoRef}
             /\ RootAbove(s, x) # NoRef <=> x \in Roots(s) \cup VLs(s) \cup Feeders(s) \cup Bays(s)
  BY <1>1, <1>2, <1>3, RootAboveIs
<1> QED BY <1>1, <1>2, <1>4

-----------------------------------------------------------------------------
(* Equipment.                                                               *)

\* The satellites of a connection agree on where it is.
LEMMA SeatIs ==
    ASSUME NEW s \in Sources, NEW i \in DOMAIN s.equip
    PROVE  /\ Units(s, i) # {} =>
                 /\ Class(s, i) = "device" /\ StationOf(s, i) # NoRef
                 /\ \A u \in Units(s, i) : In(s, u) = Seat(s, i)
                 /\ RootAbove(s, In(s, i)) \in {StationOf(s, i), NoRef}
           /\ Units(s, i) = {} => Seat(s, i) = In(s, i)
<1>1. ASSUME Units(s, i) # {}
      PROVE  /\ Class(s, i) = "device" /\ StationOf(s, i) # NoRef
             /\ \A u \in Units(s, i) : In(s, u) = Seat(s, i)
             /\ RootAbove(s, In(s, i)) \in {StationOf(s, i), NoRef}
  <2> DEFINE v == CHOOSE u \in Units(s, i) : TRUE
  <2>1. v \in Units(s, i) /\ Seat(s, i) = In(s, v)
    BY <1>1 DEF Seat
  <2> HIDE DEF v
  <2>2. SatellitesAgree(s)
    BY SourceAssumption
  <2>3. /\ v \in DOMAIN s.equip /\ Class(s, v) = "unit" /\ s.equip[v].of = i
        /\ RootAbove(s, In(s, v)) # NoRef
    BY <2>1 DEF Units
  <2>4. Class(s, i) = "device"
    BY <2>2, <2>3 DEF SatellitesAgree
  <2>5. \A u \in Units(s, i) : In(s, u) = In(s, v)
    BY <2>2, <2>3 DEF SatellitesAgree, Units, In
  <2>6. RootAbove(s, In(s, i)) \in {RootAbove(s, In(s, v)), NoRef}
    BY <2>2, <2>3 DEF SatellitesAgree, In
  <2> QED BY <2>1, <2>3, <2>4, <2>5, <2>6 DEF StationOf
<1>2. Units(s, i) = {} => Seat(s, i) = In(s, i)
  BY DEF Seat
<1> QED BY <1>1, <1>2

\* What a batch finds, of these.
BatchOf(s, B) == [i \in {i \in Members(s) : StationOf(s, i) \in B} |-> ContainerOf(s, i)]

\* What the walk of a batch reaches (the names of ResolveBatchContainers).
HousesOf(s, B) == B \cap OfClass(s, {"Building"})
SubsOf(s, B) == B \ HousesOf(s, B)
VLsOf(s, B) == Referring(s, "VoltageLevel", SubsOf(s, B))
FeedersOf(s, B) == Referring(s, "Feeder", SubsOf(s, B))
BaysOf(s, B) == Referring(s, "Bay", VLsOf(s, B))
DirectOf(s, B) == Installed(s, VLsOf(s, B) \cup SubsOf(s, B))
SectionsOf(s, B) == {i \in DirectOf(s, B) : Class(s, i) = "busbar"}
RestOf(s, B) == Installed(s, BaysOf(s, B) \cup FeedersOf(s, B) \cup HousesOf(s, B))
                   \cup (DirectOf(s, B) \ SectionsOf(s, B))

\* What a batch walk reaches below its stations.
LEMMA BatchFinds ==
    ASSUME NEW s \in Sources, NEW B \in SUBSET Roots(s)
    PROVE  /\ VLsOf(s, B) = {x \in VLs(s) : RootAbove(s, x) \in B}
           /\ FeedersOf(s, B) = {x \in Feeders(s) : RootAbove(s, x) \in B}
           /\ BaysOf(s, B) = {x \in Bays(s) : RootAbove(s, x) \in B}
           /\ SectionsOf(s, B) = {i \in {i \in DOMAIN s.equip : Section(s, i)} : RootAbove(s, In(s, i)) \in B}
           /\ RestOf(s, B) = {i \in DOMAIN s.equip : ~Section(s, i) /\ RootAbove(s, In(s, i)) \in B}
           /\ \A x : RootAbove(s, x) \in B => (IF x \in VLsOf(s, B) THEN s.tree[x].up ELSE x) = Place(s, x)
           /\ \A i \in SectionsOf(s, B) : BusbarID(s, i, VLsOf(s, B)) = BarName(s, i)
<1> DEFINE houses == B \cap OfClass(s, {"Building"})
           subs == B \ houses
           vls == Referring(s, "VoltageLevel", subs)
           feeders == Referring(s, "Feeder", subs)
           bays == Referring(s, "Bay", vls)
           direct == Installed(s, vls \cup subs)
           sections == {i \in direct : Class(s, i) = "busbar"}
           subOf(x) == IF x \in vls THEN s.tree[x].up ELSE x
           rest == Installed(s, bays \cup feeders \cup houses) \cup (direct \ sections)
<1>1. /\ houses = B \cap Houses(s) /\ subs = B \cap Subs(s)
      /\ vls = {x \in VLs(s) : RootAbove(s, x) \in B}
      /\ feeders = {x \in Feeders(s) : RootAbove(s, x) \in B}
      /\ bays = {x \in Bays(s) : RootAbove(s, x) \in B}
  <2>1. houses = B \cap Houses(s) /\ subs = B \cap Subs(s)
    BY PlacesAre DEF Houses
  <2>2. vls = {x \in VLs(s) : RootAbove(s, x) \in B}
    <3>1. \A x \in VLs(s) : RootAbove(s, x) = s.tree[x].up /\ s.tree[x].up \in Subs(s)
      BY RootAboveIs DEF VLs
    <3>2. vls = {x \in OfClass(s, {"VoltageLevel"}) : s.tree[x].up \in subs}
      BY DEF Referring
    <3> HIDE DEF subs, vls
    <3> QED BY <2>1, <3>1, <3>2 DEF VLs
  <2>3. feeders = {x \in Feeders(s) : RootAbove(s, x) \in B}
    <3>1. \A x \in Feeders(s) : RootAbove(s, x) = s.tree[x].up /\ s.tree[x].up \in Subs(s)
      BY RootAboveIs DEF Feeders
    <3>2. feeders = {x \in OfClass(s, {"Feeder"}) : s.tree[x].up \in subs}
      BY DEF Referring
    <3> HIDE DEF subs, feeders
    <3> QED BY <2>1, <3>1, <3>2 DEF Feeders
  <2>4. bays = {x \in Bays(s) : RootAbove(s, x) \in B}
    <3>1. \A x \in Bays(s) : /\ s.tree[x].up \in VLs(s)
                             /\ RootAbove(s, x) = RootAbove(s, s.tree[x].up)
      BY RootAboveIs DEF Bays
    <3>2. bays = {x \in OfClass(s, {"Bay"}) : s.tree[x].up \in vls}
      BY DEF Referring
    <3> HIDE DEF subs, vls, bays
    <3> QED BY <2>2, <3>1, <3>2 DEF Bays
  <2> HIDE DEF houses, subs, vls, feeders, bays
  <2> QED BY <2>1, <2>2, <2>3, <2>4
<1>2. \A x : /\ x \in vls \cup subs <=> x \in VLs(s) \cup Subs(s) /\ RootAbove(s, x) \in B
             /\ x \in bays \cup feeders \cup houses
                   <=> x \in Bays(s) \cup Feeders(s) \cup Houses(s) /\ RootAbove(s, x) \in B
             /\ RootAbove(s, x) \in B => subOf(x) = Place(s, x)
  <2> HIDE DEF houses, subs, vls, feeders, bays
  <2> QED BY <1>1, PlacesAre, RootAboveIs DEF Place
<1>3. NoRef \notin B /\ \A x : RootAbove(s, x) \in B => x \in VLs(s) \cup Subs(s) \cup Bays(s) \cup Feeders(s) \cup Houses(s)
  BY PlacesAre
<1> HIDE DEF houses, subs, vls, feeders, bays
<1>4. sections = {i \in {i \in DOMAIN s.equip : Section(s, i)} : RootAbove(s, In(s, i)) \in B}
  BY <1>2 DEF Installed, Section, In
<1>5. rest = {i \in DOMAIN s.equip : ~Section(s, i) /\ RootAbove(s, In(s, i)) \in B}
  <2>2. \A i \in DOMAIN s.equip : i \in Installed(s, bays \cup feeders \cup houses) \cup direct
                                    <=> RootAbove(s, In(s, i)) \in B
    BY <1>2, <1>3 DEF Installed, In
  <2>3. \A i \in Installed(s, bays \cup feeders \cup houses) : i \in DOMAIN s.equip /\ ~Section(s, i)
    BY <1>2, PlacesAre DEF Installed, Section, In
  <2>4. direct \subseteq DOMAIN s.equip
    BY DEF Installed
  <2> HIDE DEF direct, sections
  <2> QED BY <1>4, <2>2, <2>3, <2>4
<1>6. \A i \in sections : BusbarID(s, i, vls) = BarName(s, i)
  BY <1>1, <1>2, <1>4, PlacesAre DEF BusbarID, BarName, In, Section
<1> HIDE DEF sections, rest, direct
<1>7. /\ houses = HousesOf(s, B) /\ subs = SubsOf(s, B) /\ vls = VLsOf(s, B) /\ feeders = FeedersOf(s, B)
      /\ bays = BaysOf(s, B) /\ direct = DirectOf(s, B)
  BY DEF houses, subs, vls, feeders, bays, direct, HousesOf, SubsOf, VLsOf, FeedersOf, BaysOf, DirectOf
<1>8. sections = SectionsOf(s, B) /\ rest = RestOf(s, B)
  BY <1>7 DEF sections, rest, SectionsOf, RestOf
<1> QED BY <1>1, <1>2, <1>4, <1>5, <1>6, <1>7, <1>8

\* A batch walk finds the members of its stations, and places them as every batch does.
LEMMA BatchPlaces ==
    ASSUME NEW s \in Sources, NEW B \in SUBSET Roots(s)
    PROVE  ResolveBatchContainers(s, B).of = BatchOf(s, B)
<1> DEFINE vls == VLsOf(s, B)  feeders == FeedersOf(s, B)  bays == BaysOf(s, B)
           sections == SectionsOf(s, B)
           subOf(x) == IF x \in vls THEN s.tree[x].up ELSE x
           spot == [i \in RestOf(s, B) |-> subOf(s.equip[i].in)]
           busbars == [i \in sections |-> BusbarID(s, i, vls)]
           units == {i \in DOMAIN spot : Class(s, i) = "unit"}
           own == {i \in DOMAIN spot \ units : Class(s, i) # "generating"}
           pecs == {s.equip[i].of : i \in units}
           ofUnits == [p \in pecs |-> spot[CHOOSE i \in units : s.equip[i].of = p]]
           ofOwn == [i \in own |-> spot[i]]
           found == {i \in Members(s) : StationOf(s, i) \in B}
           of == Over(busbars, Over(ofUnits, ofOwn))
<1>1. ResolveBatchContainers(s, B).of = of
  BY DEF ResolveBatchContainers, Assign,
         VLsOf, SubsOf, HousesOf, FeedersOf, BaysOf, DirectOf, SectionsOf, RestOf
<1>2. /\ vls = {x \in VLs(s) : RootAbove(s, x) \in B}
      /\ feeders = {x \in Feeders(s) : RootAbove(s, x) \in B}
      /\ bays = {x \in Bays(s) : RootAbove(s, x) \in B}
      /\ sections = {i \in {i \in DOMAIN s.equip : Section(s, i)} : RootAbove(s, In(s, i)) \in B}
      /\ DOMAIN spot = {i \in DOMAIN s.equip : ~Section(s, i) /\ RootAbove(s, In(s, i)) \in B}
      /\ \A i \in sections : busbars[i] = BarName(s, i)
      /\ \A i \in RestOf(s, B) : spot[i] = Place(s, In(s, i))
  BY BatchFinds DEF In
<1>4. NoRef \notin B
  BY PlacesAre
<1>5. sections = {i \in DOMAIN s.equip : Section(s, i) /\ RootAbove(s, In(s, i)) \in B}
  BY <1>2
<1>6. DOMAIN spot = {i \in DOMAIN s.equip : ~Section(s, i) /\ RootAbove(s, In(s, i)) \in B}
  BY <1>2
<1>7. \A i \in DOMAIN spot : spot[i] = Place(s, In(s, i))
  BY <1>2
<1>8. \A i \in sections : busbars[i] = BarName(s, i)
  BY <1>2
<1> HIDE DEF sections, spot
<1>9. units = {u \in DOMAIN s.equip : Class(s, u) = "unit" /\ RootAbove(s, In(s, u)) \in B}
  BY <1>6 DEF Section
<1>10. own = {i \in DOMAIN s.equip : /\ ~Section(s, i) /\ RootAbove(s, In(s, i)) \in B
                                     /\ Class(s, i) \notin {"unit", "generating"}}
  BY <1>6
<1> HIDE DEF units, own
<1>11. pecs = {p \in DOMAIN s.equip : Units(s, p) # {} /\ StationOf(s, p) \in B}
  <2>1. ASSUME NEW p \in pecs PROVE p \in DOMAIN s.equip /\ Units(s, p) # {} /\ StationOf(s, p) \in B
    <3>1. PICK u \in units : s.equip[u].of = p
      OBVIOUS
    <3>2. u \in Units(s, p)
      BY <1>4, <1>9, <3>1 DEF Units
    <3>3. p \in DOMAIN s.equip
      BY <1>9, <3>1, SourceAssumption DEF SatellitesAgree
    <3>4. In(s, u) = Seat(s, p)
      BY <3>2, <3>3, SeatIs
    <3> QED BY <1>9, <3>2, <3>3, <3>4 DEF StationOf
  <2>2. ASSUME NEW p \in DOMAIN s.equip, Units(s, p) # {}, StationOf(s, p) \in B PROVE p \in pecs
    <3>1. PICK u \in Units(s, p) : TRUE
      BY <2>2
    <3>2. In(s, u) = Seat(s, p)
      BY <2>2, SeatIs
    <3>3. u \in units /\ s.equip[u].of = p
      BY <1>9, <2>2, <3>1, <3>2 DEF Units, StationOf
    <3> QED BY <3>3
  <2> HIDE DEF pecs
  <2> QED BY <2>1, <2>2
<1>12. \A p \in pecs : ofUnits[p] = Place(s, Seat(s, p))
  <2> SUFFICES ASSUME NEW p \in pecs PROVE ofUnits[p] = Place(s, Seat(s, p))
    OBVIOUS
  <2> DEFINE u == CHOOSE u \in units : s.equip[u].of = p
  <2>1. \E v \in units : s.equip[v].of = p
    OBVIOUS
  <2>2. u \in units /\ s.equip[u].of = p
    BY <2>1
  <2>3. ofUnits[p] = spot[u]
    OBVIOUS
  <2> HIDE DEF u, pecs, ofUnits
  <2>4. u \in Units(s, p) /\ u \in DOMAIN spot
    BY <1>4, <1>6, <1>9, <2>2 DEF Units, Section
  <2>5. In(s, u) = Seat(s, p)
    BY <1>11, <2>4, SeatIs
  <2> QED BY <1>7, <2>3, <2>4, <2>5
<1> HIDE DEF pecs
<1>13. \A i \in DOMAIN s.equip : Section(s, i) =>
          Units(s, i) = {} /\ Seat(s, i) = In(s, i) /\ Class(s, i) = "busbar" /\ RootAbove(s, In(s, i)) # NoRef
  BY SeatIs, PlacesAre DEF Section
<1>14. found = sections \cup pecs \cup own
  <2>1. ASSUME NEW i \in sections PROVE i \in found
    BY <1>4, <1>5, <1>13, <2>1 DEF Members, StationOf
  <2>2. ASSUME NEW i \in pecs PROVE i \in found
    BY <1>4, <1>11, SeatIs, <2>2 DEF Members
  <2>3. ASSUME NEW i \in own PROVE i \in found
    <3>1. StationOf(s, i) \in B
      BY <1>4, <1>10, SeatIs DEF StationOf
    <3> QED BY <1>4, <1>10, <3>1 DEF Members
  <2>4. ASSUME NEW i \in found, i \notin pecs, i \notin sections PROVE i \in own
    <3>1. i \in DOMAIN s.equip /\ StationOf(s, i) \in B /\ Class(s, i) \notin {"unit", "generating"}
      BY <2>4 DEF Members
    <3>2. Seat(s, i) = In(s, i)
      BY <1>11, <2>4, <3>1, SeatIs
    <3> QED BY <1>5, <1>10, <2>4, <3>1, <3>2 DEF StationOf
  <2> HIDE DEF found
  <2> QED BY <2>1, <2>2, <2>3, <2>4
<1>15. /\ DOMAIN of = sections \cup pecs \cup own
       /\ \A i \in sections : of[i] = busbars[i]
       /\ \A i \in pecs \ sections : of[i] = ofUnits[i]
       /\ \A i \in own \ (pecs \cup sections) : of[i] = ofOwn[i]
       /\ of = [i \in DOMAIN of |-> of[i]]
  BY DEF Over
<1>16. \A i \in own : ofOwn[i] = spot[i]
  OBVIOUS
<1> HIDE DEF busbars, ofUnits, ofOwn, of, found
<1>17. ASSUME NEW i \in found PROVE of[i] = ContainerOf(s, i)
  <2>1. CASE i \in sections
    BY <1>5, <1>8, <1>15, <2>1 DEF ContainerOf
  <2>2. CASE i \in pecs \ sections
    <3>1. ~Section(s, i)
      BY <1>11, <1>13, <2>2
    <3> QED BY <1>12, <1>15, <2>2, <3>1 DEF ContainerOf
  <2>3. CASE i \in own \ (pecs \cup sections)
    <3>1. ~Section(s, i) /\ i \in DOMAIN spot /\ i \in found /\ i \in DOMAIN s.equip
      BY <1>6, <1>10, <2>3
    <3>2. StationOf(s, i) \in B
      BY <3>1 DEF found
    <3>3. Seat(s, i) = In(s, i)
      BY <1>11, <2>3, <3>1, <3>2, SeatIs
    <3> QED BY <1>7, <1>15, <1>16, <2>3, <3>1, <3>3 DEF ContainerOf
  <2> QED BY <1>14, <2>1, <2>2, <2>3
<1> QED BY <1>1, <1>14, <1>15, <1>17 DEF BatchOf, found

\* A batch walk finds the containers of its stations.
LEMMA BatchContainers ==
    ASSUME NEW s \in Sources, NEW B \in SUBSET Roots(s)
    PROVE  ResolveBatchContainers(s, B).containers = {k \in Containers(s) : Owner(k) \in B}
<1> DEFINE vls == VLsOf(s, B)  feeders == FeedersOf(s, B)  bays == BaysOf(s, B)
           sections == SectionsOf(s, B)
           subOf(x) == IF x \in vls THEN s.tree[x].up ELSE x
           K1 == RootContainers(s, B)
           K2 == {Cont(b, "bay", s.tree[s.tree[b].up].up) : b \in bays}
           K3 == {Cont(f, "bay", s.tree[f].up) : f \in feeders}
           K4 == {Cont(BusbarID(s, i, vls), "busbar", subOf(s.equip[i].in)) : i \in sections}
           L1 == RootContainers(s, Roots(s))
           L2 == {Cont(b, "bay", s.tree[s.tree[b].up].up) : b \in Bays(s)}
           L3 == {Cont(f, "bay", s.tree[f].up) : f \in Feeders(s)}
           I4 == {i \in DOMAIN s.equip : Section(s, i)}
           L4 == {Cont(BarName(s, i), "busbar", Place(s, In(s, i))) : i \in I4}
<1>1. ResolveBatchContainers(s, B).containers = K1 \cup K2 \cup K3 \cup K4
  BY DEF ResolveBatchContainers,
         VLsOf, SubsOf, HousesOf, FeedersOf, BaysOf, DirectOf, SectionsOf, RestOf
<1>2. Containers(s) = L1 \cup L2 \cup L3 \cup L4
  BY DEF Containers
<1>3. /\ vls = {x \in VLs(s) : RootAbove(s, x) \in B}
      /\ feeders = {x \in Feeders(s) : RootAbove(s, x) \in B}
      /\ bays = {x \in Bays(s) : RootAbove(s, x) \in B}
      /\ sections = {i \in I4 : RootAbove(s, In(s, i)) \in B}
      /\ \A i \in sections : /\ subOf(s.equip[i].in) = Place(s, In(s, i))
                             /\ BusbarID(s, i, vls) = BarName(s, i)
  BY BatchFinds DEF In
<1> HIDE DEF vls, feeders, bays, sections
<1>4. NoRef \notin Roots(s)
  BY PlacesAre
<1>5. K1 = {k \in L1 : Owner(k) \in B}
  BY DEF RootContainers, Owner, Cont
<1>6. K2 = {k \in L2 : Owner(k) \in B}
  <2>1. \A b \in Bays(s) : /\ RootAbove(s, b) = s.tree[s.tree[b].up].up
                           /\ s.tree[s.tree[b].up].up \in Roots(s)
    BY RootAboveIs, PlacesAre DEF Bays, VLs
  <2>2. \A b \in Bays(s) : Owner(Cont(b, "bay", s.tree[s.tree[b].up].up)) = RootAbove(s, b)
    BY <1>4, <2>1 DEF Owner, Cont
  <2> QED BY <1>3, <2>2
<1>7. K3 = {k \in L3 : Owner(k) \in B}
  <2>1. \A f \in Feeders(s) : RootAbove(s, f) = s.tree[f].up /\ s.tree[f].up \in Roots(s)
    BY RootAboveIs, PlacesAre DEF Feeders
  <2>2. \A f \in Feeders(s) : Owner(Cont(f, "bay", s.tree[f].up)) = RootAbove(s, f)
    BY <1>4, <2>1 DEF Owner, Cont
  <2> QED BY <1>3, <2>2
<1>8. K4 = {k \in L4 : Owner(k) \in B}
  <2>1. \A i \in I4 : Place(s, In(s, i)) = RootAbove(s, In(s, i)) /\ RootAbove(s, In(s, i)) \in Roots(s)
    BY RootAboveIs, PlacesAre DEF Section, Place, VLs
  <2>2. \A i \in I4 : Owner(Cont(BarName(s, i), "busbar", Place(s, In(s, i)))) = RootAbove(s, In(s, i))
    BY <1>4, <2>1 DEF Owner, Cont
  <2>3. K4 = {Cont(BarName(s, i), "busbar", Place(s, In(s, i))) : i \in sections}
    BY <1>3
  <2> HIDE DEF I4, K4
  <2> QED BY <1>3, <2>2, <2>3
<1> HIDE DEF K1, K2, K3, K4, L1, L2, L3, L4
<1> QED BY <1>1, <1>2, <1>5, <1>6, <1>7, <1>8

-----------------------------------------------------------------------------
(* Containers are what their IDs say.                                       *)

\* The kinds of containers, by their IDs.
LEMMA ContainerKinds ==
    ASSUME NEW s \in Sources, NEW k \in Containers(s)
    PROVE  \/ k.id \in Roots(s) /\ k = Cont(k.id, TypeOfRoot(s.tree[k.id].class), NoRef)
           \/ k.id \in Bays(s) /\ k = Cont(k.id, "bay", s.tree[s.tree[k.id].up].up)
           \/ k.id \in Feeders(s) /\ k = Cont(k.id, "bay", s.tree[k.id].up)
           \/ \E i \in DOMAIN s.equip : /\ Section(s, i) /\ k.id = BarName(s, i)
                                        /\ k = Cont(k.id, "busbar", Place(s, In(s, i)))
BY DEF Containers, RootContainers, Cont

\* Two sections have one busbar if they have one name.
LEMMA BarNameIs ==
    ASSUME NEW s \in Sources, NEW i \in DOMAIN s.equip, Section(s, i)
    PROVE  /\ BarName(s, i) \notin Roots(s) \cup Bays(s) \cup Feeders(s)
           /\ BarName(s, i) # NoRef
           /\ \A j \in DOMAIN s.equip : Section(s, j) /\ BarName(s, j) = BarName(s, i) =>
                 In(s, j) = In(s, i)
<1>1. \A j \in DOMAIN s.equip : Section(s, j) =>
         /\ s.equip[j].of \in DOMAIN BusbarOfBase
         /\ BarName(s, j) \in IF In(s, j) \in VLs(s) THEN VLs(s) ELSE Range(BusbarOfBase)
  BY SourceAssumption DEF SplitsTogether, Section, BarName, Range
<1>2. Range(BusbarOfBase) \cap DOMAIN s.tree = {} /\ NoRef \notin Range(BusbarOfBase)
  BY NameAssumption
<1>3. BarName(s, i) \notin Roots(s) \cup Bays(s) \cup Feeders(s) /\ BarName(s, i) # NoRef
  BY <1>1, <1>2, PlacesAre
<1>4. ASSUME NEW j \in DOMAIN s.equip, Section(s, j), BarName(s, j) = BarName(s, i) PROVE In(s, j) = In(s, i)
  <2>1. In(s, i) \in VLs(s) <=> In(s, j) \in VLs(s)
    BY <1>1, <1>2, <1>4, PlacesAre
  <2>2. CASE In(s, i) \in VLs(s)
    BY <1>4, <2>1, <2>2 DEF BarName
  <2>3. CASE In(s, i) \notin VLs(s)
    <3>1. BusbarOfBase[s.equip[i].of] = BusbarOfBase[s.equip[j].of]
      BY <1>4, <2>1, <2>3 DEF BarName
    <3>2. s.equip[i].of = s.equip[j].of
      BY <1>1, <1>4, <3>1, NameAssumption DEF IsInjective
    <3> QED BY <1>4, <3>2, SourceAssumption DEF SplitsTogether, Section, In
  <2> QED BY <2>2, <2>3
<1> QED BY <1>3, <1>4

\* An ID names one container.
LEMMA OneContainer ==
    ASSUME NEW s \in Sources, NEW k \in Containers(s), NEW l \in Containers(s), k.id = l.id
    PROVE  k = l
<1>1. CASE k.id \in Roots(s)
  BY <1>1, ContainerKinds, PlacesAre, BarNameIs
<1>2. CASE k.id \in Bays(s)
  BY <1>2, ContainerKinds, PlacesAre, BarNameIs
<1>3. CASE k.id \in Feeders(s)
  BY <1>3, ContainerKinds, PlacesAre, BarNameIs
<1>4. CASE k.id \notin Roots(s) \cup Bays(s) \cup Feeders(s)
  <2>1. PICK i \in DOMAIN s.equip : /\ Section(s, i) /\ k.id = BarName(s, i)
                                    /\ k = Cont(k.id, "busbar", Place(s, In(s, i)))
    BY <1>4, ContainerKinds
  <2>2. PICK j \in DOMAIN s.equip : /\ Section(s, j) /\ l.id = BarName(s, j)
                                    /\ l = Cont(l.id, "busbar", Place(s, In(s, j)))
    BY <1>4, ContainerKinds
  <2>3. In(s, i) = In(s, j)
    BY <2>1, <2>2, BarNameIs
  <2> QED BY <2>1, <2>2, <2>3
<1> QED BY <1>1, <1>2, <1>3, <1>4

\* stationOwnerOf gives the owner of a container, in every set that has it.
LEMMA OwnerIs ==
    ASSUME NEW s \in Sources, NEW C \in SUBSET Containers(s), NEW k \in C
    PROVE  StationOwnerOf(C, k.id) = Owner(k)
<1>1. \A l \in C : l.id = k.id => l = k
  BY OneContainer
<1>2. (CHOOSE l \in C : l.id = k.id) = k
  BY <1>1
<1>3. ParentOf(C, k.id) = k.parent
  BY <1>2 DEF ParentOf
<1> QED BY <1>3 DEF StationOwnerOf, Owner

\* The container of a member is one of its station's, and a busbar if it is a section.
LEMMA MemberIsIn ==
    ASSUME NEW s \in Sources, NEW i \in Members(s)
    PROVE  /\ i \in DOMAIN s.equip
           /\ \E k \in Containers(s) : /\ k.id = ContainerOf(s, i) /\ Owner(k) = StationOf(s, i)
                                       /\ k.type = "busbar" <=> Section(s, i)
<1>1. i \in DOMAIN s.equip /\ StationOf(s, i) # NoRef
  BY DEF Members
<1>2. NoRef \notin Roots(s)
  BY PlacesAre
<1>3. CASE Section(s, i)
  <2> DEFINE k == Cont(BarName(s, i), "busbar", Place(s, In(s, i)))
  <2>1. k \in Containers(s)
    BY <1>1, <1>3 DEF Containers
  <2>2. Seat(s, i) = In(s, i)
    BY <1>1, <1>3, SeatIs DEF Section
  <2>3. Place(s, In(s, i)) = RootAbove(s, In(s, i)) /\ RootAbove(s, In(s, i)) \in Roots(s)
    BY <1>3, RootAboveIs, PlacesAre DEF Section, Place, VLs
  <2>4. k.id = ContainerOf(s, i) /\ Owner(k) = StationOf(s, i) /\ k.type = "busbar"
    BY <1>2, <1>3, <2>2, <2>3 DEF ContainerOf, Owner, Cont, StationOf
  <2> HIDE DEF k
  <2> QED BY <1>1, <1>3, <2>1, <2>4
<1>4. CASE ~Section(s, i)
  <2> DEFINE x == Seat(s, i)  p == Place(s, x)
  <2>1. RootAbove(s, x) # NoRef
    BY <1>1 DEF StationOf
  <2>2. x \in Roots(s) \cup VLs(s) \cup Feeders(s) \cup Bays(s) /\ RootAbove(s, x) \in Roots(s)
    BY <2>1, PlacesAre
  <2>3. ContainerOf(s, i) = p
    BY <1>4 DEF ContainerOf
  <2> HIDE DEF x
  <2>4. CASE x \in Roots(s) \cup VLs(s)
    <3> DEFINE k == Cont(p, TypeOfRoot(s.tree[p].class), NoRef)
    <3>1. p \in Roots(s) /\ p = RootAbove(s, x)
      BY <2>2, <2>4, RootAboveIs, PlacesAre DEF Place
    <3>2. k \in Containers(s)
      BY <3>1 DEF Containers, RootContainers
    <3>3. k.id = p /\ Owner(k) = p
      BY DEF Cont, Owner
    <3>4. k.type # "busbar"
      <4>1. s.tree[p].class \in RootClasses
        BY <3>1 DEF Roots, OfClass
      <4>2. k.type = TypeOfRoot(s.tree[p].class)
        BY DEF Cont
      <4> QED BY <4>1, <4>2 DEF RootClasses, TypeOfRoot
    <3> HIDE DEF k
    <3> QED BY <1>1, <1>4, <2>3, <3>1, <3>2, <3>3, <3>4 DEF StationOf, x
  <2>5. CASE x \in Bays(s)
    <3> DEFINE k == Cont(x, "bay", s.tree[s.tree[x].up].up)
    <3>1. p = x /\ RootAbove(s, x) = s.tree[s.tree[x].up].up
      BY <2>5, RootAboveIs, PlacesAre DEF Place
    <3>2. k \in Containers(s)
      BY <2>5 DEF Containers
    <3>3. k.id = x /\ Owner(k) = RootAbove(s, x) /\ k.type # "busbar"
      BY <1>2, <2>2, <3>1 DEF Cont, Owner
    <3> HIDE DEF k
    <3> QED BY <1>1, <1>4, <2>3, <3>1, <3>2, <3>3 DEF StationOf, x
  <2>6. CASE x \in Feeders(s)
    <3> DEFINE k == Cont(x, "bay", s.tree[x].up)
    <3>1. p = x /\ RootAbove(s, x) = s.tree[x].up
      BY <2>6, RootAboveIs, PlacesAre DEF Place
    <3>2. k \in Containers(s)
      BY <2>6 DEF Containers
    <3>3. k.id = x /\ Owner(k) = RootAbove(s, x) /\ k.type # "busbar"
      BY <1>2, <2>2, <3>1 DEF Cont, Owner
    <3> HIDE DEF k
    <3> QED BY <1>1, <1>4, <2>3, <3>1, <3>2, <3>3 DEF StationOf, x
  <2> QED BY <2>2, <2>4, <2>5, <2>6
<1> QED BY <1>3, <1>4

-----------------------------------------------------------------------------
(* A batch yields for each of its stations what the station yields alone.   *)

\* The equipment of a station, and the sections among it, whatever else is there.
LEMMA EquipmentIs ==
    ASSUME NEW s \in Sources, NEW B \in SUBSET Roots(s), NEW c,
           c.of = BatchOf(s, B), c.containers = {k \in Containers(s) : Owner(k) \in B}
    PROVE  /\ \A r \in B : EquipmentOf(c, r) = {i \in Members(s) : StationOf(s, i) = r}
           /\ Roles(c) = {i \in Members(s) : StationOf(s, i) \in B /\ Section(s, i)}
<1>2. /\ DOMAIN c.of = {i \in Members(s) : StationOf(s, i) \in B}
      /\ \A i \in DOMAIN c.of : c.of[i] = ContainerOf(s, i)
  BY DEF BatchOf
<1>3. ASSUME NEW i \in DOMAIN c.of
      PROVE  /\ StationOwnerOf(c.containers, c.of[i]) = StationOf(s, i)
             /\ (\E k \in c.containers : k.type = "busbar" /\ k.id = c.of[i]) <=> Section(s, i)
  <2>1. PICK k \in Containers(s) : /\ k.id = ContainerOf(s, i) /\ Owner(k) = StationOf(s, i)
                                   /\ k.type = "busbar" <=> Section(s, i)
    BY <1>2, MemberIsIn
  <2>2. k \in c.containers /\ c.containers \in SUBSET Containers(s)
    BY <1>2, <2>1
  <2>3. StationOwnerOf(c.containers, k.id) = Owner(k)
    BY <2>2, OwnerIs
  <2>4. \A l \in c.containers : l.id = k.id => l = k
    BY <2>2, OneContainer
  <2> QED BY <1>2, <2>1, <2>2, <2>3, <2>4
<1>4. \A r \in B : EquipmentOf(c, r) = {i \in Members(s) : StationOf(s, i) = r}
  BY <1>2, <1>3 DEF EquipmentOf
<1>5. Roles(c) = {i \in Members(s) : StationOf(s, i) \in B /\ Section(s, i)}
  <2> DEFINE bars == {k.id : k \in {k \in c.containers : k.type = "busbar"}}
  <2>1. Roles(c) = {i \in DOMAIN c.of : c.of[i] \in bars}
    BY DEF Roles
  <2>2. \A i \in DOMAIN c.of : c.of[i] \in bars <=> Section(s, i)
    BY <1>3
  <2> HIDE DEF bars
  <2> QED BY <1>2, <2>1, <2>2
<1> QED BY <1>4, <1>5

\* A batch finds the equipment of each of its stations, and the sections among it.
LEMMA BatchEquipment ==
    ASSUME NEW s \in Sources, NEW B \in SUBSET Roots(s), NEW r \in B
    PROVE  LET c == ResolveBatchContainers(s, B)
           IN  /\ EquipmentOf(c, r) = {i \in Members(s) : StationOf(s, i) = r}
               /\ Roles(c) = {i \in Members(s) : StationOf(s, i) \in B /\ Section(s, i)}
               /\ c.of = BatchOf(s, B)
<1> DEFINE c == ResolveBatchContainers(s, B)
<1>1. c.of = BatchOf(s, B) /\ c.containers = {k \in Containers(s) : Owner(k) \in B}
  BY BatchPlaces, BatchContainers
<1> HIDE DEF c
<1>2. /\ EquipmentOf(c, r) = {i \in Members(s) : StationOf(s, i) = r}
      /\ Roles(c) = {i \in Members(s) : StationOf(s, i) \in B /\ Section(s, i)}
  BY <1>1, EquipmentIs
<1> QED BY <1>1, <1>2 DEF c

Alone(r) == StationTopologyOf(ResolveBatchContainers(src, {r}), r)
Groups(t) == BuildElectricalGroups(t.nodes, t.edges)

\* The topology of a station does not depend on the batch it is in.
LEMMA BatchTopology ==
    ASSUME src \in Sources, NEW B \in SUBSET Roots(src), NEW r \in B
    PROVE  StationTopologyOf(ResolveBatchContainers(src, B), r) = Alone(r)
<1> DEFINE c == ResolveBatchContainers(src, B)  d == ResolveBatchContainers(src, {r})
           I == {i \in Members(src) : StationOf(src, i) = r}
           roles == {i \in I : Section(src, i)}
           j == MergeJunctionNodes(ResolveTerminals(I, roles), roles)
           bar(x) == [i \in roles \cap DOMAIN j |-> BarOf(x, i)]
<1>1. /\ EquipmentOf(c, r) = I /\ c.of = BatchOf(src, B)
      /\ Roles(c) = {i \in Members(src) : StationOf(src, i) \in B /\ Section(src, i)}
  BY BatchEquipment
<1>2. /\ EquipmentOf(d, r) = I /\ d.of = BatchOf(src, {r})
      /\ Roles(d) = {i \in Members(src) : StationOf(src, i) \in {r} /\ Section(src, i)}
  BY BatchEquipment, {r} \in SUBSET Roots(src), r \in {r}
<1> HIDE DEF c, d
<1>3. I \cap Roles(c) = roles /\ I \cap Roles(d) = roles
  BY <1>1, <1>2
<1>4. \A i \in roles : BarOf(c, i) = ContainerOf(src, i) /\ BarOf(d, i) = ContainerOf(src, i)
  BY <1>1, <1>2 DEF BarOf, BatchOf
<1> HIDE DEF I, roles, j
<1>5. bar(c) = bar(d)
  BY <1>4
<1>6. MergeBusbarSectionNodes(j, c, roles) = MergeBusbarSectionNodes(j, d, roles)
  BY <1>5 DEF MergeBusbarSectionNodes
<1>7. Topology(c, I) = Topology(d, I)
  BY <1>3, <1>6 DEF Topology, j
<1> QED BY <1>1, <1>2, <1>7 DEF StationTopologyOf, Alone, c, d

\* The nodes of a piece of equipment that the batch notices.
Ended(s, i) == Section(s, i) \/ Len(s.equip[i].nodes) \in {1, 2}
Seen(s, i) == IF Ended(s, i) THEN ToSet(s.equip[i].nodes) ELSE {}

\* Only members of a station have edges in it, with one or two Terminals.
LEMMA EdgesOfMembers ==
    ASSUME src \in Sources, NEW r \in Roots(src)
    PROVE  \A e \in Alone(r).edges : e.id \in Members(src) /\ StationOf(src, e.id) = r /\ Ended(src, e.id)
<1> DEFINE d == ResolveBatchContainers(src, {r})
           I == {i \in Members(src) : StationOf(src, i) = r}
           roles == I \cap Roles(d)
           t == ResolveTerminals(I, roles)
           j == MergeJunctionNodes(t, roles)
           m == MergeBusbarSectionNodes(j, d, roles)
<1>1. /\ EquipmentOf(d, r) = I
      /\ Roles(d) = {i \in Members(src) : StationOf(src, i) \in {r} /\ Section(src, i)}
  BY BatchEquipment, {r} \in SUBSET Roots(src), r \in {r}
<1>2. Alone(r) = [nodes |-> BuildNodes(m, roles), edges |-> BuildEdges(m, roles)]
  BY <1>1 DEF Alone, StationTopologyOf, Topology
<1>3. \A i \in DOMAIN t : i \in I /\ Ended(src, i)
  BY <1>1 DEF ResolveTerminals, Classified, NodesOf, Ended
<1>4. DOMAIN j = DOMAIN t
  BY DEF MergeJunctionNodes, Renamed
<1>5. DOMAIN m = DOMAIN j
  BY DEF MergeBusbarSectionNodes, Renamed
<1> HIDE DEF m, j, t, roles
<1>6. \A e \in BuildEdges(m, roles) : e.id \in DOMAIN m
  BY DEF BuildEdges
<1> QED BY <1>2, <1>3, <1>4, <1>5, <1>6

\* No cable is in a station.
LEMMA CablesAreOutside ==
    ASSUME NEW s \in Sources, NEW i \in Members(s)
    PROVE  Class(s, i) # "cable"
<1> SUFFICES ASSUME Class(s, i) = "cable" PROVE FALSE
  OBVIOUS
<1>1. i \in DOMAIN s.equip /\ StationOf(s, i) # NoRef
  BY DEF Members
<1>2. In(s, i) = NoRef
  BY <1>1, SourceAssumption DEF CablesOutside, In
<1>3. Seat(s, i) = NoRef
  BY <1>1, <1>2, SeatIs
<1> QED BY <1>1, <1>3, PlacesAre DEF StationOf

\* What is derived from the source stays while the source does.
LEMMA SourceStays ==
    ASSUME src' = src
    PROVE  /\ Cables' = Cables /\ Stations' = Stations
           /\ \A r : Alone(r)' = Alone(r)
           /\ \A t : Groups(t)' = Groups(t)
<1>1. Cables' = Cables /\ Stations' = Stations
  BY DEF Cables, Stations, ClassOf
<1>2. ASSUME NEW I, NEW roles PROVE ResolveTerminals(I, roles)' = ResolveTerminals(I, roles)
  BY DEF ResolveTerminals, Classified, Ends, NodesOf
<1>3. ASSUME NEW r PROVE Alone(r)' = Alone(r)
  BY <1>2 DEF Alone, StationTopologyOf, Topology
<1>4. ASSUME NEW t PROVE Groups(t)' = Groups(t)
  BY DEF Groups, BuildElectricalGroups, Conducts, ClassOf
<1> QED BY <1>1, <1>3, <1>4

-----------------------------------------------------------------------------
(* The rows of the import, batch after batch.                               *)

Done == Stations \ todo

Built == /\ src \in Sources /\ todo \subseteq Stations
         /\ {e \in edges : e.id \notin Cables} = UNION {Alone(r).edges : r \in Done}
         /\ \A r \in Done : r \in DOMAIN groups /\ groups[r] = Groups(Alone(r))

\* Before the first batch nothing is built.
LEMMA InitBuilt == Init => Built
<1> SUFFICES ASSUME Init PROVE Built
  OBVIOUS
<1>1. Done = {}
  BY DEF Init, Done
<1> QED BY <1>1 DEF Init, Built

\* The rows of a batch, as those of its stations alone.
LEMMA BatchRows ==
    ASSUME Built, NEW B \in SUBSET todo, ProcessStationBatch(B)
    PROVE  /\ B \subseteq Roots(src) /\ B \subseteq Stations
           /\ edges' = edges \cup UNION {Alone(r).edges : r \in B}
           /\ nodes' = nodes \cup UNION {Alone(r).nodes : r \in B}
           /\ groups' = Over([r \in B |-> Groups(Alone(r))], groups)
           /\ src' = src /\ todo' = todo \ B /\ lines' = lines
<1> DEFINE c == ResolveBatchContainers(src, B)
           t == [r \in B |-> StationTopologyOf(c, r)]
           E == UNION {t[r].edges : r \in B}  N == UNION {t[r].nodes : r \in B}
           G == [r \in B |-> BuildElectricalGroups(t[r].nodes, t[r].edges)]
<1>1. B \subseteq Roots(src) /\ B \subseteq Stations /\ src \in Sources
  BY DEF Built, Stations, Roots
<1>2. /\ edges' = edges \cup E /\ nodes' = nodes \cup N /\ groups' = Over(G, groups)
      /\ src' = src /\ todo' = todo \ B /\ lines' = lines
  BY DEF ProcessStationBatch, Persist
<1>3. \A r \in B : t[r] = Alone(r)
  BY <1>1, BatchTopology
<1> HIDE DEF t
<1>4. E = UNION {Alone(r).edges : r \in B} /\ N = UNION {Alone(r).nodes : r \in B}
  BY <1>3
<1>5. G = [r \in B |-> Groups(Alone(r))]
  BY <1>3 DEF Groups
<1> QED BY <1>1, <1>2, <1>4, <1>5

\* A batch adds the rows of its stations, and Pass B those of the cables.
LEMMA StepBuilt == Built /\ [Next]_vars => Built'
<1> SUFFICES ASSUME Built, [Next]_vars PROVE Built'
  OBVIOUS
<1>1. ASSUME NEW B \in SUBSET todo, ProcessStationBatch(B) PROVE Built'
  <2>1. /\ B \subseteq Roots(src) /\ B \subseteq Stations
        /\ edges' = edges \cup UNION {Alone(r).edges : r \in B}
        /\ groups' = Over([r \in B |-> Groups(Alone(r))], groups)
        /\ src' = src /\ todo' = todo \ B
    BY <1>1, BatchRows
  <2>2. /\ Cables' = Cables /\ Stations' = Stations
        /\ \A r : Alone(r)' = Alone(r) /\ Groups(Alone(r))' = Groups(Alone(r))
    BY <2>1, SourceStays
  <2>3. Done' = Done \cup B
    BY <2>1, <2>2 DEF Done, Built
  <2>4. \A r \in B : \A e \in Alone(r).edges : e.id \notin Cables
    BY <2>1, EdgesOfMembers, CablesAreOutside DEF Built, Cables, ClassOf, Class
  <2>5. {e \in edges' : e.id \notin Cables}
          = {e \in edges : e.id \notin Cables} \cup UNION {Alone(r).edges : r \in B}
    BY <2>1, <2>4
  <2>6. {e \in edges' : e.id \notin Cables} = UNION {Alone(r).edges : r \in Done \cup B}
    BY <2>5 DEF Built
  <2>7. \A r \in Done \cup B : r \in DOMAIN groups' /\ groups'[r] = Groups(Alone(r))
    BY <2>1 DEF Built, Over
  <2>8. UNION {Alone(r)'.edges : r \in Done'} = UNION {Alone(r).edges : r \in Done \cup B}
    BY <2>2, <2>3
  <2> QED BY <2>1, <2>2, <2>3, <2>6, <2>7, <2>8 DEF Built
<1>2. ASSUME RunPassB PROVE Built'
  <2> DEFINE r == ResolveTerminals(Cables, {})
  <2>1. /\ src' = src /\ todo' = todo /\ edges' = edges \cup BuildEdges(r, {})
        /\ groups' = Put(PassBOwner, BuildElectricalGroups(BuildNodes(r, {}), BuildEdges(r, {})), groups)
    BY <1>2 DEF RunPassB
  <2>2. /\ Cables' = Cables /\ Stations' = Stations
        /\ \A x : Alone(x)' = Alone(x) /\ Groups(Alone(x))' = Groups(Alone(x))
    BY <2>1, SourceStays
  <2>3. Done' = Done
    BY <2>1, <2>2 DEF Done
  <2>4. \A e \in BuildEdges(r, {}) : e.id \in Cables
    BY DEF BuildEdges, ResolveTerminals
  <2>5. {e \in edges' : e.id \notin Cables} = {e \in edges : e.id \notin Cables}
    BY <2>1, <2>4
  <2>6. PassBOwner \notin Done
    BY PlacesAre DEF Built, Done, Stations, OfClass
  <2>7. \A x \in Done : x \in DOMAIN groups' /\ groups'[x] = Groups(Alone(x))
    BY <2>1, <2>6 DEF Built, Put
  <2>8. UNION {Alone(x)'.edges : x \in Done'} = UNION {Alone(x).edges : x \in Done}
    BY <2>2, <2>3
  <2> QED BY <2>1, <2>2, <2>3, <2>5, <2>7, <2>8 DEF Built
<1>3. ASSUME UNCHANGED vars PROVE Built'
  <2>1. /\ Cables' = Cables /\ Stations' = Stations
        /\ \A r : Alone(r)' = Alone(r) /\ Groups(Alone(r))' = Groups(Alone(r))
    BY <1>3, SourceStays DEF vars
  <2>2. UNION {Alone(r)'.edges : r \in Done'} = UNION {Alone(r).edges : r \in Done}
    BY <1>3, <2>1 DEF Done, vars
  <2> QED BY <1>3, <2>1, <2>2 DEF Built, Done, vars
<1> QED BY <1>1, <1>2, <1>3 DEF Next

\* The rows of a station are what it yields alone, whatever its batch held
\* besides it: how Pass A groups the stations does not show in edges or groups.
THEOREM BatchingDoesNotShow == Spec => []BatchingInvariant
<1>1. Built => BatchingInvariant
  <2> SUFFICES ASSUME Built, todo = {} PROVE BatchingInvariant
    BY DEF BatchingInvariant
  <2> DEFINE alone == [r \in Stations |-> StationTopologyOf(ResolveBatchContainers(src, {r}), r)]
  <2>1. Done = Stations
    BY DEF Done
  <2>2. \A r \in Stations : alone[r] = Alone(r)
    BY DEF Alone
  <2> HIDE DEF alone
  <2>3. UNION {alone[r].edges : r \in Stations} = UNION {Alone(r).edges : r \in Stations}
    BY <2>2
  <2>4. {e \in edges : e.id \notin Cables} = UNION {alone[r].edges : r \in Stations}
    BY <2>1, <2>3 DEF Built
  <2>5. \A r \in Stations : groups[r] = BuildElectricalGroups(alone[r].nodes, alone[r].edges)
    BY <2>1, <2>2 DEF Built, Groups
  <2> QED BY <2>4, <2>5 DEF BatchingInvariant, alone
<1> QED BY InitBuilt, StepBuilt, <1>1, PTL DEF Spec

-----------------------------------------------------------------------------
(* What the whole scan finds.                                               *)

\* The scan of the whole model resolves a reference as the batch walk does.
Resolved(s, x) == CASE x \in Bays(s) \cup Feeders(s) -> x [] x \in VLs(s) -> s.tree[x].up
                    [] x \in Subs(s) \cup Houses(s) -> x [] OTHER -> NoRef
\* A reference that resolves leads to the place of what it refers to.
LEMMA ResolvedIs ==
    ASSUME NEW s \in Sources, NEW x
    PROVE  /\ Resolved(s, x) # NoRef <=> RootAbove(s, x) # NoRef
           /\ Resolved(s, x) # NoRef => Resolved(s, x) = Place(s, x)
<1>1. /\ Roots(s) = Subs(s) \cup Houses(s)
      /\ (VLs(s) \cup Feeders(s) \cup Bays(s)) \cap Roots(s) = {}
      /\ VLs(s) \cap (Feeders(s) \cup Bays(s)) = {} /\ Feeders(s) \cap Bays(s) = {}
      /\ Roots(s) \cup VLs(s) \cup Feeders(s) \cup Bays(s) \subseteq DOMAIN s.tree
      /\ NoRef \notin DOMAIN s.tree
      /\ RootAbove(s, x) # NoRef <=> x \in Roots(s) \cup VLs(s) \cup Feeders(s) \cup Bays(s)
  BY PlacesAre
<1>2. \A v \in VLs(s) : s.tree[v].up \in Roots(s)
  BY <1>1 DEF VLs
<1>3. CASE x \in Bays(s) \cup Feeders(s)
  BY <1>1, <1>3 DEF Resolved, Place
<1>4. CASE x \in VLs(s)
  BY <1>1, <1>2, <1>4 DEF Resolved, Place
<1>5. CASE x \in Roots(s)
  BY <1>1, <1>5 DEF Resolved, Place
<1>6. CASE x \notin Roots(s) \cup VLs(s) \cup Feeders(s) \cup Bays(s)
  BY <1>1, <1>6 DEF Resolved
<1> QED BY <1>3, <1>4, <1>5, <1>6

\* What the scan finds, by name (the names of BuildContainers).
SectionsIn(s) == {i \in DOMAIN s.equip : Section(s, i)}
UnitsIn(s) == {u \in DOMAIN s.equip : Class(s, u) = "unit" /\ RootAbove(s, In(s, u)) # NoRef}
PecsIn(s) == {s.equip[u].of : u \in UnitsIn(s)}
RestIn(s) == {i \in DOMAIN s.equip : Class(s, i) \notin {"busbar", "cable", "generating", "unit"}}
FoundIn(s) == {i \in RestIn(s) \ PecsIn(s) : RootAbove(s, In(s, i)) # NoRef}

\* The result of the scan, in the terms of what a source says.
LEMMA ScanFinds ==
    ASSUME NEW s \in Sources
    PROVE  LET w == BuildContainers(s)
           IN  /\ w.containers = Containers(s)
               /\ w.of = Over([i \in SectionsIn(s) |-> BarName(s, i)],
                           Over([p \in PecsIn(s) |->
                                    Resolved(s, In(s, Min({u \in UnitsIn(s) : s.equip[u].of = p})))],
                                [i \in FoundIn(s) |-> Resolved(s, In(s, i))]))
               /\ {i \in DOMAIN s.equip : Class(s, i) = "busbar"} \ SectionsIn(s) \subseteq w.unplaced
<1> DEFINE subs == OfClass(s, {"Substation", "DistributionBox"})
           houses == OfClass(s, {"Building"})
           vls == {v \in OfClass(s, {"VoltageLevel"}) : s.tree[v].up \in subs}
           bays == {b \in OfClass(s, {"Bay"}) : s.tree[b].up \in vls}
           feeders == {f \in OfClass(s, {"Feeder"}) : s.tree[f].up \in subs}
           resolve(x) == CASE x \in bays \cup feeders -> x [] x \in vls -> s.tree[x].up
                           [] x \in subs \cup houses -> x [] OTHER -> NoRef
           E(classes) == {i \in DOMAIN s.equip : Class(s, i) \in classes}
           sections == {i \in E({"busbar"}) : s.equip[i].in \in vls \cup subs}
           units == {i \in E({"unit"}) : resolve(s.equip[i].in) # NoRef}
           rest == DOMAIN s.equip \ E({"busbar", "cable", "generating", "unit"})
           pecs == {s.equip[i].of : i \in units}
           found == {i \in rest \ pecs : resolve(s.equip[i].in) # NoRef}
           busbars == {Cont(BusbarID(s, i, vls), "busbar", resolve(s.equip[i].in)) : i \in sections}
           ofBars == [i \in sections |-> BusbarID(s, i, vls)]
           ofPecs == [p \in pecs |-> resolve(s.equip[Min({i \in units : s.equip[i].of = p})].in)]
           ofFound == [i \in found |-> resolve(s.equip[i].in)]
           stray == {i \in rest \ (pecs \cup found) : s.equip[i].in # NoRef}
<1>1. /\ BuildContainers(s).containers =
           RootContainers(s, subs \cup houses)
             \cup {Cont(b, "bay", s.tree[s.tree[b].up].up) : b \in bays}
             \cup {Cont(f, "bay", s.tree[f].up) : f \in feeders} \cup busbars
      /\ BuildContainers(s).of = Over(ofBars, Over(ofPecs, ofFound))
      /\ BuildContainers(s).unplaced = (E({"busbar"}) \ sections) \cup stray
  BY DEF BuildContainers
<1>2. subs = Subs(s) /\ houses = Houses(s)
  BY DEF Subs, Houses
<1>3. vls = VLs(s)
  BY DEF VLs, Subs
<1> HIDE DEF vls
<1>4. bays = Bays(s)
  BY <1>3 DEF Bays, VLs
<1>5. feeders = Feeders(s)
  BY DEF Feeders, Subs
<1> HIDE DEF subs, houses, bays, feeders
<1>6. \A x : resolve(x) = Resolved(s, x)
  BY <1>2, <1>3, <1>4, <1>5 DEF Resolved
<1> HIDE DEF resolve
<1>7. E({"busbar"}) = {i \in DOMAIN s.equip : Class(s, i) = "busbar"}
  OBVIOUS
<1>8. sections = SectionsIn(s)
  BY <1>2, <1>3 DEF SectionsIn, Section, In
<1>9. units = UnitsIn(s)
  BY <1>6, ResolvedIs DEF UnitsIn, In
<1>10. rest = RestIn(s)
  BY DEF RestIn
<1> HIDE DEF sections, units, rest, E
<1>11. pecs = PecsIn(s)
  BY <1>9 DEF PecsIn
<1> HIDE DEF pecs
<1>12. found = FoundIn(s)
  BY <1>6, <1>10, <1>11, ResolvedIs DEF FoundIn, In
<1> HIDE DEF found
<1>13. /\ Roots(s) = subs \cup houses
       /\ \A i \in SectionsIn(s) : /\ BusbarID(s, i, vls) = BarName(s, i)
                                   /\ resolve(s.equip[i].in) = Place(s, In(s, i))
  <2>1. \A i \in SectionsIn(s) : Resolved(s, In(s, i)) = Place(s, In(s, i))
    BY ResolvedIs, PlacesAre DEF SectionsIn, Section
  <2> QED BY <1>2, <1>3, <1>6, <2>1, PlacesAre DEF BusbarID, BarName, In
<1>14. busbars = {Cont(BarName(s, i), "busbar", Place(s, In(s, i))) : i \in {i \in DOMAIN s.equip : Section(s, i)}}
  BY <1>8, <1>13 DEF SectionsIn
<1>15. ofBars = [i \in SectionsIn(s) |-> BarName(s, i)]
  BY <1>8, <1>13
<1>16. ofPecs = [p \in PecsIn(s) |-> Resolved(s, In(s, Min({u \in UnitsIn(s) : s.equip[u].of = p})))]
  BY <1>6, <1>9, <1>11 DEF In
<1>17. ofFound = [i \in FoundIn(s) |-> Resolved(s, In(s, i))]
  BY <1>6, <1>12 DEF In
<1> HIDE DEF busbars, ofBars, ofPecs, ofFound, stray
<1>18. BuildContainers(s).containers = Containers(s)
  BY <1>1, <1>4, <1>5, <1>13, <1>14 DEF Containers
<1>19. BuildContainers(s).of = Over([i \in SectionsIn(s) |-> BarName(s, i)],
         Over([p \in PecsIn(s) |-> Resolved(s, In(s, Min({u \in UnitsIn(s) : s.equip[u].of = p})))],
              [i \in FoundIn(s) |-> Resolved(s, In(s, i))]))
  BY <1>1, <1>15, <1>16, <1>17
<1>20. {i \in DOMAIN s.equip : Class(s, i) = "busbar"} \ SectionsIn(s) \subseteq BuildContainers(s).unplaced
  BY <1>1, <1>7, <1>8
<1> QED BY <1>18, <1>19, <1>20

\* The scan places equipment where the batches place it. Only sections that are
\* neither in a station nor in a VoltageLevel have a place in a batch alone.
LEMMA ScanPlaces ==
    ASSUME NEW s \in Sources
    PROVE  LET w == BuildContainers(s)
           IN  /\ \A i \in DOMAIN w.of : i \in Members(s) /\ w.of[i] = ContainerOf(s, i)
               /\ \A i \in Members(s) \ DOMAIN w.of : Class(s, i) = "busbar" /\ i \in w.unplaced
<1> DEFINE w == BuildContainers(s)
           bars == [i \in SectionsIn(s) |-> BarName(s, i)]
           first(p) == Min({u \in UnitsIn(s) : s.equip[u].of = p})
           pecs == [p \in PecsIn(s) |-> Resolved(s, In(s, first(p)))]
           found == [i \in FoundIn(s) |-> Resolved(s, In(s, i))]
<1>1. /\ w.of = Over(bars, Over(pecs, found))
      /\ {i \in DOMAIN s.equip : Class(s, i) = "busbar"} \ SectionsIn(s) \subseteq w.unplaced
  BY ScanFinds
<1> HIDE DEF w
<1>2. /\ DOMAIN w.of = SectionsIn(s) \cup PecsIn(s) \cup FoundIn(s)
      /\ \A i \in SectionsIn(s) : w.of[i] = BarName(s, i)
      /\ \A i \in PecsIn(s) \ SectionsIn(s) : w.of[i] = Resolved(s, In(s, first(i)))
      /\ \A i \in FoundIn(s) \ (PecsIn(s) \cup SectionsIn(s)) : w.of[i] = Resolved(s, In(s, i))
  BY <1>1 DEF Over
<1>3. \A p \in PecsIn(s) : /\ first(p) \in Units(s, p) /\ p \in DOMAIN s.equip
  <2> SUFFICES ASSUME NEW p \in PecsIn(s)
               PROVE  first(p) \in Units(s, p) /\ p \in DOMAIN s.equip
    OBVIOUS
  <2> DEFINE U == {u \in UnitsIn(s) : s.equip[u].of = p}
  <2>1. U # {} /\ U \in SUBSET Nat
    BY SourceAssumption DEF PecsIn, UnitsIn
  <2>2. Min(U) \in U
    BY <2>1, MinIs
  <2>3. U = Units(s, p)
    BY DEF Units, UnitsIn
  <2>4. p \in DOMAIN s.equip
    BY <2>1, SourceAssumption DEF UnitsIn, SatellitesAgree
  <2> HIDE DEF U
  <2> QED BY <2>2, <2>3, <2>4 DEF U
<1>4. \A i \in DOMAIN s.equip : Units(s, i) # {} => i \in PecsIn(s)
  BY DEF Units, UnitsIn, PecsIn
<1> HIDE DEF first, bars, pecs, found
<1>5. ASSUME NEW i \in SectionsIn(s) PROVE i \in Members(s) /\ w.of[i] = ContainerOf(s, i)
  <2>1. i \in DOMAIN s.equip /\ Section(s, i) /\ Class(s, i) = "busbar"
    BY DEF SectionsIn, Section
  <2>2. Seat(s, i) = In(s, i)
    BY <2>1, SeatIs
  <2>3. RootAbove(s, In(s, i)) # NoRef
    BY <2>1, PlacesAre DEF Section
  <2> QED BY <1>2, <2>1, <2>2, <2>3 DEF Members, StationOf, ContainerOf
<1>6. ASSUME NEW i \in PecsIn(s) PROVE i \in Members(s) /\ i \notin SectionsIn(s) /\ w.of[i] = ContainerOf(s, i)
  <2>1. i \in DOMAIN s.equip /\ first(i) \in Units(s, i)
    BY <1>3
  <2>2. Class(s, i) = "device" /\ StationOf(s, i) # NoRef /\ In(s, first(i)) = Seat(s, i)
    BY <2>1, SeatIs
  <2>3. ~Section(s, i) /\ i \notin SectionsIn(s)
    BY <2>2 DEF Section, SectionsIn
  <2>4. Resolved(s, Seat(s, i)) = Place(s, Seat(s, i))
    BY <2>2, ResolvedIs DEF StationOf
  <2> QED BY <1>2, <2>1, <2>2, <2>3, <2>4 DEF Members, ContainerOf
<1>7. ASSUME NEW i \in FoundIn(s) PROVE i \in Members(s) /\ w.of[i] = ContainerOf(s, i)
  <2>1. /\ i \in DOMAIN s.equip /\ i \notin PecsIn(s) /\ RootAbove(s, In(s, i)) # NoRef
        /\ Class(s, i) \notin {"busbar", "unit", "generating"}
    BY DEF FoundIn, RestIn
  <2>2. Seat(s, i) = In(s, i)
    BY <1>4, <2>1, SeatIs
  <2>3. ~Section(s, i) /\ i \notin SectionsIn(s)
    BY <2>1 DEF Section, SectionsIn
  <2> QED BY <1>2, <2>1, <2>2, <2>3, ResolvedIs DEF Members, StationOf, ContainerOf
<1>8. ASSUME NEW i \in Members(s) \ DOMAIN w.of PROVE Class(s, i) = "busbar" /\ i \in w.unplaced
  <2>1. i \in DOMAIN s.equip /\ StationOf(s, i) # NoRef /\ Class(s, i) \notin {"unit", "generating", "cable"}
    BY CablesAreOutside DEF Members
  <2>2. Seat(s, i) = In(s, i)
    BY <1>2, <1>4, <2>1, SeatIs
  <2>3. Class(s, i) = "busbar"
    BY <1>2, <2>1, <2>2 DEF FoundIn, RestIn, StationOf
  <2> QED BY <1>1, <1>2, <2>1, <2>3
<1> QED BY <1>2, <1>5, <1>6, <1>7, <1>8 DEF w

-----------------------------------------------------------------------------
(* The rules about containers.                                              *)

\* No path is wrong in the containers of any stations.
LEMMA PathsFit ==
    ASSUME NEW s \in Sources, NEW B \in SUBSET Roots(s)
    PROVE  CheckContainerPaths({k \in Containers(s) : Owner(k) \in B}) = {}
<1> DEFINE C == {k \in Containers(s) : Owner(k) \in B}
           nested(k) == \E p \in C : p.id = k.parent /\ p.type \in {"substation", "distribution-box"}
           fits(k) == CASE k.type \in {"substation", "distribution-box"} -> k.parent = NoRef
                        [] k.type \in {"bay", "busbar"} -> nested(k)
                        [] OTHER -> TRUE
<1>1. CheckContainerPaths(C) = {<<"container-path", k.id>> : k \in {k \in C : ~fits(k)}}
  BY DEF CheckContainerPaths
<1>2. NoRef \notin Roots(s)
  BY PlacesAre
<1>3. ASSUME NEW r \in Subs(s), r \in B
      PROVE  \E p \in C : p.id = r /\ p.type \in {"substation", "distribution-box"}
  <2> DEFINE p == Cont(r, TypeOfRoot(s.tree[r].class), NoRef)
  <2>1. r \in Roots(s) /\ p \in Containers(s)
    BY PlacesAre DEF Containers, RootContainers
  <2>2. p.id = r /\ p.parent = NoRef /\ p.type = TypeOfRoot(s.tree[r].class)
    BY DEF Cont
  <2>3. s.tree[r].class \in {"Substation", "DistributionBox"}
    BY DEF Subs, OfClass
  <2>4. p.type \in {"substation", "distribution-box"}
    BY <2>2, <2>3 DEF TypeOfRoot
  <2>5. Owner(p) = r
    BY <2>2 DEF Owner
  <2> HIDE DEF p
  <2> QED BY <1>3, <2>1, <2>2, <2>4, <2>5
<1>4. ASSUME NEW k \in C PROVE fits(k)
  <2>1. k \in Containers(s) /\ Owner(k) \in B
    OBVIOUS
  <2>2. CASE k.id \in Roots(s) /\ k = Cont(k.id, TypeOfRoot(s.tree[k.id].class), NoRef)
    <3>1. k.parent = NoRef /\ k.type = TypeOfRoot(s.tree[k.id].class) /\ s.tree[k.id].class \in RootClasses
      BY <2>2 DEF Cont, Roots, OfClass
    <3>2. k.type \in {"substation", "distribution-box", "house"}
      BY <3>1 DEF RootClasses, TypeOfRoot
    <3> HIDE DEF nested, C
    <3> QED BY <3>1, <3>2
  <2>3. ASSUME k.type \in {"bay", "busbar"}, k.parent \in Subs(s) PROVE fits(k)
    <3>1. k.parent \in B
      BY <1>2, <2>1, <2>3, PlacesAre DEF Owner
    <3>2. nested(k)
      BY <1>3, <2>3, <3>1
    <3> HIDE DEF nested, C
    <3> QED BY <2>3, <3>2
  <2>4. CASE k.id \in Bays(s) /\ k = Cont(k.id, "bay", s.tree[s.tree[k.id].up].up)
    <3>1. k.type = "bay" /\ k.parent \in Subs(s)
      BY <2>4 DEF Cont, Bays, VLs
    <3> QED BY <2>3, <3>1
  <2>5. CASE k.id \in Feeders(s) /\ k = Cont(k.id, "bay", s.tree[k.id].up)
    <3>1. k.type = "bay" /\ k.parent \in Subs(s)
      BY <2>5 DEF Cont, Feeders
    <3> QED BY <2>3, <3>1
  <2>6. CASE \E i \in DOMAIN s.equip : /\ Section(s, i) /\ k.id = BarName(s, i)
                                       /\ k = Cont(k.id, "busbar", Place(s, In(s, i)))
    <3>1. PICK i \in DOMAIN s.equip : Section(s, i) /\ k = Cont(k.id, "busbar", Place(s, In(s, i)))
      BY <2>6
    <3>2. Place(s, In(s, i)) \in Subs(s)
      BY <3>1 DEF Section, Place, VLs
    <3>3. k.type = "busbar" /\ k.parent \in Subs(s)
      BY <3>1, <3>2 DEF Cont
    <3> QED BY <2>3, <3>3
  <2> HIDE DEF fits, nested, C
  <2> QED BY <2>1, <2>2, <2>4, <2>5, <2>6, ContainerKinds
<1> HIDE DEF fits, nested, C
<1>5. {k \in C : ~fits(k)} = {}
  BY <1>4
<1>6. CheckContainerPaths(C) = {}
  BY <1>1, <1>5
<1> QED BY <1>6 DEF C

\* Every container is of one station.
LEMMA OwnersAreRoots ==
    ASSUME NEW s \in Sources
    PROVE  \A k \in Containers(s) : Owner(k) \in Roots(s)
<1> SUFFICES ASSUME NEW k \in Containers(s) PROVE Owner(k) \in Roots(s)
  OBVIOUS
<1>1. NoRef \notin Roots(s) /\ Subs(s) \subseteq Roots(s)
  BY PlacesAre
<1>2. \A i \in DOMAIN s.equip : Section(s, i) => Place(s, In(s, i)) \in Subs(s)
  BY DEF Section, Place, VLs
<1>3. \/ k.id \in Roots(s) /\ k.parent = NoRef
      \/ k.parent \in Subs(s)
  BY <1>2, ContainerKinds DEF Cont, Bays, Feeders, VLs
<1> QED BY <1>1, <1>3 DEF Owner

\* The transformers of some stations that are directly in a KVS.
InKVS(s, i) == \E k \in Containers(s) : k.id = ContainerOf(s, i) /\ k.type = "distribution-box"
KVSReports(s, D) == {<<"kvs-no-transformer", i>> : i \in {i \in Members(s) :
                        StationOf(s, i) \in D /\ Class(s, i) = "transformer" /\ InKVS(s, i)}}

\* A batch reports the transformers that are directly in a KVS of its stations.
LEMMA BatchReports ==
    ASSUME NEW s \in Sources, NEW B \in SUBSET Roots(s)
    PROVE  KVSTransformers(s, ResolveBatchContainers(s, B)) = KVSReports(s, B)
<1> DEFINE c == ResolveBatchContainers(s, B)
           I == {i \in DOMAIN c.of : /\ Class(s, i) = "transformer"
                    /\ \E k \in c.containers : k.id = c.of[i] /\ k.type = "distribution-box"}
           J == {i \in Members(s) : StationOf(s, i) \in B /\ Class(s, i) = "transformer" /\ InKVS(s, i)}
<1>1. c.of = BatchOf(s, B) /\ c.containers = {k \in Containers(s) : Owner(k) \in B}
  BY BatchPlaces, BatchContainers
<1>2. KVSTransformers(s, c) = {<<"kvs-no-transformer", i>> : i \in I}
  BY DEF KVSTransformers
<1> HIDE DEF c
<1>3. /\ DOMAIN c.of = {i \in Members(s) : StationOf(s, i) \in B}
      /\ \A i \in DOMAIN c.of : c.of[i] = ContainerOf(s, i)
  BY <1>1 DEF BatchOf
<1>4. ASSUME NEW i \in Members(s), StationOf(s, i) \in B
      PROVE  (\E k \in c.containers : k.id = c.of[i] /\ k.type = "distribution-box") <=> InKVS(s, i)
  <2>1. PICK l \in Containers(s) : l.id = ContainerOf(s, i) /\ Owner(l) = StationOf(s, i)
    BY MemberIsIn
  <2>2. \A k \in Containers(s) : k.id = ContainerOf(s, i) => k = l
    BY <2>1, OneContainer
  <2> QED BY <1>1, <1>3, <1>4, <2>1, <2>2 DEF InKVS
<1>5. I = J
  BY <1>3, <1>4
<1> HIDE DEF I, J
<1>6. KVSTransformers(s, c) = {<<"kvs-no-transformer", i>> : i \in J}
  BY <1>2, <1>5
<1> QED BY <1>6 DEF KVSReports, J, c

\* The checks over the whole scan report those of all the stations.
LEMMA ScanReports ==
    ASSUME NEW s \in Sources
    PROVE  LET w == BuildContainers(s)
           IN  KVSTransformers(s, w) \cup CheckContainerPaths(w.containers) = KVSReports(s, Roots(s))
<1> DEFINE w == BuildContainers(s)
           I == {i \in DOMAIN w.of : /\ Class(s, i) = "transformer"
                    /\ \E k \in w.containers : k.id = w.of[i] /\ k.type = "distribution-box"}
           J == {i \in Members(s) : StationOf(s, i) \in Roots(s) /\ Class(s, i) = "transformer" /\ InKVS(s, i)}
<1>1. w.containers = Containers(s)
  BY ScanFinds
<1>2. /\ \A i \in DOMAIN w.of : i \in Members(s) /\ w.of[i] = ContainerOf(s, i)
      /\ \A i \in Members(s) \ DOMAIN w.of : Class(s, i) = "busbar"
  BY ScanPlaces
<1>3. KVSTransformers(s, w) = {<<"kvs-no-transformer", i>> : i \in I}
  BY DEF KVSTransformers
<1> HIDE DEF w
<1>4. \A i \in Members(s) : StationOf(s, i) \in Roots(s)
  BY PlacesAre DEF Members, StationOf
<1>5. I = J
  BY <1>1, <1>2, <1>4 DEF InKVS
<1>6. \A k \in Containers(s) : Owner(k) \in Roots(s)
  BY OwnersAreRoots
<1>7. w.containers = {k \in Containers(s) : Owner(k) \in Roots(s)}
  BY <1>1, <1>6
<1>8. CheckContainerPaths(w.containers) = {}
  BY <1>7, PathsFit
<1> HIDE DEF I, J
<1>9. KVSTransformers(s, w) = {<<"kvs-no-transformer", i>> : i \in J}
  BY <1>3, <1>5
<1> QED BY <1>8, <1>9 DEF KVSReports, J, w

\* What the check of a station's connectivity reports is a rule of its own.
LEMMA ConnectivityReports ==
    ASSUME NEW N, NEW E, NEW c
    PROVE  \A v \in CheckStationConnectivity(N, E, c) : v[1] = "station-connectivity"
<1> DEFINE owner(k) == StationOwnerOf(c.containers, c.of[k])
           own == [n \in N \cap DOMAIN c.of |-> owner(n)]
           within == {e \in E : {e.t1, e.t2} \subseteq DOMAIN own
                                 /\ own[e.t1] = owner(e.id) /\ own[e.t2] = owner(e.id)}
           root == UnionFind(DOMAIN own, PairsOf(within))
           parts(r) == {root[n] : n \in {n \in DOMAIN own : own[n] = r}}
           R == {r \in Range(own) : Cardinality(parts(r)) > 1}
<1>1. CheckStationConnectivity(N, E, c) = {<<"station-connectivity", r>> : r \in R}
  BY DEF CheckStationConnectivity
<1> HIDE DEF R
<1> QED BY <1>1

\* The containers of the stations that have been processed, and what is reported.
Placed == /\ src \in Sources /\ todo \subseteq Stations
          /\ placed.containers = {k \in Containers(src) : Owner(k) \in Done}
          /\ placed.of = BatchOf(src, Done)
          /\ {v \in reports : v[1] # "station-connectivity"} = KVSReports(src, Done)

\* Before the first batch nothing is placed.
LEMMA InitPlaced == Init => Placed
<1> SUFFICES ASSUME Init PROVE Placed
  OBVIOUS
<1>1. Done = {}
  BY DEF Init, Done
<1>2. placed = [containers |-> {}, of |-> NoRow] /\ reports = {} /\ src \in Sources /\ todo = Stations
  BY DEF Init
<1>3. BatchOf(src, {}) = NoRow
  BY DEF BatchOf, NoRow
<1>4. KVSReports(src, {}) = {}
  BY DEF KVSReports
<1> QED BY <1>1, <1>2, <1>3, <1>4 DEF Placed

\* A batch places the members of its stations, and nothing else does.
LEMMA StepPlaced == Placed /\ [Next]_vars => Placed'
<1> SUFFICES ASSUME Placed, [Next]_vars PROVE Placed'
  OBVIOUS
<1>1. ASSUME NEW B \in SUBSET todo, ProcessStationBatch(B) PROVE Placed'
  <2> DEFINE c == ResolveBatchContainers(src, B)
             t == [r \in B |-> StationTopologyOf(c, r)]
             odd == CheckStationConnectivity(UNION {t[r].nodes : r \in B}, UNION {t[r].edges : r \in B}, c)
  <2>1. B \subseteq Roots(src) /\ B \subseteq Stations /\ src \in Sources
    BY DEF Placed, Stations, Roots
  <2>2. /\ placed' = [containers |-> placed.containers \cup c.containers, of |-> Over(c.of, placed.of)]
        /\ reports' = reports \cup odd \cup CheckContainerPaths(c.containers) \cup KVSTransformers(src, c)
        /\ src' = src /\ todo' = todo \ B
    BY <1>1 DEF ProcessStationBatch, Persist
  <2>3. \A v \in odd : v[1] = "station-connectivity"
    BY ConnectivityReports
  <2>4. c.of = BatchOf(src, B) /\ c.containers = {k \in Containers(src) : Owner(k) \in B}
    BY <2>1, BatchPlaces, BatchContainers
  <2>5. CheckContainerPaths(c.containers) = {} /\ KVSTransformers(src, c) = KVSReports(src, B)
    BY <2>1, <2>4, PathsFit, BatchReports
  <2> HIDE DEF c, odd, t
  <2>6. Stations' = Stations /\ Done' = Done \cup B
    BY <2>1, <2>2 DEF Done, Placed, Stations
  <2>7. placed'.containers = {k \in Containers(src) : Owner(k) \in Done \cup B}
    BY <2>2, <2>4 DEF Placed
  <2>8. placed'.of = BatchOf(src, Done \cup B)
    <3>1. placed'.of = Over(BatchOf(src, B), BatchOf(src, Done))
      BY <2>2, <2>4 DEF Placed
    <3>2. DOMAIN Over(BatchOf(src, B), BatchOf(src, Done))
            = {i \in Members(src) : StationOf(src, i) \in Done \cup B}
      BY DEF Over, BatchOf
    <3> QED BY <3>1, <3>2 DEF Over, BatchOf
  <2>9. \A v \in KVSReports(src, B) : v[1] = "kvs-no-transformer"
    BY DEF KVSReports
  <2>10. {v \in reports' : v[1] # "station-connectivity"} = KVSReports(src, Done) \cup KVSReports(src, B)
    BY <2>2, <2>3, <2>5, <2>9 DEF Placed
  <2>11. KVSReports(src, Done) \cup KVSReports(src, B) = KVSReports(src, Done \cup B)
    BY DEF KVSReports
  <2> QED BY <2>1, <2>2, <2>6, <2>7, <2>8, <2>10, <2>11 DEF Placed
<1>2. ASSUME UNCHANGED <<src, todo, placed, reports>> PROVE Placed'
  <2>1. Done' = Done /\ Stations' = Stations
    BY <1>2 DEF Done, Stations
  <2> QED BY <1>2, <2>1 DEF Placed
<1>3. CASE RunPassB
  BY <1>2, <1>3 DEF RunPassB
<1>4. CASE UNCHANGED vars
  BY <1>2, <1>4 DEF vars
<1> QED BY <1>1, <1>3, <1>4 DEF Next

\* What the batches found is what one scan of the whole model finds: containers, the
\* place of every piece of equipment, and what the rules about containers report.
THEOREM BatchesMatchWhole == Spec => []ContainersMatchWhole
<1>1. Placed => ContainersMatchWhole
  <2> SUFFICES ASSUME Placed, todo = {} PROVE ContainersMatchWhole
    BY DEF ContainersMatchWhole
  <2> DEFINE whole == BuildContainers(src)
  <2>1. src \in Sources /\ Done = Roots(src)
    BY DEF Placed, Done, Stations, Roots
  <2>2. \A k \in Containers(src) : Owner(k) \in Roots(src)
    BY <2>1, OwnersAreRoots
  <2>3. whole.containers = Containers(src)
    BY <2>1, ScanFinds
  <2>4. /\ \A i \in DOMAIN whole.of : i \in Members(src) /\ whole.of[i] = ContainerOf(src, i)
        /\ \A i \in Members(src) \ DOMAIN whole.of : Class(src, i) = "busbar" /\ i \in whole.unplaced
    BY <2>1, ScanPlaces
  <2>5. KVSTransformers(src, whole) \cup CheckContainerPaths(whole.containers) = KVSReports(src, Roots(src))
    BY <2>1, ScanReports
  <2> HIDE DEF whole
  <2>6. \A i \in Members(src) : StationOf(src, i) \in Roots(src)
    BY <2>1, PlacesAre DEF Members, StationOf
  <2>7. /\ DOMAIN placed.of = Members(src)
        /\ \A i \in DOMAIN placed.of : placed.of[i] = ContainerOf(src, i)
    BY <2>1, <2>6 DEF Placed, BatchOf
  <2>8. placed.containers = whole.containers
    BY <2>1, <2>2, <2>3 DEF Placed
  <2>9. {v \in reports : v[1] # "station-connectivity"}
          = KVSTransformers(src, whole) \cup CheckContainerPaths(whole.containers)
    BY <2>1, <2>5 DEF Placed
  <2>10. \A i \in DOMAIN whole.of : i \in DOMAIN placed.of /\ placed.of[i] = whole.of[i]
    BY <2>4, <2>7
  <2>11. \A i \in DOMAIN placed.of \ DOMAIN whole.of : ClassOf(i) = "busbar" /\ i \in whole.unplaced
    BY <2>4, <2>7 DEF ClassOf, Class
  <2> QED BY <2>8, <2>9, <2>10, <2>11 DEF ContainersMatchWhole, whole
<1> QED BY InitPlaced, StepPlaced, <1>1, PTL DEF Spec

-----------------------------------------------------------------------------
(* The flags.                                                               *)

\* The IDs of ConnectivityNodes are none of the two numbers that mean no node.
LEMMA NodesAre ==
    ASSUME NEW s \in Sources, NEW i \in DOMAIN s.equip
    PROVE  /\ s.equip[i].nodes \in Seq(Nat)
           /\ ToSet(s.equip[i].nodes) = {s.equip[i].nodes[k] : k \in 1 .. Len(s.equip[i].nodes)}
           /\ ToSet(s.equip[i].nodes) \in SUBSET Nat
           /\ \A n \in ToSet(s.equip[i].nodes) : n # NoNode /\ n # GND
           /\ NodesIn(s, {i}) = ToSet(s.equip[i].nodes)
<1> DEFINE q == s.equip[i].nodes
<1>1. q \in Seq(Nat)
  BY SourceAssumption
<1>2. \A n \in NodesIn(s, DOMAIN s.equip) : n >= FirstNode
  BY SourceAssumption
<1>3. NodesIn(s, {i}) = ToSet(q)
  BY DEF NodesIn
<1>4. \A n \in ToSet(q) : n \in NodesIn(s, DOMAIN s.equip)
  BY DEF NodesIn
<1> HIDE DEF q
<1>5. ToSet(q) = {q[k] : k \in 1 .. Len(q)}
  BY <1>1 DEF ToSet
<1>6. ToSet(q) \in SUBSET Nat
  BY <1>1, <1>5
<1>7. \A n \in ToSet(q) : n # NoNode /\ n # GND
  BY <1>2, <1>4, <1>6 DEF FirstNode, NoNode, GND
<1> QED BY <1>1, <1>3, <1>5, <1>6, <1>7 DEF q

\* What is marked as referenced: all the nodes of what is resolved.
LEMMA MarkedNodes ==
    ASSUME src \in Sources, NEW I \in SUBSET DOMAIN src.equip, NEW roles,
           \A i \in I : i \in roles <=> Section(src, i)
    PROVE  RawNodes(ResolveTerminals(I, roles)) \ {NoNode, GND} = UNION {Seen(src, i) : i \in I}
<1> DEFINE r == ResolveTerminals(I, roles)
           touches(i) == {r[i].first, r[i].second} \cup r[i].extra
<1>1. RawNodes(r) = UNION {touches(i) : i \in DOMAIN r}
  BY DEF RawNodes
<1>2. /\ DOMAIN r = {i \in I : Classified(i, roles)}
      /\ \A i \in DOMAIN r : r[i] = Ends(i, roles)
  BY DEF ResolveTerminals
<1> HIDE DEF r
<1>3. ASSUME NEW i \in DOMAIN r PROVE touches(i) \ {NoNode, GND} = Seen(src, i)
  <2> DEFINE q == src.equip[i].nodes
  <2>1. i \in I /\ Classified(i, roles) /\ r[i] = Ends(i, roles) /\ i \in DOMAIN src.equip
    BY <1>2
  <2>2. /\ q \in Seq(Nat) /\ ToSet(q) = {q[k] : k \in 1 .. Len(q)} /\ ToSet(q) \in SUBSET Nat
        /\ \A n \in ToSet(q) : n # NoNode /\ n # GND
    BY <2>1, NodesAre
  <2>3. NodesOf(i) = q
    BY DEF NodesOf
  <2>4. Seen(src, i) = ToSet(q)
    BY <2>1, <2>3 DEF Seen, Ended, Classified
  <2> HIDE DEF q
  <2>5. CASE i \in roles
    <3>1. Len(q) >= 1
      BY <2>1, <2>3, <2>5 DEF Classified
    <3>2. ToSet(q) # {}
      <4>1. 1 \in 1 .. Len(q)
        BY <2>2, <3>1
      <4> QED BY <2>2, <4>1
    <3>3. Min(ToSet(q)) \in ToSet(q)
      BY <2>2, <3>2, MinIs
    <3>4. r[i] = [first |-> Min(ToSet(q)), second |-> NoNode, extra |-> ToSet(q) \ {Min(ToSet(q))}]
      BY <2>1, <2>3, <2>5 DEF Ends
    <3>5. touches(i) = ToSet(q) \cup {NoNode}
      BY <3>3, <3>4
    <3> HIDE DEF touches
    <3> QED BY <2>2, <2>4, <3>5
  <2>6. CASE i \notin roles
    <3>1. Len(q) \in {1, 2}
      BY <2>1, <2>3, <2>6 DEF Classified
    <3>2. r[i] = [first |-> q[1], second |-> IF Len(q) = 2 THEN q[2] ELSE NoNode, extra |-> {}]
      BY <2>1, <2>3, <2>6 DEF Ends
    <3>3. CASE Len(q) = 1
      <4>1. ToSet(q) = {q[1]}
        BY <2>2, <3>3
      <4>2. touches(i) = {q[1], NoNode}
        BY <3>2, <3>3
      <4> HIDE DEF touches
      <4> QED BY <2>2, <2>4, <4>1, <4>2
    <3>4. CASE Len(q) = 2
      <4>1. ToSet(q) = {q[1], q[2]}
        BY <2>2, <3>4
      <4>2. touches(i) = {q[1], q[2]}
        BY <3>2, <3>4
      <4> HIDE DEF touches
      <4> QED BY <2>2, <2>4, <4>1, <4>2
    <3> QED BY <3>1, <3>3, <3>4
  <2> QED BY <2>5, <2>6
<1>4. ASSUME NEW i \in I, i \notin DOMAIN r PROVE Seen(src, i) = {}
  <2> DEFINE q == src.equip[i].nodes
  <2>1. q \in Seq(Nat) /\ ToSet(q) = {q[k] : k \in 1 .. Len(q)} /\ NodesOf(i) = q
    BY NodesAre DEF NodesOf
  <2>2. ~Classified(i, roles)
    BY <1>2, <1>4
  <2>3. CASE i \in roles
    <3>1. Len(q) = 0
      BY <2>1, <2>2, <2>3 DEF Classified
    <3>2. ToSet(q) = {}
      BY <2>1, <3>1
    <3> QED BY <3>2 DEF Seen
  <2>4. CASE i \notin roles
    BY <2>1, <2>2, <2>4 DEF Classified, Seen, Ended
  <2> QED BY <2>3, <2>4
<1> HIDE DEF touches
<1>5. RawNodes(r) \ {NoNode, GND} = UNION {touches(i) \ {NoNode, GND} : i \in DOMAIN r}
  BY <1>1
<1>6. RawNodes(r) \ {NoNode, GND} = UNION {Seen(src, i) : i \in DOMAIN r}
  BY <1>3, <1>5
<1>7. UNION {Seen(src, i) : i \in DOMAIN r} = UNION {Seen(src, i) : i \in I}
  BY <1>2, <1>4
<1> QED BY <1>6, <1>7 DEF r

\* What some batch, or Pass B, has reached.
Reached == {i \in Members(src) : StationOf(src, i) \in Done} \cup (IF lines THEN Cables ELSE {})
Flagged == /\ src \in Sources /\ todo \subseteq Stations
           /\ DOMAIN flags = {"installed", "contained", "referenced"}
           /\ flags.installed = flags.contained
           /\ flags.referenced = UNION {Seen(src, i) : i \in Reached}
           /\ \A e \in edges : e.id \in Reached /\ Ended(src, e.id)

\* Before the first batch nothing is marked.
LEMMA InitFlagged == Init => Flagged
<1> SUFFICES ASSUME Init PROVE Flagged
  OBVIOUS
<1>1. Reached = {}
  BY DEF Init, Done, Reached
<1> QED BY <1>1 DEF Init, Flagged, NoFlags

\* A batch, and Pass B, mark every node of what they build an edge for.
LEMMA StepFlagged == Built /\ Flagged /\ [Next]_vars => Flagged'
<1> SUFFICES ASSUME Built, Flagged, [Next]_vars PROVE Flagged'
  OBVIOUS
<1>1. ASSUME NEW B \in SUBSET todo, ProcessStationBatch(B) PROVE Flagged'
  <2> DEFINE c == ResolveBatchContainers(src, B)
             I == {i \in Members(src) : StationOf(src, i) \in B}
             f == FlagsOf(DOMAIN c.of, ResolveTerminals(DOMAIN c.of, Roles(c)))
  <2>1. /\ B \subseteq Roots(src) /\ B \subseteq Stations /\ src \in Sources
        /\ edges' = edges \cup UNION {Alone(r).edges : r \in B}
        /\ src' = src /\ todo' = todo \ B /\ lines' = lines
    BY <1>1, BatchRows DEF Built
  <2>2. flags' = [k \in DOMAIN flags |-> flags[k] \cup f[k]]
    BY <1>1 DEF ProcessStationBatch, Persist, MarkFlags
  <2>3. c.of = BatchOf(src, B) /\ c.containers = {k \in Containers(src) : Owner(k) \in B}
    BY <2>1, BatchPlaces, BatchContainers
  <2> HIDE DEF c
  <2>4. DOMAIN c.of = I /\ Roles(c) = {i \in Members(src) : StationOf(src, i) \in B /\ Section(src, i)}
    BY <2>1, <2>3, EquipmentIs DEF BatchOf
  <2>5. RawNodes(ResolveTerminals(I, Roles(c))) \ {NoNode, GND} = UNION {Seen(src, i) : i \in I}
    <3>1. I \in SUBSET DOMAIN src.equip /\ \A i \in I : i \in Roles(c) <=> Section(src, i)
      BY <2>4 DEF Members
    <3> HIDE DEF I
    <3> QED BY <2>1, <3>1, MarkedNodes
  <2>6. f = [installed |-> I, contained |-> I, referenced |-> UNION {Seen(src, i) : i \in I}]
    BY <2>4, <2>5 DEF FlagsOf
  <2> HIDE DEF f
  <2>7. /\ DOMAIN flags' = DOMAIN flags
        /\ flags'.installed = flags.installed \cup I /\ flags'.contained = flags.contained \cup I
        /\ flags'.referenced = flags.referenced \cup UNION {Seen(src, i) : i \in I}
    BY <2>2, <2>6 DEF Flagged
  <2>8. Stations' = Stations /\ Cables' = Cables /\ Done' = Done \cup B
    BY <2>1 DEF Done, Flagged, Stations, Cables, ClassOf
  <2>9. Reached' = Reached \cup I
    BY <2>1, <2>8 DEF Reached
  <2> HIDE DEF I
  <2>10. flags'.referenced = UNION {Seen(src, i) : i \in Reached'}
    BY <2>7, <2>9 DEF Flagged
  <2>11. \A e \in edges' : e.id \in Reached' /\ Ended(src, e.id)
    <3>1. \A r \in B : \A e \in Alone(r).edges : e.id \in I /\ Ended(src, e.id)
      BY <2>1, EdgesOfMembers DEF I
    <3> QED BY <2>1, <2>9, <3>1 DEF Flagged
  <2> QED BY <2>1, <2>7, <2>8, <2>10, <2>11 DEF Flagged
<1>2. ASSUME RunPassB PROVE Flagged'
  <2> DEFINE r == ResolveTerminals(Cables, {})  f == FlagsOf(DOMAIN r, r)
  <2>1. /\ src' = src /\ todo' = todo /\ ~lines /\ lines' = TRUE
        /\ edges' = edges \cup BuildEdges(r, {})
        /\ flags' = [k \in DOMAIN flags |-> flags[k] \cup f[k]]
    BY <1>2 DEF RunPassB, MarkFlags
  <2>2. src \in Sources /\ Cables \in SUBSET DOMAIN src.equip
    BY DEF Flagged, Cables
  <2>3. \A i \in Cables : ~Section(src, i)
    BY DEF Cables, ClassOf, Section, Class
  <2>4. RawNodes(r) \ {NoNode, GND} = UNION {Seen(src, i) : i \in Cables}
    BY <2>2, <2>3, MarkedNodes
  <2>5. \A i \in DOMAIN r : i \in Cables /\ Ended(src, i)
    BY DEF ResolveTerminals, Classified, NodesOf, Ended
  <2> HIDE DEF r
  <2>6. f = [installed |-> DOMAIN r, contained |-> DOMAIN r, referenced |-> UNION {Seen(src, i) : i \in Cables}]
    BY <2>4 DEF FlagsOf
  <2> HIDE DEF f
  <2>7. /\ DOMAIN flags' = DOMAIN flags
        /\ flags'.installed = flags.installed \cup DOMAIN r /\ flags'.contained = flags.contained \cup DOMAIN r
        /\ flags'.referenced = flags.referenced \cup UNION {Seen(src, i) : i \in Cables}
    BY <2>1, <2>6 DEF Flagged
  <2>8. Stations' = Stations /\ Cables' = Cables /\ Done' = Done
    BY <2>1 DEF Done, Stations, Cables, ClassOf
  <2>9. Reached' = Reached \cup Cables
    BY <2>1, <2>8 DEF Reached
  <2>10. flags'.referenced = UNION {Seen(src, i) : i \in Reached'}
    BY <2>7, <2>9 DEF Flagged
  <2>11. \A e \in edges' : e.id \in Reached' /\ Ended(src, e.id)
    <3>1. \A e \in BuildEdges(r, {}) : e.id \in DOMAIN r
      BY DEF BuildEdges
    <3> QED BY <2>1, <2>5, <2>9, <3>1 DEF Flagged
  <2> QED BY <2>1, <2>7, <2>8, <2>10, <2>11 DEF Flagged
<1>3. ASSUME UNCHANGED vars PROVE Flagged'
  <2>1. Stations' = Stations /\ Cables' = Cables /\ Done' = Done /\ Reached' = Reached
    BY <1>3 DEF vars, Done, Stations, Cables, ClassOf, Reached
  <2> QED BY <1>3, <2>1 DEF Flagged, vars
<1> QED BY <1>1, <1>2, <1>3 DEF Next

\* The flagged checks against the whole scans: a node that nothing names is never
\* missed, for all the merging of nodes, and what is reported besides is a node of
\* which nothing is built.
THEOREM FlagsSeeBuilt == Spec => []FlagsSeeWhatIsBuilt
<1>1. Placed /\ Flagged => FlagsSeeWhatIsBuilt
  <2> SUFFICES ASSUME Placed, Flagged, lines PROVE FlagsSeeWhatIsBuilt
    BY DEF FlagsSeeWhatIsBuilt
  <2> DEFINE built == {e.id : e \in edges} \cup Roles(placed)
             whole == DOMAIN BuildContainers(src).of
             unreached == {<<"equipment-without-container", i>> : i \in DOMAIN src.equip \ DOMAIN placed.of}
             strayed == {<<"equipment-without-container", i>> : i \in DOMAIN placed.of \ whole}
             resolved == DOMAIN ResolveTerminals(DOMAIN src.equip, Sections)
  <2>1. src \in Sources /\ Reached \subseteq DOMAIN src.equip
    BY DEF Flagged, Reached, Members, Cables
  <2>2. \A i \in Reached : Seen(src, i) \subseteq NodesIn(src, {i})
    BY <2>1, NodesAre DEF Seen
  <2>3. flags.referenced \subseteq NodesIn(src, DOMAIN src.equip)
    BY <2>1, <2>2 DEF Flagged, NodesIn
  <2>4. Roles(placed) = {i \in Members(src) : StationOf(src, i) \in Done /\ Section(src, i)}
    BY <2>1, EquipmentIs DEF Placed, Done, Stations, Roots
  <2>5. \A i \in built : i \in Reached /\ Ended(src, i)
    BY <2>4 DEF Flagged, Reached, Ended
  <2> HIDE DEF built, whole
  <2>6. NodesIn(src, built) \subseteq flags.referenced
    BY <2>5 DEF NodesIn, Seen, Flagged
  <2>7. resolved \subseteq DOMAIN src.equip
    BY DEF ResolveTerminals
  <2> HIDE DEF resolved
  <2>8. CheckInvariants = {<<"unreferenced-node", n>> : n \in ConnectivityNodes \ NodesIn(src, DOMAIN src.equip)}
          \cup {<<"equipment-without-container", i>> : i \in resolved \ (whole \cup Cables)}
    BY DEF CheckInvariants, resolved, whole
  <2>9. CheckInvariantsFlagged = {<<"unreferenced-node", n>> : n \in ConnectivityNodes \ flags.referenced}
    BY DEF CheckInvariantsFlagged, Flagged
  <2>10. CheckInvariants \subseteq CheckInvariantsFlagged \cup unreached \cup strayed
    BY <2>3, <2>7, <2>8, <2>9
  <2>11. CheckInvariantsFlagged \ CheckInvariants
            \subseteq {<<"unreferenced-node", n>> : n \in ConnectivityNodes \ NodesIn(src, built)}
    BY <2>6, <2>9
  <2> QED BY <2>10, <2>11 DEF FlagsSeeWhatIsBuilt, built, whole
<1> QED BY InitBuilt, StepBuilt, InitPlaced, StepPlaced, InitFlagged, StepFlagged, <1>1, PTL DEF Spec

-----------------------------------------------------------------------------
(* The rows are well-formed.                                                *)

\* What a resolved equipment may name: nodes, and "no second Terminal".
Real == Nat \ {GND}
Resolves(r) == /\ IsFiniteSet(DOMAIN r)
               /\ \A i \in DOMAIN r : /\ r[i].first \in Real /\ r[i].second \in Real \cup {NoNode}
                                      /\ r[i].extra \in SUBSET Real /\ IsFiniteSet(r[i].extra)

LEMMA TerminalsResolve ==
    ASSUME src \in Sources, NEW I \in SUBSET DOMAIN src.equip, NEW roles
    PROVE  Resolves(ResolveTerminals(I, roles))
<1> DEFINE r == ResolveTerminals(I, roles)
<1>1. \A i \in DOMAIN r : i \in I /\ Classified(i, roles) /\ r[i] = Ends(i, roles)
  BY DEF ResolveTerminals
<1>2. IsFiniteSet(DOMAIN r)
  <2>1. DOMAIN r \subseteq DOMAIN src.equip
    BY <1>1
  <2> QED BY <2>1, SourceAssumption, FS_Subset
<1> HIDE DEF r
<1>3. ASSUME NEW i \in DOMAIN r
      PROVE  /\ r[i].first \in Real /\ r[i].second \in Real \cup {NoNode}
             /\ r[i].extra \in SUBSET Real /\ IsFiniteSet(r[i].extra)
  <2> DEFINE q == src.equip[i].nodes
  <2>1. i \in DOMAIN src.equip /\ Classified(i, roles) /\ r[i] = Ends(i, roles) /\ NodesOf(i) = q
    BY <1>1 DEF NodesOf
  <2>2. /\ q \in Seq(Nat) /\ ToSet(q) = {q[k] : k \in 1 .. Len(q)} /\ ToSet(q) \in SUBSET Nat
        /\ \A n \in ToSet(q) : n # NoNode /\ n # GND
    BY <2>1, NodesAre
  <2> HIDE DEF q
  <2>3. \A n \in ToSet(q) : n \in Real
    BY <2>2 DEF Real
  <2>4. Len(q) \in Nat /\ \A k \in 1 .. Len(q) : q[k] \in Real
    BY <2>2, <2>3
  <2>5. IsFiniteSet(ToSet(q)) /\ IsFiniteSet({})
    <3>1. DOMAIN q = 1 .. Len(q)
      BY <2>2
    <3>2. IsFiniteSet(DOMAIN q)
      BY <2>4, <3>1, FS_Interval
    <3>3. ToSet(q) = {q[k] : k \in DOMAIN q}
      BY <2>2, <3>1
    <3> QED BY <3>2, <3>3, ImageFinite, FS_EmptySet
  <2>6. CASE i \in roles
    <3>1. 1 \in 1 .. Len(q)
      BY <2>1, <2>4, <2>6 DEF Classified
    <3>2. ToSet(q) # {}
      BY <2>2, <3>1
    <3>3. Min(ToSet(q)) \in ToSet(q)
      BY <2>2, <3>2, MinIs
    <3>4. r[i].extra = ToSet(q) \ {Min(ToSet(q))}
      BY <2>1, <2>6 DEF Ends
    <3>5. IsFiniteSet(r[i].extra)
      BY <2>5, <3>4, FS_Subset
    <3> QED BY <2>1, <2>3, <2>6, <3>3, <3>5 DEF Ends
  <2>7. CASE i \notin roles
    <3>1. Len(q) \in {1, 2} /\ 1 \in 1 .. Len(q)
      BY <2>1, <2>4, <2>7 DEF Classified
    <3>2. Len(q) = 2 => 2 \in 1 .. Len(q)
      BY <2>4
    <3> QED BY <2>1, <2>4, <2>7, <2>5, <3>1, <3>2 DEF Ends
  <2> QED BY <2>6, <2>7
<1> QED BY <1>2, <1>3 DEF Resolves, r

\* A renaming to the smallest leaves nodes nodes.
LEMMA RenamedResolves ==
    ASSUME NEW r, Resolves(r), NEW sets, \A N \in sets : N \in SUBSET Real /\ N # {}
    PROVE  Resolves(Renamed(r, ToSmallest(sets))) /\ DOMAIN Renamed(r, ToSmallest(sets)) = DOMAIN r
<1> DEFINE remap == ToSmallest(sets)
           to(n) == IF n \in DOMAIN remap THEN remap[n] ELSE n
           q == Renamed(r, remap)
<1>1. \A N \in sets : Min(N) \in Real
  BY MinIs DEF Real
<1>2. ASSUME NEW n \in DOMAIN remap PROVE n \in Real /\ remap[n] \in Real
  <2>1. PICK N \in sets : n \in N \ {Min(N)}
    BY DEF ToSmallest
  <2>2. (CHOOSE M \in sets : n \in M) \in sets
    BY <2>1
  <2>3. remap[n] = Min(CHOOSE M \in sets : n \in M)
    BY DEF ToSmallest
  <2> HIDE DEF remap
  <2> QED BY <1>1, <2>1, <2>2, <2>3
<1>3. /\ DOMAIN q = DOMAIN r
      /\ \A i \in DOMAIN r : q[i] = [first |-> to(r[i].first), second |-> to(r[i].second),
                                     extra |-> {to(n) : n \in r[i].extra}]
  BY DEF Renamed
<1> HIDE DEF remap, q
<1>4. to(NoNode) = NoNode /\ \A n \in Real : to(n) \in Real
  BY <1>2 DEF Real, NoNode
<1> HIDE DEF to
<1>5. ASSUME NEW i \in DOMAIN q
      PROVE  /\ q[i].first \in Real /\ q[i].second \in Real \cup {NoNode}
             /\ q[i].extra \in SUBSET Real /\ IsFiniteSet(q[i].extra)
  <2> DEFINE f == [n \in r[i].extra |-> to(n)]
  <2>1. {to(n) : n \in r[i].extra} = {f[n] : n \in DOMAIN f} /\ DOMAIN f = r[i].extra
    OBVIOUS
  <2> HIDE DEF f
  <2>2. i \in DOMAIN r /\ q[i].extra = {to(n) : n \in r[i].extra}
    BY <1>3
  <2>3. IsFiniteSet(q[i].extra)
    BY <2>1, <2>2, ImageFinite DEF Resolves
  <2> QED BY <1>3, <1>4, <2>3 DEF Resolves
<1> QED BY <1>3, <1>5 DEF Resolves, q, remap

LEMMA JunctionsResolve ==
    ASSUME NEW r, Resolves(r), NEW roles
    PROVE  Resolves(MergeJunctionNodes(r, roles))
<1> DEFINE sets == {{r[i].first} \cup r[i].extra : i \in {i \in roles \cap DOMAIN r : r[i].extra # {}}}
<1>1. \A N \in sets : N \in SUBSET Real /\ N # {}
  BY DEF Resolves
<1>2. MergeJunctionNodes(r, roles) = Renamed(r, ToSmallest(sets))
  BY DEF MergeJunctionNodes, JunctionRemap
<1> HIDE DEF sets
<1> QED BY <1>1, <1>2, RenamedResolves

LEMMA BarsResolve ==
    ASSUME NEW r, Resolves(r), NEW c, NEW roles
    PROVE  Resolves(MergeBusbarSectionNodes(r, c, roles))
<1> DEFINE bar == [i \in roles \cap DOMAIN r |-> BarOf(c, i)]
           at(b) == {r[i].first : i \in {i \in DOMAIN bar : bar[i] = b}}
           nodesOf == {GND} \cup UNION {{r[i].first, r[i].second} : i \in DOMAIN r}
           root == UnionFind(nodesOf, Pairs(r, roles))
           split == {b \in Range(bar) : Cardinality({root[n] : n \in at(b)}) > 1}
           sets == {at(b) : b \in split}
<1>1. MergeBusbarSectionNodes(r, c, roles) = Renamed(r, BarRemap(r, roles, bar))
  BY DEF MergeBusbarSectionNodes
<1>2. BarRemap(r, roles, bar) = ToSmallest(sets)
  BY DEF BarRemap
<1>3. DOMAIN bar \subseteq DOMAIN r
  OBVIOUS
<1>4. split \subseteq Range(bar)
  OBVIOUS
<1> HIDE DEF bar, split
<1>5. ASSUME NEW b \in split PROVE at(b) \in SUBSET Real /\ at(b) # {}
  <2>1. PICK i \in DOMAIN bar : bar[i] = b
    BY <1>4 DEF Range
  <2> QED BY <1>3, <2>1 DEF Resolves
<1> HIDE DEF at
<1>6. \A N \in sets : N \in SUBSET Real /\ N # {}
  BY <1>5
<1> HIDE DEF sets
<1> QED BY <1>1, <1>2, <1>6, RenamedResolves

\* Edges and nodes, of terminals that resolve: one edge per equipment, which starts at
\* a node, and both its ends are nodes.
WellFormed(E, N) ==
    /\ \A e \in E : {e.t1, e.t2} \subseteq N /\ e.t1 # GND
    /\ \A e, f \in E : e.id = f.id => e = f
    /\ NoNode \notin N
    /\ IsFiniteSet(E) /\ IsFiniteSet(N)
LEMMA GraphIs ==
    ASSUME NEW r, Resolves(r), NEW roles
    PROVE  WellFormed(BuildEdges(r, roles), BuildNodes(r, roles))
<1> DEFINE E == BuildEdges(r, roles)  N == BuildNodes(r, roles)
           other(i) == IF r[i].second = NoNode THEN GND ELSE r[i].second
           edge(i) == [id |-> i, t1 |-> r[i].first, t2 |-> other(i)]
           ids == {i \in DOMAIN r : r[i].second # NoNode \/ i \notin roles}
           own(i) == {r[i].first} \cup r[i].extra
           ends(e) == {e.t1, e.t2}
<1>1. E = {edge(i) : i \in ids}
  BY DEF BuildEdges
<1>2. N = (UNION {own(i) : i \in DOMAIN r}) \cup UNION {ends(e) : e \in E}
  BY DEF BuildNodes
<1> HIDE DEF E, N
<1>3. \A i \in ids : /\ edge(i).id = i /\ edge(i).t1 \in Real /\ edge(i).t2 \in Real \cup {GND}
  BY DEF Resolves
<1> HIDE DEF edge, ids
<1>4. \A e \in E : e.t1 \in Real /\ e.t2 \in Real \cup {GND}
  BY <1>1, <1>3
<1>5. \A e, f \in E : e.id = f.id => e = f
  BY <1>1, <1>3
<1>6. NoNode \notin Real \cup {GND} /\ GND \notin Real
  BY DEF NoNode, Real, GND
<1>7. \A i \in DOMAIN r : NoNode \notin own(i)
  BY <1>6 DEF Resolves
<1>8. \A e \in E : NoNode \notin ends(e)
  BY <1>4, <1>6
<1>9. IsFiniteSet(E) /\ IsFiniteSet(N)
  <2> DEFINE f == [i \in ids |-> edge(i)]  g == [i \in DOMAIN r |-> own(i)]  h == [e \in E |-> ends(e)]
  <2>1. IsFiniteSet(ids) /\ IsFiniteSet(DOMAIN r)
    BY FS_Subset DEF ids, Resolves
  <2>2. E = {f[i] : i \in DOMAIN f} /\ DOMAIN f = ids
    BY <1>1
  <2>3. IsFiniteSet(E)
    <3> HIDE DEF f
    <3> QED BY <2>1, <2>2, ImageFinite
  <2>4. \A i \in DOMAIN r : IsFiniteSet(own(i))
    <3> TAKE i \in DOMAIN r
    <3>1. own(i) = r[i].extra \cup {r[i].first}
      OBVIOUS
    <3> QED BY <3>1, FS_AddElement DEF Resolves
  <2>5. \A e \in E : IsFiniteSet(ends(e))
    <3> TAKE e \in E
    <3>1. IsFiniteSet({} \cup {e.t1})
      BY FS_EmptySet, FS_AddElement
    <3>2. IsFiniteSet(({} \cup {e.t1}) \cup {e.t2})
      BY <3>1, FS_AddElement
    <3>3. ends(e) = ({} \cup {e.t1}) \cup {e.t2}
      OBVIOUS
    <3> QED BY <3>2, <3>3
  <2> HIDE DEF own, ends
  <2>6. IsFiniteSet({own(i) : i \in DOMAIN r}) /\ IsFiniteSet({ends(e) : e \in E})
    <3>1. {own(i) : i \in DOMAIN r} = {g[i] : i \in DOMAIN g} /\ DOMAIN g = DOMAIN r
      OBVIOUS
    <3>2. {ends(e) : e \in E} = {h[e] : e \in DOMAIN h} /\ DOMAIN h = E
      OBVIOUS
    <3> HIDE DEF g, h
    <3> QED BY <2>1, <2>3, <3>1, <3>2, ImageFinite
  <2>7. IsFiniteSet(UNION {own(i) : i \in DOMAIN r}) /\ IsFiniteSet(UNION {ends(e) : e \in E})
    BY <2>4, <2>5, <2>6, FS_UNION
  <2> QED BY <1>2, <2>3, <2>7, FS_Union
<1> HIDE DEF own, ends
<1>10. NoNode \notin N /\ \A e \in E : ends(e) \subseteq N
  BY <1>2, <1>7, <1>8
<1>11. \A e \in E : e.t1 # GND
  BY <1>4, <1>6
<1> QED BY <1>5, <1>9, <1>10, <1>11 DEF WellFormed, E, N, ends

\* So is what a station yields, and what Pass B adds.
LEMMA AloneIs ==
    ASSUME src \in Sources, NEW r \in Roots(src)
    PROVE  WellFormed(Alone(r).edges, Alone(r).nodes)
<1> DEFINE d == ResolveBatchContainers(src, {r})
           I == {i \in Members(src) : StationOf(src, i) = r}
           roles == I \cap Roles(d)
           t == ResolveTerminals(I, roles)
           j == MergeJunctionNodes(t, roles)
           m == MergeBusbarSectionNodes(j, d, roles)
<1>1. EquipmentOf(d, r) = I
  BY BatchEquipment, {r} \in SUBSET Roots(src), r \in {r}
<1>2. Alone(r) = [nodes |-> BuildNodes(m, roles), edges |-> BuildEdges(m, roles)]
  BY <1>1 DEF Alone, StationTopologyOf, Topology
<1>3. I \in SUBSET DOMAIN src.equip
  BY DEF Members
<1> HIDE DEF I, roles, d, m
<1>4. Resolves(t)
  BY <1>3, TerminalsResolve
<1> HIDE DEF t
<1>5. Resolves(j)
  BY <1>4, JunctionsResolve
<1> HIDE DEF j
<1>6. Resolves(m)
  BY <1>5, BarsResolve DEF m
<1> QED BY <1>2, <1>6, GraphIs

CableEdges == BuildEdges(ResolveTerminals(Cables, {}), {})
CableNodes == BuildNodes(ResolveTerminals(Cables, {}), {})
LEMMA CablesAre ==
    ASSUME src \in Sources
    PROVE  WellFormed(CableEdges, CableNodes) /\ \A e \in CableEdges : e.id \in Cables
<1>1. Cables \in SUBSET DOMAIN src.equip
  BY DEF Cables
<1>2. Resolves(ResolveTerminals(Cables, {}))
  BY <1>1, TerminalsResolve
<1>3. WellFormed(CableEdges, CableNodes)
  BY <1>2, GraphIs DEF CableEdges, CableNodes
<1>4. \A e \in CableEdges : e.id \in Cables
  BY DEF CableEdges, BuildEdges, ResolveTerminals
<1> QED BY <1>3, <1>4

\* The rows of the stations that have been processed, and of the cables.
Drawn == /\ src \in Sources /\ todo \subseteq Stations
         /\ edges = (UNION {Alone(r).edges : r \in Done}) \cup (IF lines THEN CableEdges ELSE {})
         /\ nodes = (UNION {Alone(r).nodes : r \in Done}) \cup (IF lines THEN CableNodes ELSE {})

\* Before the first batch nothing is drawn.
LEMMA InitDrawn == Init => Drawn
<1> SUFFICES ASSUME Init PROVE Drawn
  OBVIOUS
<1>1. Done = {}
  BY DEF Init, Done
<1> QED BY <1>1 DEF Init, Drawn

\* What the cables yield depends on the source alone.
LEMMA CablesStay ==
    ASSUME src' = src
    PROVE  /\ CableEdges' = CableEdges /\ CableNodes' = CableNodes /\ Stations' = Stations
           /\ \A r : Alone(r)' = Alone(r)
<1>1. Cables' = Cables /\ Stations' = Stations /\ \A r : Alone(r)' = Alone(r)
  BY SourceStays
<1>2. ResolveTerminals(Cables, {})' = ResolveTerminals(Cables, {})
  BY <1>1 DEF ResolveTerminals, Classified, Ends, NodesOf
<1> QED BY <1>1, <1>2 DEF CableEdges, CableNodes

\* A batch adds the rows of its stations, and Pass B those of the cables, once.
LEMMA StepDrawn == Built /\ Drawn /\ [Next]_vars => Drawn'
<1> SUFFICES ASSUME Built, Drawn, [Next]_vars PROVE Drawn'
  OBVIOUS
<1> DEFINE E(D) == UNION {Alone(r).edges : r \in D}  N(D) == UNION {Alone(r).nodes : r \in D}
<1>1. ASSUME src' = src
      PROVE  UNION {Alone(r)'.edges : r \in Done'} = E(Done') /\ UNION {Alone(r)'.nodes : r \in Done'} = N(Done')
  BY <1>1, CablesStay
<1>2. ASSUME NEW B \in SUBSET todo, ProcessStationBatch(B) PROVE Drawn'
  <2>1. /\ B \subseteq Stations /\ edges' = edges \cup E(B) /\ nodes' = nodes \cup N(B)
        /\ src' = src /\ todo' = todo \ B /\ lines' = lines
    BY <1>2, BatchRows
  <2>2. Stations' = Stations /\ CableEdges' = CableEdges /\ CableNodes' = CableNodes
    BY <2>1, CablesStay
  <2>3. Done' = Done \cup B
    BY <2>1, <2>2 DEF Done, Drawn
  <2>4. E(Done') = E(Done) \cup E(B) /\ N(Done') = N(Done) \cup N(B)
    BY <2>3
  <2>5. edges = E(Done) \cup (IF lines THEN CableEdges ELSE {})
        /\ nodes = N(Done) \cup (IF lines THEN CableNodes ELSE {})
    BY DEF Drawn
  <2> HIDE DEF E, N
  <2>6. /\ edges' = E(Done') \cup (IF lines' THEN CableEdges' ELSE {})
        /\ nodes' = N(Done') \cup (IF lines' THEN CableNodes' ELSE {})
    BY <2>1, <2>2, <2>4, <2>5
  <2> QED BY <1>1, <2>1, <2>2, <2>6 DEF Drawn
<1>3. ASSUME RunPassB PROVE Drawn'
  <2>1. /\ src' = src /\ todo' = todo /\ ~lines /\ lines' = TRUE
        /\ edges' = edges \cup CableEdges /\ nodes' = nodes \cup CableNodes
    BY <1>3 DEF RunPassB, CableEdges, CableNodes
  <2>2. Stations' = Stations /\ CableEdges' = CableEdges /\ CableNodes' = CableNodes
    BY <2>1, CablesStay
  <2>3. Done' = Done
    BY <2>1, <2>2 DEF Done
  <2>4. edges = E(Done) /\ nodes = N(Done)
    BY <2>1 DEF Drawn
  <2>5. /\ edges' = E(Done') \cup (IF lines' THEN CableEdges' ELSE {})
        /\ nodes' = N(Done') \cup (IF lines' THEN CableNodes' ELSE {})
    BY <2>1, <2>2, <2>3, <2>4
  <2> HIDE DEF E, N
  <2> QED BY <1>1, <2>1, <2>2, <2>5 DEF Drawn
<1>4. ASSUME UNCHANGED vars PROVE Drawn'
  <2>1. /\ Stations' = Stations /\ CableEdges' = CableEdges /\ CableNodes' = CableNodes /\ Done' = Done
    BY <1>4, CablesStay DEF vars, Done
  <2> QED BY <1>1, <1>4, <2>1 DEF Drawn, vars
<1> QED BY <1>2, <1>3, <1>4 DEF Next

\* The rows of all stations and of the cables are well-formed together.
LEMMA RowsFit ==
    ASSUME Drawn
    PROVE  /\ \A e \in edges : {e.t1, e.t2} \subseteq nodes /\ e.t1 # GND
           /\ \A e, f \in edges : e.id = f.id => e = f
           /\ NoNode \notin nodes
<1>1. src \in Sources /\ Done \subseteq Roots(src)
  BY DEF Drawn, Done, Stations, Roots
<1>2. \A r \in Done : WellFormed(Alone(r).edges, Alone(r).nodes)
  BY <1>1, AloneIs
<1>3. WellFormed(CableEdges, CableNodes) /\ \A e \in CableEdges : e.id \in Cables
  BY <1>1, CablesAre
<1>4. \A r \in Done : \A e \in Alone(r).edges : e.id \in Members(src) /\ StationOf(src, e.id) = r
  BY <1>1, EdgesOfMembers
<1>5. \A i \in Members(src) : i \notin Cables
  BY <1>1, CablesAreOutside DEF Cables, ClassOf, Class
<1>6. \A e \in edges : \/ \E r \in Done : e \in Alone(r).edges
                       \/ lines /\ e \in CableEdges
  BY DEF Drawn
<1>7. /\ \A r \in Done : Alone(r).nodes \subseteq nodes
      /\ lines => CableNodes \subseteq nodes
      /\ \A n \in nodes : (\E r \in Done : n \in Alone(r).nodes) \/ n \in CableNodes
  BY DEF Drawn
<1>8. ASSUME NEW e \in edges PROVE {e.t1, e.t2} \subseteq nodes /\ e.t1 # GND
  BY <1>2, <1>3, <1>6, <1>7 DEF WellFormed
<1>9. ASSUME NEW e \in edges, NEW f \in edges, e.id = f.id PROVE e = f
  <2>1. CASE e \in CableEdges
    BY <1>3, <1>4, <1>5, <1>6, <1>9, <2>1 DEF WellFormed
  <2>2. CASE e \notin CableEdges
    <3>1. PICK r \in Done : e \in Alone(r).edges
      BY <1>6, <2>2
    <3>2. f \in Alone(r).edges
      BY <1>3, <1>4, <1>5, <1>6, <1>9, <3>1
    <3> QED BY <1>2, <1>9, <3>1, <3>2 DEF WellFormed
  <2> QED BY <2>1, <2>2
<1>10. NoNode \notin nodes
  BY <1>2, <1>3, <1>7 DEF WellFormed
<1> QED BY <1>8, <1>9, <1>10

\* Every edge ends on stored nodes and starts at one that is not the ground, no
\* equipment has two edges, and what is placed is in a stored container whose parent
\* is a stored root.
THEOREM TypeCorrect == Spec => []TypeOK
<1>1. Drawn => /\ \A e \in edges : {e.t1, e.t2} \subseteq nodes /\ e.t1 # GND
               /\ \A e, f \in edges : e.id = f.id => e = f
               /\ NoNode \notin nodes
  BY RowsFit
<1>2. Placed => LET ids == {k.id : k \in placed.containers}
                IN  /\ Range(placed.of) \subseteq ids
                    /\ \A k \in placed.containers : k.type \in {"bay", "busbar"} =>
                          Cont(k.parent, "substation", NoRef) \in placed.containers
                          \/ Cont(k.parent, "distribution-box", NoRef) \in placed.containers
  <2> SUFFICES ASSUME Placed
               PROVE  LET ids == {k.id : k \in placed.containers}
                      IN  /\ Range(placed.of) \subseteq ids
                          /\ \A k \in placed.containers : k.type \in {"bay", "busbar"} =>
                                Cont(k.parent, "substation", NoRef) \in placed.containers
                                \/ Cont(k.parent, "distribution-box", NoRef) \in placed.containers
    OBVIOUS
  <2>1. /\ src \in Sources /\ placed.containers = {k \in Containers(src) : Owner(k) \in Done}
        /\ placed.of = BatchOf(src, Done)
    BY DEF Placed
  <2>2. \A i \in DOMAIN placed.of : \E k \in placed.containers : k.id = placed.of[i]
    BY <2>1, MemberIsIn DEF BatchOf
  <2>3. ASSUME NEW k \in placed.containers, k.type \in {"bay", "busbar"}
        PROVE  \/ Cont(k.parent, "substation", NoRef) \in placed.containers
               \/ Cont(k.parent, "distribution-box", NoRef) \in placed.containers
    <3>1. k \in Containers(src) /\ Owner(k) \in Done
      BY <2>1
    <3>2. k.parent \in Subs(src)
      <4>1. ASSUME k.id \in Roots(src), k = Cont(k.id, TypeOfRoot(src.tree[k.id].class), NoRef) PROVE FALSE
        <5>1. src.tree[k.id].class \in RootClasses /\ k.type = TypeOfRoot(src.tree[k.id].class)
          BY <4>1 DEF Cont, Roots, OfClass
        <5> QED BY <2>3, <5>1 DEF RootClasses, TypeOfRoot
      <4>2. \A i \in DOMAIN src.equip : Section(src, i) => Place(src, In(src, i)) \in Subs(src)
        BY DEF Section, Place, VLs
      <4> QED BY <2>1, <3>1, <4>1, <4>2, ContainerKinds DEF Cont, Bays, Feeders, VLs
    <3> DEFINE p == Cont(k.parent, TypeOfRoot(src.tree[k.parent].class), NoRef)
    <3>3. k.parent \in Roots(src) /\ k.parent # NoRef
      BY <2>1, <3>2, PlacesAre
    <3>4. p \in Containers(src)
      BY <3>3 DEF Containers, RootContainers
    <3>5. Owner(p) = k.parent /\ Owner(k) = k.parent
      BY <3>3 DEF Owner, Cont
    <3>6. TypeOfRoot(src.tree[k.parent].class) \in {"substation", "distribution-box"}
      <4>1. src.tree[k.parent].class \in {"Substation", "DistributionBox"}
        BY <3>2 DEF Subs, OfClass
      <4> QED BY <4>1 DEF TypeOfRoot
    <3> HIDE DEF p
    <3>7. p \in placed.containers
      BY <2>1, <3>1, <3>4, <3>5
    <3> QED BY <3>6, <3>7 DEF p
  <2> QED BY <2>2, <2>3 DEF Range
<1>3. Drawn /\ Placed => TypeOK
  BY <1>1, <1>2 DEF TypeOK
<1> QED BY InitBuilt, StepBuilt, InitPlaced, StepPlaced, InitDrawn, StepDrawn, <1>3, PTL DEF Spec

-----------------------------------------------------------------------------
(* Groups, circuits and paths.                                              *)

Conducting(E) == {e \in E : Conducts(e)}

\* The groups of a graph join its closed switches.
LEMMA GroupsJoin ==
    ASSUME NEW N, NEW E, WellFormed(E, N)
    PROVE  Joins(BuildElectricalGroups(N, E), N, EndPairs(Conducting(E)))
<1>1. IsFiniteSet(Conducting(E))
  BY FS_Subset DEF WellFormed, Conducting
<1>2. Touch(Conducting(E), N)
  BY DEF WellFormed, Conducting, Touch
<1>3. BuildElectricalGroups(N, E) = UnionFind(N, PairsOf(Conducting(E)))
  BY DEF BuildElectricalGroups, Conducting
<1> QED BY <1>1, <1>2, <1>3, EdgesJoin

\* The rows of groups, owner by owner.
Grouped == /\ DOMAIN groups = Done \cup (IF lines THEN {PassBOwner} ELSE {})
           /\ lines => groups[PassBOwner] = BuildElectricalGroups(CableNodes, CableEdges)

LEMMA InitGrouped == Init => Grouped
<1> SUFFICES ASSUME Init PROVE Grouped
  OBVIOUS
<1>1. Done = {}
  BY DEF Init, Done
<1> QED BY <1>1 DEF Init, Grouped, NoRow

\* A batch writes the groups of its stations, and Pass B its own.
LEMMA StepGrouped == Built /\ Grouped /\ [Next]_vars => Grouped'
<1> SUFFICES ASSUME Built, Grouped, [Next]_vars PROVE Grouped'
  OBVIOUS
<1> DEFINE B0 == BuildElectricalGroups(CableNodes, CableEdges)
<1>1. src' = src => /\ CableEdges' = CableEdges /\ CableNodes' = CableNodes /\ Stations' = Stations
                    /\ B0' = B0
  <2> SUFFICES ASSUME src' = src
               PROVE  CableEdges' = CableEdges /\ CableNodes' = CableNodes /\ Stations' = Stations /\ B0' = B0
    OBVIOUS
  <2>1. CableEdges' = CableEdges /\ CableNodes' = CableNodes /\ Stations' = Stations
    BY CablesStay
  <2> QED BY <2>1 DEF BuildElectricalGroups, Conducts, ClassOf
<1> HIDE DEF B0
<1>2. PassBOwner \notin Stations
  BY PlacesAre DEF Built, Stations, OfClass
<1>3. ASSUME NEW B \in SUBSET todo, ProcessStationBatch(B) PROVE Grouped'
  <2>1. /\ B \subseteq Stations /\ groups' = Over([r \in B |-> Groups(Alone(r))], groups)
        /\ src' = src /\ todo' = todo \ B /\ lines' = lines
    BY <1>3, BatchRows
  <2>2. Done' = Done \cup B
    BY <1>1, <2>1 DEF Done, Built
  <2>3. DOMAIN groups' = B \cup DOMAIN groups
    BY <2>1 DEF Over
  <2>4. lines => groups'[PassBOwner] = groups[PassBOwner]
    BY <1>2, <2>1 DEF Over, Grouped
  <2> QED BY <1>1, <2>1, <2>2, <2>3, <2>4 DEF Grouped, B0
<1>4. ASSUME RunPassB PROVE Grouped'
  <2>1. /\ src' = src /\ todo' = todo /\ ~lines /\ lines' = TRUE
        /\ groups' = Put(PassBOwner, B0, groups)
    BY <1>4 DEF RunPassB, CableEdges, CableNodes, B0
  <2>2. Done' = Done
    BY <1>1, <2>1 DEF Done
  <2>3. DOMAIN groups' = DOMAIN groups \cup {PassBOwner} /\ groups'[PassBOwner] = B0
    BY <2>1 DEF Put
  <2> QED BY <1>1, <2>1, <2>2, <2>3 DEF Grouped, B0
<1>5. ASSUME UNCHANGED vars PROVE Grouped'
  BY <1>1, <1>5 DEF Grouped, vars, Done, B0
<1> QED BY <1>3, <1>4, <1>5 DEF Next

OwnNodes(o) == IF o = PassBOwner THEN CableNodes ELSE Alone(o).nodes
OwnEdges(o) == IF o = PassBOwner THEN CableEdges ELSE Alone(o).edges

\* Each owner has the groups of its own graph, and together the graphs are the model.
LEMMA RowsAre ==
    ASSUME Built, Drawn, Grouped
    PROVE  /\ \A o \in DOMAIN groups : /\ WellFormed(OwnEdges(o), OwnNodes(o))
                                      /\ Joins(groups[o], OwnNodes(o), EndPairs(Conducting(OwnEdges(o))))
           /\ nodes = UNION {OwnNodes(o) : o \in DOMAIN groups}
           /\ edges = UNION {OwnEdges(o) : o \in DOMAIN groups}
           /\ IsFiniteSet(nodes) /\ IsFiniteSet(edges)
<1>1. /\ src \in Sources /\ Done \subseteq Roots(src) /\ PassBOwner \notin Done
      /\ IsFiniteSet(Done)
  <2>1. src \in Sources /\ Done \subseteq Roots(src) /\ PassBOwner \notin Done
    BY PlacesAre DEF Drawn, Done, Stations, Roots, OfClass
  <2>2. Done \subseteq DOMAIN src.tree
    BY <2>1 DEF Roots, OfClass
  <2> QED BY <2>1, <2>2, SourceAssumption, FS_Subset
<1>2. \A o \in Done : /\ OwnNodes(o) = Alone(o).nodes /\ OwnEdges(o) = Alone(o).edges
                      /\ groups[o] = BuildElectricalGroups(OwnNodes(o), OwnEdges(o))
  BY <1>1 DEF OwnNodes, OwnEdges, Built, Groups
<1>3. /\ OwnNodes(PassBOwner) = CableNodes /\ OwnEdges(PassBOwner) = CableEdges
      /\ lines => groups[PassBOwner] = BuildElectricalGroups(CableNodes, CableEdges)
  BY DEF OwnNodes, OwnEdges, Grouped
<1>4. /\ \A o \in DOMAIN groups : o \in Done \/ (lines /\ o = PassBOwner)
      /\ \A o \in Done : o \in DOMAIN groups
      /\ lines => PassBOwner \in DOMAIN groups
  BY DEF Grouped
<1>5. \A o \in DOMAIN groups : /\ WellFormed(OwnEdges(o), OwnNodes(o))
                              /\ Joins(groups[o], OwnNodes(o), EndPairs(Conducting(OwnEdges(o))))
  <2> TAKE o \in DOMAIN groups
  <2>1. WellFormed(OwnEdges(o), OwnNodes(o))
    BY <1>1, <1>2, <1>3, <1>4, AloneIs, CablesAre
  <2>2. groups[o] = BuildElectricalGroups(OwnNodes(o), OwnEdges(o))
    BY <1>2, <1>3, <1>4
  <2> QED BY <2>1, <2>2, GroupsJoin
<1>6. nodes = UNION {OwnNodes(o) : o \in DOMAIN groups} /\ edges = UNION {OwnEdges(o) : o \in DOMAIN groups}
  <2>1. \A n \in nodes : \E o \in DOMAIN groups : n \in OwnNodes(o)
    BY <1>2, <1>3, <1>4 DEF Drawn
  <2>2. \A o \in DOMAIN groups : OwnNodes(o) \subseteq nodes /\ OwnEdges(o) \subseteq edges
    BY <1>2, <1>3, <1>4 DEF Drawn
  <2>3. \A e \in edges : \E o \in DOMAIN groups : e \in OwnEdges(o)
    BY <1>2, <1>3, <1>4 DEF Drawn
  <2> QED BY <2>1, <2>2, <2>3
<1>7. IsFiniteSet(nodes) /\ IsFiniteSet(edges)
  <2> DEFINE n == [o \in DOMAIN groups |-> OwnNodes(o)]  e == [o \in DOMAIN groups |-> OwnEdges(o)]
  <2>1. IsFiniteSet(DOMAIN groups)
    <3>1. DOMAIN groups \subseteq Done \cup {PassBOwner}
      BY <1>4
    <3>2. IsFiniteSet(Done \cup {PassBOwner})
      BY <1>1, FS_AddElement
    <3> QED BY <3>1, <3>2, FS_Subset
  <2>2. {OwnNodes(o) : o \in DOMAIN groups} = {n[o] : o \in DOMAIN n} /\ DOMAIN n = DOMAIN groups
    OBVIOUS
  <2>3. {OwnEdges(o) : o \in DOMAIN groups} = {e[o] : o \in DOMAIN e} /\ DOMAIN e = DOMAIN groups
    OBVIOUS
  <2> HIDE DEF n, e
  <2>4. IsFiniteSet({OwnNodes(o) : o \in DOMAIN groups}) /\ IsFiniteSet({OwnEdges(o) : o \in DOMAIN groups})
    BY <2>1, <2>2, <2>3, ImageFinite
  <2>5. \A o \in DOMAIN groups : IsFiniteSet(OwnNodes(o)) /\ IsFiniteSet(OwnEdges(o))
    BY <1>5 DEF WellFormed
  <2> QED BY <1>6, <2>4, <2>5, FS_UNION
<1> QED BY <1>5, <1>6, <1>7

\* Names of groups are nodes, and each round of the query keeps to the nodes.
Named == \A o \in DOMAIN groups : \A n \in DOMAIN groups[o] : n \in nodes /\ groups[o][n] \in nodes

\* The query ends: its last round finds no further group, and it never leaves a set
\* that a round does not leave.
LEMMA ExpandIs ==
    ASSUME Named, IsFiniteSet(nodes), NEW seed \in SUBSET nodes, seed # {}
    PROVE  LET all == ExpandElectricalGroups(seed)
           IN  /\ seed \subseteq all /\ OneRound(all) = all
               /\ \A S : seed \subseteq S /\ (\A G : G \subseteq S => OneRound(G) \subseteq S)
                           => all \subseteq S
<1> DEFINE n == Cardinality(nodes)  X == SUBSET nodes
           round == [G \in X |-> OneRound(G)]
           step == [k \in 1 .. n |-> round]
           Recursive(f) == f = [k \in 0 .. n |-> IF k = 0 THEN seed ELSE OneRound(f[k - 1])]
           f == CHOOSE g : Recursive(g)
<1>1. n \in Nat /\ \A k \in 1 .. n : k - 1 \in 0 .. n /\ k \in 0 .. n /\ k # 0
  BY FS_CardinalityType
<1>2. ExpandElectricalGroups(seed) = f[n]
  BY DEF ExpandElectricalGroups
<1>3. \A G \in X : OneRound(G) \in X /\ G \subseteq OneRound(G)
  <2>1. \A m : GetElectricalGroup(m) \subseteq nodes
    BY DEF GetElectricalGroup, Named
  <2> QED BY <2>1 DEF OneRound
<1>4. /\ round \in [X -> X] /\ \A G \in X : round[G] = OneRound(G) /\ G \subseteq round[G]
      /\ seed \in X /\ step \in [1 .. n -> [X -> X]] /\ \A k \in 1 .. n : step[k] = round
  BY <1>3
<1> HIDE DEF round, step, n, X
<1>5. PICK g \in [0 .. n -> X] : Records(g, n, seed, step)
  BY <1>1, <1>4, StepsExist
<1>6. Recursive(g)
  <2>1. \A k \in 0 .. n : g[k] = IF k = 0 THEN seed ELSE OneRound(g[k - 1])
    <3>1. \A k \in 0 .. n : k # 0 => k \in 1 .. n
      BY <1>1
    <3> QED BY <1>1, <1>4, <1>5, <3>1 DEF Records
  <2> QED BY <2>1
<1>7. Recursive(f)
  BY <1>6
<1> HIDE DEF f
<1>8. DOMAIN f = 0 .. n /\ f[0] = seed /\ \A k \in 1 .. n : f[k] = OneRound(f[k - 1])
  <2>1. 0 \in 0 .. n
    BY <1>1
  <2> QED BY <1>1, <1>7, <2>1
<1>9. f \in [0 .. n -> X] /\ f[0] = seed /\ \A k \in 1 .. n : f[k] = round[f[k - 1]]
  <2>1. Records(f, n, seed, step) /\ \A k \in 0 .. n : f[k] \in X
    <3>1. StepsIn(X, f, n, seed, step)
      BY <1>4, <1>8 DEF StepsIn
    <3> QED BY <1>1, <1>4, <3>1, StepsStay
  <2>2. f = [k \in 0 .. n |-> f[k]]
    BY <1>7
  <2> QED BY <1>4, <1>8, <2>1, <2>2 DEF Records
<1>10. /\ f[n] \in SUBSET nodes /\ seed \subseteq f[n] /\ round[f[n]] = f[n]
       /\ \A S : seed \subseteq S /\ ~Leaves(round, nodes, S) => f[n] \subseteq S
  <2>1. Widens(round, nodes)
    BY <1>4 DEF X, Widens
  <2>2. Rounds(f, Cardinality(nodes), nodes, seed, round)
    BY <1>9 DEF X, n, Rounds
  <2> QED BY <2>1, <2>2, RoundsEnd DEF n
<1>11. OneRound(f[n]) = f[n]
  BY <1>4, <1>10 DEF X
<1>12. ASSUME NEW S, seed \subseteq S, \A G : G \subseteq S => OneRound(G) \subseteq S
       PROVE  f[n] \subseteq S
  <2>1. ~Leaves(round, nodes, S)
    BY <1>4, <1>12 DEF X, Leaves
  <2> QED BY <1>10, <1>12, <2>1
<1> QED BY <1>2, <1>10, <1>11, <1>12

\* What is asked for a node and answered with another is a path of closed switches.
LEMMA ConnectionIsPath ==
    ASSUME Built, Drawn, Grouped, NEW n \in nodes
    PROVE  {m \in nodes : ElectricallyConnected(n, m)}
              = Reach(EndPairs({e \in edges : ClassOf(e.id) = "closed"}), n)
<1> DEFINE E == {e \in edges : ClassOf(e.id) = "closed"}  P == EndPairs(E)  R == Reach(P, n)
           all == ExpandElectricalGroups(GetElectricalGroup(n))
           Q(o) == EndPairs(Conducting(OwnEdges(o)))
<1>1. \A o \in DOMAIN groups : Joins(groups[o], OwnNodes(o), Q(o))
  BY RowsAre
<1>2. /\ nodes = UNION {OwnNodes(o) : o \in DOMAIN groups}
      /\ edges = UNION {OwnEdges(o) : o \in DOMAIN groups}
      /\ IsFiniteSet(nodes) /\ IsFiniteSet(edges)
  BY RowsAre
<1>3. IsFiniteSet(P)
  <2> DEFINE f == [e \in E |-> <<e.t1, e.t2>>]
  <2>1. P = {f[e] : e \in DOMAIN f} /\ DOMAIN f = E
    BY DEF EndPairs
  <2>2. IsFiniteSet(E)
    BY <1>2, FS_Subset
  <2> HIDE DEF f, E
  <2> QED BY <2>1, <2>2, ImageFinite
<1>4. E = UNION {Conducting(OwnEdges(o)) : o \in DOMAIN groups}
  BY <1>2 DEF Conducting, Conducts
<1>5. \A q : q \in P <=> \E o \in DOMAIN groups : q \in Q(o)
  BY <1>4 DEF EndPairs
<1> HIDE DEF E, P, Q
<1>6. n \in R /\ Undivided(R, P) /\ \A S : n \in S /\ Undivided(S, P) => R \subseteq S
  BY <1>3, ReachIs
<1> HIDE DEF R
<1>7. \A o \in DOMAIN groups : /\ DOMAIN groups[o] = OwnNodes(o) /\ OwnNodes(o) \subseteq nodes
                              /\ \A m \in OwnNodes(o) : groups[o][m] \in OwnNodes(o)
                              /\ \A q \in Q(o) : /\ q[1] \in OwnNodes(o) /\ q[2] \in OwnNodes(o)
                                                 /\ groups[o][q[1]] = groups[o][q[2]]
  BY <1>1, <1>2 DEF Joins
<1>8. Named
  BY <1>7 DEF Named
<1>9. \A m : \A g : g \in GetElectricalGroup(m) <=>
                      \E o \in DOMAIN groups : m \in OwnNodes(o) /\ g = groups[o][m]
  BY <1>7 DEF GetElectricalGroup
<1>10. \A m \in nodes : GetElectricalGroup(m) # {} /\ GetElectricalGroup(m) \subseteq nodes
  <2> TAKE m \in nodes
  <2>1. PICK o \in DOMAIN groups : m \in OwnNodes(o)
    BY <1>2
  <2>2. groups[o][m] \in GetElectricalGroup(m)
    BY <1>9, <2>1
  <2>3. \A g \in GetElectricalGroup(m) : g \in nodes
    BY <1>7, <1>9
  <2> QED BY <2>2, <2>3
<1>11. /\ GetElectricalGroup(n) \subseteq all /\ OneRound(all) = all
       /\ \A S : GetElectricalGroup(n) \subseteq S /\ (\A G : G \subseteq S => OneRound(G) \subseteq S)
                   => all \subseteq S
  BY <1>2, <1>8, <1>10, ExpandIs
<1> HIDE DEF all
<1>12. \A G, m : m \in GetGroupMembers(G) <=>
                     \E o \in DOMAIN groups : m \in OwnNodes(o) /\ groups[o][m] \in G
  BY <1>7 DEF GetGroupMembers
<1>13. \A m : ElectricallyConnected(n, m) <=> all \cap GetElectricalGroup(m) # {}
  BY DEF ElectricallyConnected, all
<1>14. \A m : ElectricallyConnected(n, m) => GetElectricalGroup(m) \subseteq all
  <2> SUFFICES ASSUME NEW m, ElectricallyConnected(n, m) PROVE GetElectricalGroup(m) \subseteq all
    OBVIOUS
  <2>1. m \in GetGroupMembers(all)
    BY <1>9, <1>12, <1>13
  <2> QED BY <1>11, <2>1 DEF OneRound
<1>15. R \subseteq {m \in nodes : ElectricallyConnected(n, m)}
  <2> DEFINE C == {m \in nodes : ElectricallyConnected(n, m)}
  <2>1. n \in C
    BY <1>10, <1>11, <1>13
  <2>2. ASSUME NEW q \in P PROVE q[1] \in C <=> q[2] \in C
    <3>1. PICK o \in DOMAIN groups : q \in Q(o)
      BY <1>5
    <3> DEFINE a == q[1]  b == q[2]  g == groups[o][a]
    <3>2. a \in OwnNodes(o) /\ b \in OwnNodes(o) /\ g = groups[o][b]
      BY <1>1, <3>1 DEF Joins
    <3> HIDE DEF g
    <3>3. g \in GetElectricalGroup(a) /\ g \in GetElectricalGroup(b)
      BY <1>9, <3>2 DEF g
    <3>4. a \in nodes /\ b \in nodes
      BY <1>7, <3>2
    <3> HIDE DEF a, b
    <3>5. a \in C <=> b \in C
      BY <1>13, <1>14, <3>3, <3>4
    <3> QED BY <3>5 DEF a, b
  <2> HIDE DEF C
  <2>3. Undivided(C, P)
    BY <2>2 DEF Undivided
  <2> QED BY <1>6, <2>1, <2>3 DEF C
<1>16. \A o \in DOMAIN groups : \A m \in OwnNodes(o) : m \in R <=> groups[o][m] \in R
  <2> TAKE o \in DOMAIN groups
  <2>1. Undivided(R \cap OwnNodes(o), Q(o))
    BY <1>5, <1>6, <1>7 DEF Undivided
  <2>2. \A m \in OwnNodes(o) : m \in R \cap OwnNodes(o) <=> groups[o][m] \in R \cap OwnNodes(o)
    BY <1>1, <2>1, R \cap OwnNodes(o) \in SUBSET OwnNodes(o) DEF Joins
  <2> QED BY <1>7, <2>2
<1>17. all \subseteq R
  <2>1. GetElectricalGroup(n) \subseteq R
    BY <1>6, <1>9, <1>16
  <2>2. ASSUME NEW G, G \subseteq R PROVE OneRound(G) \subseteq R
    <3>1. \A m \in GetGroupMembers(G) : m \in R
      BY <1>12, <1>16, <2>2
    <3>2. \A m \in GetGroupMembers(G) : GetElectricalGroup(m) \subseteq R
      BY <1>9, <1>16, <3>1
    <3> QED BY <2>2, <3>2 DEF OneRound
  <2> QED BY <1>11, <2>1, <2>2
<1>18. \A m \in nodes : ElectricallyConnected(n, m) => m \in R
  BY <1>9, <1>13, <1>16, <1>17
<1> QED BY <1>15, <1>18 DEF R, P, E

\* ElectricallyConnected holds of two nodes exactly when a path of closed switches joins
\* them, whatever stations it leads through and in whatever order the edges were met.
THEOREM ConnectionsArePaths == Spec => []ElectricalConnectionIsPath
<1>1. Built /\ Drawn /\ Grouped => ElectricalConnectionIsPath
  BY ConnectionIsPath DEF ElectricalConnectionIsPath
<1> QED BY InitBuilt, StepBuilt, InitDrawn, StepDrawn, InitGrouped, StepGrouped, <1>1, PTL DEF Spec

\* An edge with a node of its own joins its ends unless a transformer or a switch that
\* is open now separates them.
LEMMA CircuitJoins ==
    ASSUME Built, Drawn, Grouped, NEW S \in SUBSET Switches
    PROVE  LET open == {i \in Switches : (ClassOf(i) = "open") # (i \in S)}
               separates(e) == e.id \in open \/ ClassOf(e.id) = "transformer"
           IN  Joins(BuildCircuits(nodes, edges, Thrown(S)), nodes \ {GND},
                     EndPairs({e \in edges : ~separates(e) /\ GND \notin {e.t1, e.t2}}))
<1> DEFINE open == {i \in Switches : (ClassOf(i) = "open") # (i \in S)}
           separates(e) == e.id \in open \/ ClassOf(e.id) = "transformer"
           ov == Thrown(S)
           E == {e \in edges : JoinsCircuit(ov, e)}
<1>1. \A i \in Switches : IsSwitch(i)
  BY DEF Switches
<1>2. DOMAIN ov = S /\ \A i \in S : ov[i] = (ClassOf(i) = "closed")
  BY DEF Thrown
<1> HIDE DEF ov
<1>3. \A i \in Switches : EffectiveOpen(ov, i) <=> i \in open
  <2> TAKE i \in Switches
  <2>1. CASE i \in S
    <3>1. EffectiveOpen(ov, i) <=> ClassOf(i) = "closed"
      BY <1>2, <2>1 DEF EffectiveOpen
    <3>2. ClassOf(i) = "closed" <=> ClassOf(i) # "open"
      BY <1>1 DEF IsSwitch
    <3> QED BY <2>1, <3>1, <3>2
  <2>2. CASE i \notin S
    <3>1. EffectiveOpen(ov, i) <=> ClassOf(i) = "open"
      BY <1>2, <2>2 DEF EffectiveOpen
    <3> QED BY <2>2, <3>1
  <2> QED BY <2>1, <2>2
<1> HIDE DEF open
<1>4. \A e \in edges : IsSwitch(e.id) => e.id \in Switches
  BY DEF Switches
<1>5. open \subseteq Switches
  BY DEF open
<1>6. \A e \in edges : JoinsCircuit(ov, e) <=> ~separates(e) /\ GND \notin {e.t1, e.t2}
  BY <1>1, <1>3, <1>4, <1>5 DEF JoinsCircuit
<1>7. E = {e \in edges : ~separates(e) /\ GND \notin {e.t1, e.t2}}
  BY <1>6
<1>8. IsFiniteSet(E)
  BY RowsAre, FS_Subset
<1>9. Touch(E, nodes \ {GND})
  <2>1. \A e \in edges : e.t1 \in nodes /\ e.t2 \in nodes
    BY RowsFit
  <2> QED BY <2>1 DEF Touch, JoinsCircuit
<1>10. BuildCircuits(nodes, edges, ov) = UnionFind(nodes \ {GND}, PairsOf(E))
  BY DEF BuildCircuits
<1> HIDE DEF E
<1>11. Joins(BuildCircuits(nodes, edges, ov), nodes \ {GND}, EndPairs(E))
  BY <1>8, <1>9, <1>10, EdgesJoin
<1> QED BY <1>7, <1>11 DEF open, ov

\* Whichever switches are thrown, circuits are what a path joins that crosses nothing
\* that separates, and only a transformer or an open switch touches two of them.
LEMMA CircuitsAre ==
    ASSUME Built, Drawn, Grouped, NEW S \in SUBSET Switches
    PROVE  LET open == {i \in Switches : (ClassOf(i) = "open") # (i \in S)}
               separates(e) == e.id \in open \/ ClassOf(e.id) = "transformer"
               P == EndPairs({e \in edges : ~separates(e) /\ GND \notin {e.t1, e.t2}})
               circuit == BuildCircuits(nodes, edges, Thrown(S))
           IN  /\ \A n \in DOMAIN circuit : {m \in DOMAIN circuit : circuit[m] = circuit[n]} = Reach(P, n)
               /\ \A e \in edges : LET touched == GetSchaltkreis(e.id, Thrown(S)) IN
                     /\ touched # NoResult
                     /\ Cardinality(touched) = 2 => separates(e)
<1> DEFINE open == {i \in Switches : (ClassOf(i) = "open") # (i \in S)}
           separates(e) == e.id \in open \/ ClassOf(e.id) = "transformer"
           E == {e \in edges : ~separates(e) /\ GND \notin {e.t1, e.t2}}
           P == EndPairs(E)
           circuit == BuildCircuits(nodes, edges, Thrown(S))
           N == nodes \ {GND}
           touched(e) == GetSchaltkreis(e.id, Thrown(S))
<1>1. Joins(circuit, N, P)
  BY CircuitJoins
<1>2. IsFiniteSet(P)
  <2> DEFINE f == [e \in E |-> <<e.t1, e.t2>>]
  <2>1. P = {f[e] : e \in DOMAIN f} /\ DOMAIN f = E
    BY DEF EndPairs
  <2>2. IsFiniteSet(E)
    BY RowsAre, FS_Subset
  <2> HIDE DEF f, E
  <2> QED BY <2>1, <2>2, ImageFinite
<1>3. \A e \in edges : ~separates(e) /\ GND \notin {e.t1, e.t2} => <<e.t1, e.t2>> \in P
  BY DEF EndPairs
<1>4. \A e \in edges : touched(e) = UNION {{circuit[n] : n \in {f.t1, f.t2} \ {GND}} : f \in {f \in edges : f.id = e.id}}
  BY DEF GetSchaltkreis
<1> HIDE DEF P, circuit, separates, touched
<1>5. ASSUME NEW n \in DOMAIN circuit
      PROVE  {m \in DOMAIN circuit : circuit[m] = circuit[n]} = Reach(P, n)
  <2> DEFINE C == {m \in N : circuit[m] = circuit[n]}  R == Reach(P, n)
  <2>1. DOMAIN circuit = N /\ n \in C
    BY <1>1, <1>5 DEF Joins
  <2>2. Undivided(C, P)
    BY <1>1 DEF Joins, Undivided
  <2>3. n \in R /\ Undivided(R, P) /\ \A T : n \in T /\ Undivided(T, P) => R \subseteq T
    BY <1>2, ReachIs
  <2>4. R \subseteq C /\ R \in SUBSET N
    BY <2>1, <2>2, <2>3
  <2>5. \A m \in N : m \in R <=> circuit[m] \in R
    BY <1>1, <2>3, <2>4 DEF Joins
  <2>6. C \subseteq R
    BY <2>1, <2>3, <2>5
  <2> QED BY <2>1, <2>4, <2>6
<1>6. \A e \in edges : {e.t1, e.t2} \subseteq nodes /\ e.t1 # GND
  BY RowsFit
<1>7. ASSUME NEW e \in edges
      PROVE  touched(e) # NoResult /\ (Cardinality(touched(e)) = 2 => separates(e))
  <2>1. {f \in edges : f.id = e.id} = {e}
    BY RowsFit
  <2>2. touched(e) = {circuit[n] : n \in {e.t1, e.t2} \ {GND}}
    BY <1>4, <2>1
  <2>3. circuit[e.t1] \in touched(e)
    BY <1>6, <2>2
  <2>4. ASSUME ~separates(e) PROVE touched(e) = {circuit[e.t1]}
    <3>1. CASE GND \in {e.t1, e.t2}
      BY <1>6, <2>2, <3>1
    <3>2. CASE GND \notin {e.t1, e.t2}
      <4> DEFINE q == <<e.t1, e.t2>>
      <4>1. q \in P /\ q[1] = e.t1 /\ q[2] = e.t2
        BY <1>3, <2>4, <3>2
      <4> HIDE DEF q
      <4>2. circuit[e.t1] = circuit[e.t2]
        BY <1>1, <4>1 DEF Joins
      <4> QED BY <2>2, <3>2, <4>2
    <3> QED BY <3>1, <3>2
  <2>5. Cardinality({circuit[e.t1]}) = 1
    BY FS_Singleton
  <2> QED BY <2>3, <2>4, <2>5 DEF NoResult
<1> QED BY <1>5, <1>7 DEF P, circuit, separates, touched

\* Whichever switches are thrown, two nodes are in one circuit exactly when a path joins
\* them that crosses no transformer, no open switch and not the ground, and only a
\* transformer or an open switch touches two circuits.
THEOREM CircuitsArePaths == Spec => []CircuitsFollowSwitches
<1>1. Built /\ Drawn /\ Grouped => CircuitsFollowSwitches
  BY CircuitsAre DEF CircuitsFollowSwitches
<1> QED BY InitBuilt, StepBuilt, InitDrawn, StepDrawn, InitGrouped, StepGrouped, <1>1, PTL DEF Spec

-----------------------------------------------------------------------------
(* The two merges of a station.                                             *)

\* A renaming to the smallest takes the nodes of each set to its smallest, and leaves
\* every other node alone; two nodes have one name after it only if a set has both.
To(remap, n) == IF n \in DOMAIN remap THEN remap[n] ELSE n
Apart(sets) == /\ \A N \in sets : N \in SUBSET Real /\ N # {}
               /\ \A N, M \in sets : N \cap M # {} => N = M
LEMMA SmallestIs ==
    ASSUME NEW sets, Apart(sets)
    PROVE  LET remap == ToSmallest(sets)
           IN  /\ \A N \in sets : Min(N) \in N /\ \A n \in N : To(remap, n) = Min(N)
               /\ \A n : (\A N \in sets : n \notin N) => To(remap, n) = n
               /\ \A n : n \in Real => To(remap, n) \in Real
               /\ \A n : n \notin Real => To(remap, n) = n
               /\ \A x, y : To(remap, x) = To(remap, y) => x = y \/ \E N \in sets : x \in N /\ y \in N
<1> DEFINE remap == ToSmallest(sets)
<1>1. \A N \in sets : N \in SUBSET Nat /\ N # {} /\ Min(N) \in N
  BY MinIs DEF Real, Apart
<1>2. /\ DOMAIN remap = UNION {N \ {Min(N)} : N \in sets}
      /\ \A n \in DOMAIN remap : remap[n] = Min(CHOOSE N \in sets : n \in N)
  BY DEF ToSmallest
<1> HIDE DEF remap
<1>3. \A N \in sets : \A n \in N : (CHOOSE M \in sets : n \in M) = N
  BY DEF Apart
<1>4. ASSUME NEW N \in sets, NEW n \in N PROVE To(remap, n) = Min(N)
  <2>1. CASE n \in DOMAIN remap
    BY <1>2, <1>3, <2>1 DEF To
  <2>2. CASE n \notin DOMAIN remap
    <3>1. n = Min(N)
      BY <1>2, <2>2
    <3> QED BY <2>2, <3>1 DEF To
  <2> QED BY <2>1, <2>2
<1>5. \A n : (\A N \in sets : n \notin N) => To(remap, n) = n
  BY <1>2 DEF To
<1>6. ASSUME NEW x, NEW y, To(remap, x) = To(remap, y), x # y
      PROVE  \E N \in sets : x \in N /\ y \in N
  <2>1. \A z : (\E N \in sets : z \in N /\ To(remap, z) = Min(N) /\ Min(N) \in N) \/ To(remap, z) = z
    BY <1>1, <1>4, <1>5
  <2>2. \A z : \A N \in sets : To(remap, z) \in N => z \in N
    BY <1>1, <1>4, <1>5 DEF Apart
  <2> QED BY <1>6, <2>1, <2>2
<1>7. /\ \A n : n \in Real => To(remap, n) \in Real
      /\ \A n : n \notin Real => To(remap, n) = n
  BY <1>1, <1>4, <1>5 DEF Apart
<1> QED BY <1>1, <1>4, <1>5, <1>6, <1>7 DEF remap

OwnMembers(s) == {i \in Members(src) : StationOf(src, i) = s}
OwnSections(s) == {i \in OwnMembers(s) : Section(src, i)}
Raw(s) == ResolveTerminals(OwnMembers(s), OwnSections(s))
JMap(s) == JunctionRemap(Raw(s), OwnSections(s))
Mid(s) == Renamed(Raw(s), JMap(s))
Bar(s) == [i \in OwnSections(s) \cap DOMAIN Mid(s) |-> ContainerOf(src, i)]
BMap(s) == BarRemap(Mid(s), OwnSections(s), Bar(s))
Final(s) == Renamed(Mid(s), BMap(s))
NewName(s, n) == To(BMap(s), To(JMap(s), n))

\* A station yields the graph of what is left after both merges.
LEMMA AloneIsFinal ==
    ASSUME src \in Sources, NEW s \in Roots(src)
    PROVE  Alone(s) = [nodes |-> BuildNodes(Final(s), OwnSections(s)), edges |-> BuildEdges(Final(s), OwnSections(s))]
<1> DEFINE d == ResolveBatchContainers(src, {s})
<1>1. /\ EquipmentOf(d, s) = OwnMembers(s) /\ d.of = BatchOf(src, {s})
      /\ Roles(d) = {i \in Members(src) : StationOf(src, i) \in {s} /\ Section(src, i)}
  BY BatchEquipment, {s} \in SUBSET Roots(src), s \in {s} DEF OwnMembers
<1> HIDE DEF d
<1>2. OwnMembers(s) \cap Roles(d) = OwnSections(s)
  BY <1>1 DEF OwnMembers, OwnSections
<1>3. \A i \in OwnSections(s) : BarOf(d, i) = ContainerOf(src, i)
  BY <1>1 DEF BarOf, BatchOf, OwnSections, OwnMembers
<1>4. [i \in OwnSections(s) \cap DOMAIN Mid(s) |-> BarOf(d, i)] = Bar(s)
  BY <1>3 DEF Bar
<1>5. MergeJunctionNodes(Raw(s), OwnSections(s)) = Mid(s)
  BY DEF MergeJunctionNodes, Mid, JMap
<1>6. MergeBusbarSectionNodes(Mid(s), d, OwnSections(s)) = Final(s)
  BY <1>4 DEF MergeBusbarSectionNodes, Final, BMap
<1>7. Topology(d, OwnMembers(s)) = [nodes |-> BuildNodes(Final(s), OwnSections(s)), edges |-> BuildEdges(Final(s), OwnSections(s))]
  BY <1>2, <1>5, <1>6 DEF Topology, Raw
<1> QED BY <1>1, <1>7 DEF Alone, StationTopologyOf, d

EqNodes(i) == ToSet(src.equip[i].nodes)
Hub(i) == Min(EqNodes(i))

\* A node carries sections of one busbar, and one section if that has several Terminals.
LEMMA SectionsApart ==
    ASSUME src \in Sources, NEW i \in Members(src), Section(src, i), NEW j \in Members(src), Section(src, j),
           EqNodes(i) \cap EqNodes(j) # {}, i # j
    PROVE  /\ ContainerOf(src, i) = ContainerOf(src, j)
           /\ Len(src.equip[i].nodes) = 1 /\ Len(src.equip[j].nodes) = 1
<1> DEFINE w == BuildContainers(src)
<1>1. i \in DOMAIN src.equip /\ j \in DOMAIN src.equip
  BY MemberIsIn
<1>2. SectionsIn(src) \subseteq DOMAIN w.of
  BY ScanFinds, ZenonT(30) DEF Over
<1>3. i \in DOMAIN w.of /\ j \in DOMAIN w.of
  BY <1>1, <1>2 DEF SectionsIn, Section
<1>4. w.of[i] = ContainerOf(src, i) /\ w.of[j] = ContainerOf(src, j)
  BY <1>3, ScanPlaces
<1>5. NodesIn(src, {i}) = EqNodes(i) /\ NodesIn(src, {j}) = EqNodes(j)
  BY <1>1, NodesAre DEF EqNodes
<1>6. OneBusbarPerNode(src)
  BY SourceAssumption
<1>7. Class(src, i) = "busbar" /\ Class(src, j) = "busbar"
  BY DEF Section
<1> HIDE DEF w
<1>8. /\ w.of[i] = w.of[j] /\ Len(src.equip[i].nodes) = 1 /\ Len(src.equip[j].nodes) = 1
  BY <1>3, <1>5, <1>6, <1>7 DEF OneBusbarPerNode, w
<1> QED BY <1>4, <1>8

\* The Terminals of a station, resolved.
Noticed(s) == OwnSections(s) \cap DOMAIN Raw(s)
LEMMA RawIs ==
    ASSUME src \in Sources, NEW s \in Roots(src)
    PROVE  /\ Resolves(Raw(s))
           /\ \A i \in OwnMembers(s) \ OwnSections(s) :
                 i \in DOMAIN Raw(s) <=> Len(src.equip[i].nodes) \in {1, 2}
           /\ \A i \in DOMAIN Raw(s) : i \in OwnMembers(s)
           /\ \A i \in OwnSections(s) : i \in DOMAIN Raw(s) <=> EqNodes(i) # {}
           /\ \A i \in Noticed(s) :
                 /\ Hub(i) \in EqNodes(i) /\ EqNodes(i) \in SUBSET Real
                 /\ Raw(s)[i].first = Hub(i) /\ Raw(s)[i].second = NoNode
                 /\ Raw(s)[i].extra = EqNodes(i) \ {Hub(i)}
           /\ \A i \in DOMAIN Raw(s) \ OwnSections(s) :
                 /\ Raw(s)[i].first = src.equip[i].nodes[1]
                 /\ Raw(s)[i].second = IF Len(src.equip[i].nodes) = 2 THEN src.equip[i].nodes[2] ELSE NoNode
<1> DEFINE r == Raw(s)
<1>1. OwnMembers(s) \in SUBSET DOMAIN src.equip /\ OwnSections(s) \subseteq OwnMembers(s)
  BY MemberIsIn DEF OwnMembers, OwnSections
<1>2. Resolves(r)
  BY <1>1, TerminalsResolve DEF Raw
<1>3. /\ DOMAIN r = {i \in OwnMembers(s) : Classified(i, OwnSections(s))}
      /\ \A i \in DOMAIN r : r[i] = Ends(i, OwnSections(s))
  BY DEF Raw, ResolveTerminals
<1> HIDE DEF r
<1>4. \A i \in OwnSections(s) : i \in DOMAIN r <=> EqNodes(i) # {}
  <2> TAKE i \in OwnSections(s)
  <2> DEFINE q == src.equip[i].nodes
  <2>0. i \in DOMAIN src.equip
    BY <1>1
  <2>1. Len(q) \in Nat /\ EqNodes(i) = {q[k] : k \in 1 .. Len(q)}
    <3>1. q \in Seq(Nat) /\ ToSet(q) = {q[k] : k \in 1 .. Len(q)}
      BY <2>0, NodesAre
    <3> HIDE DEF q
    <3>2. Len(q) \in Nat
      BY <3>1
    <3>3. EqNodes(i) = ToSet(q)
      BY DEF EqNodes, q
    <3> QED BY <3>1, <3>2, <3>3
  <2>2. i \in DOMAIN r <=> Len(q) >= 1
    BY <1>1, <1>3 DEF Classified, NodesOf
  <2> HIDE DEF q
  <2>3. EqNodes(i) # {} <=> Len(q) >= 1
    <3>1. Len(q) >= 1 => 1 \in 1 .. Len(q)
      BY <2>1
    <3> QED BY <2>1, <3>1
  <2> QED BY <2>2, <2>3
<1>5. \A i \in Noticed(s) :
         /\ Hub(i) \in EqNodes(i) /\ EqNodes(i) \in SUBSET Real
         /\ r[i].first = Hub(i) /\ r[i].second = NoNode /\ r[i].extra = EqNodes(i) \ {Hub(i)}
  <2> TAKE i \in Noticed(s)
  <2>1. i \in OwnSections(s) /\ i \in DOMAIN r /\ i \in DOMAIN src.equip
    BY <1>1 DEF Noticed, r
  <2>2. EqNodes(i) \in SUBSET Nat /\ \A n \in EqNodes(i) : n # GND
    BY <2>1, NodesAre DEF EqNodes
  <2>3. EqNodes(i) # {} /\ EqNodes(i) \in SUBSET Real
    BY <1>4, <2>1, <2>2 DEF Real
  <2>4. Hub(i) \in EqNodes(i)
    BY <2>2, <2>3, MinIs DEF Hub
  <2>5. r[i] = [first |-> Hub(i), second |-> NoNode, extra |-> EqNodes(i) \ {Hub(i)}]
    BY <1>3, <2>1 DEF Ends, Hub, EqNodes, NodesOf
  <2> QED BY <2>3, <2>4, <2>5
<1>6. \A i \in DOMAIN r \ OwnSections(s) :
         /\ r[i].first = src.equip[i].nodes[1]
         /\ r[i].second = IF Len(src.equip[i].nodes) = 2 THEN src.equip[i].nodes[2] ELSE NoNode
  BY <1>3 DEF Ends, NodesOf
<1>7. /\ \A i \in OwnMembers(s) \ OwnSections(s) : i \in DOMAIN r <=> Len(src.equip[i].nodes) \in {1, 2}
      /\ \A i \in DOMAIN r : i \in OwnMembers(s)
  BY <1>3 DEF Classified, NodesOf
<1> QED BY <1>2, <1>4, <1>5, <1>6, <1>7 DEF r

\* Two noticed sections that share a node are one, or have one busbar and no other node.
LEMMA NoticedApart ==
    ASSUME src \in Sources, NEW s \in Roots(src)
    PROVE  \A i, j \in Noticed(s) : EqNodes(i) \cap EqNodes(j) # {} =>
              /\ ContainerOf(src, i) = ContainerOf(src, j)
              /\ i = j \/ (EqNodes(i) = {Hub(i)} /\ EqNodes(j) = {Hub(j)})
<1> SUFFICES ASSUME NEW i \in Noticed(s), NEW j \in Noticed(s), EqNodes(i) \cap EqNodes(j) # {}, i # j
             PROVE  /\ ContainerOf(src, i) = ContainerOf(src, j)
                    /\ EqNodes(i) = {Hub(i)} /\ EqNodes(j) = {Hub(j)}
  OBVIOUS
<1>1. /\ i \in Members(src) /\ Section(src, i) /\ i \in DOMAIN src.equip
      /\ j \in Members(src) /\ Section(src, j) /\ j \in DOMAIN src.equip
  BY MemberIsIn DEF Noticed, OwnSections, OwnMembers
<1>2. /\ ContainerOf(src, i) = ContainerOf(src, j)
      /\ Len(src.equip[i].nodes) = 1 /\ Len(src.equip[j].nodes) = 1
  BY <1>1, SectionsApart
<1>3. EqNodes(i) = {src.equip[i].nodes[1]} /\ EqNodes(j) = {src.equip[j].nodes[1]}
  <2>1. 1 .. 1 = {1}
    OBVIOUS
  <2>2. /\ EqNodes(i) = {src.equip[i].nodes[k] : k \in 1 .. Len(src.equip[i].nodes)}
        /\ EqNodes(j) = {src.equip[j].nodes[k] : k \in 1 .. Len(src.equip[j].nodes)}
    BY <1>1, NodesAre DEF EqNodes
  <2> QED BY <1>2, <2>1, <2>2
<1>4. Hub(i) \in EqNodes(i) /\ Hub(j) \in EqNodes(j)
  BY RawIs
<1> QED BY <1>2, <1>3, <1>4

\* What the first merge does: the nodes of a section become its hub, and no others meet.
LEMMA JunctionsAre ==
    ASSUME src \in Sources, NEW s \in Roots(src)
    PROVE  /\ \A i \in Noticed(s) : \A x \in EqNodes(i) : To(JMap(s), x) = Hub(i)
           /\ \A x, y : To(JMap(s), x) = To(JMap(s), y) =>
                 x = y \/ \E i \in Noticed(s) : x \in EqNodes(i) /\ y \in EqNodes(i)
           /\ \A n : n \in Real => To(JMap(s), n) \in Real
           /\ \A n : n \notin Real => To(JMap(s), n) = n
<1> DEFINE r == Raw(s)
           several == {i \in Noticed(s) : EqNodes(i) # {Hub(i)}}
           sets == {EqNodes(i) : i \in several}
<1>1. \A i \in Noticed(s) : /\ Hub(i) \in EqNodes(i) /\ EqNodes(i) \in SUBSET Real
                            /\ r[i].first = Hub(i) /\ r[i].extra = EqNodes(i) \ {Hub(i)}
  BY RawIs
<1> HIDE DEF r
<1>2. \A i \in Noticed(s) : {r[i].first} \cup r[i].extra = EqNodes(i) /\ (r[i].extra # {} <=> EqNodes(i) # {Hub(i)})
  BY <1>1
<1>3. {{r[i].first} \cup r[i].extra : i \in {i \in Noticed(s) : r[i].extra # {}}} = sets
  <2>1. {i \in Noticed(s) : r[i].extra # {}} = several
    BY <1>2
  <2>2. \A i \in several : {r[i].first} \cup r[i].extra = EqNodes(i)
    BY <1>2
  <2> HIDE DEF several
  <2> QED BY <2>1, <2>2
<1>4. JMap(s) = ToSmallest(sets)
  <2>1. JMap(s) = ToSmallest({{r[i].first} \cup r[i].extra : i \in {i \in Noticed(s) : r[i].extra # {}}})
    BY DEF JMap, JunctionRemap, Noticed, r
  <2> HIDE DEF sets
  <2> QED BY <1>3, <2>1
<1>5. Apart(sets)
  BY <1>1, NoticedApart DEF Apart
<1>6. \A i \in Noticed(s) : \A x \in EqNodes(i) : To(JMap(s), x) = Hub(i)
  <2> TAKE i \in Noticed(s)
  <2> TAKE x \in EqNodes(i)
  <2>1. CASE i \in several
    <3>1. EqNodes(i) \in sets
      BY <2>1
    <3> HIDE DEF sets
    <3>2. To(ToSmallest(sets), x) = Min(EqNodes(i))
      BY <1>5, <3>1, SmallestIs
    <3> QED BY <1>4, <3>2 DEF Hub
  <2>2. CASE i \notin several
    <3>1. x = Hub(i)
      BY <2>2
    <3>2. \A N \in sets : x \notin N
      BY <2>2, NoticedApart
    <3> HIDE DEF sets
    <3>3. To(ToSmallest(sets), x) = x
      BY <1>5, <3>2, SmallestIs
    <3> QED BY <1>4, <3>1, <3>3
  <2> QED BY <2>1, <2>2
<1>7. ASSUME NEW x, NEW y, To(JMap(s), x) = To(JMap(s), y), x # y
      PROVE  \E i \in Noticed(s) : x \in EqNodes(i) /\ y \in EqNodes(i)
  <2>1. \E N \in sets : x \in N /\ y \in N
    <3> HIDE DEF sets
    <3> QED BY <1>4, <1>5, <1>7, SmallestIs
  <2> QED BY <2>1
<1>8. /\ \A n : n \in Real => To(JMap(s), n) \in Real
      /\ \A n : n \notin Real => To(JMap(s), n) = n
  <2> HIDE DEF sets
  <2> QED BY <1>4, <1>5, SmallestIs
<1> QED BY <1>6, <1>7, <1>8

\* What is left after the first merge.
LEMMA MidIs ==
    ASSUME src \in Sources, NEW s \in Roots(src)
    PROVE  /\ Resolves(Mid(s)) /\ DOMAIN Mid(s) = DOMAIN Raw(s)
           /\ \A i \in DOMAIN Raw(s) : /\ Mid(s)[i].first = To(JMap(s), Raw(s)[i].first)
                                       /\ Mid(s)[i].second = To(JMap(s), Raw(s)[i].second)
           /\ \A i \in Noticed(s) : Mid(s)[i].first = Hub(i)
<1>1. DOMAIN Mid(s) = DOMAIN Raw(s) /\ \A i \in DOMAIN Raw(s) :
         /\ Mid(s)[i].first = To(JMap(s), Raw(s)[i].first)
         /\ Mid(s)[i].second = To(JMap(s), Raw(s)[i].second)
  BY DEF Mid, Renamed, To
<1>2. Resolves(Mid(s))
  <2>1. Mid(s) = MergeJunctionNodes(Raw(s), OwnSections(s))
    BY DEF Mid, MergeJunctionNodes, JMap
  <2> QED BY <2>1, RawIs, JunctionsResolve
<1>3. \A i \in Noticed(s) : Mid(s)[i].first = Hub(i)
  BY <1>1, RawIs, JunctionsAre DEF Noticed
<1> QED BY <1>1, <1>2, <1>3

\* The busbars of a station, the nodes each has after the first merge, and those that
\* the edges of the station do not connect.
Bars(s) == {ContainerOf(src, i) : i \in Noticed(s)}
HubsOf(s, b) == {Hub(i) : i \in {i \in Noticed(s) : ContainerOf(src, i) = b}}
Start(s) == {GND} \cup UNION {{Mid(s)[i].first, Mid(s)[i].second} : i \in DOMAIN Mid(s)}
Found(s) == UnionFind(Start(s), Pairs(Mid(s), OwnSections(s)))
Split(s) == {b \in Bars(s) : Cardinality({Found(s)[n] : n \in HubsOf(s, b)}) > 1}

\* What the second merge does: the hubs of a split busbar become one.
LEMMA BusbarsAre ==
    ASSUME src \in Sources, NEW s \in Roots(src)
    PROVE  /\ \A b \in Split(s) : \A x \in HubsOf(s, b) : To(BMap(s), x) = Min(HubsOf(s, b))
           /\ \A x, y : To(BMap(s), x) = To(BMap(s), y) =>
                 x = y \/ \E b \in Split(s) : x \in HubsOf(s, b) /\ y \in HubsOf(s, b)
           /\ \A n : n \in Real => To(BMap(s), n) \in Real
           /\ \A n : n \notin Real => To(BMap(s), n) = n
<1> DEFINE r == Mid(s)  bar == Bar(s)
           at(b) == {r[i].first : i \in {i \in DOMAIN bar : bar[i] = b}}
           split == {b \in Range(bar) : Cardinality({Found(s)[n] : n \in at(b)}) > 1}
           sets == {HubsOf(s, b) : b \in Split(s)}
<1>1. DOMAIN bar = Noticed(s) /\ \A i \in Noticed(s) : bar[i] = ContainerOf(src, i) /\ r[i].first = Hub(i)
  BY MidIs DEF Bar, Noticed
<1>2. BMap(s) = ToSmallest({at(b) : b \in split})
  BY DEF BMap, BarRemap, Found, Start
<1> HIDE DEF r, bar
<1>3. \A b : at(b) = HubsOf(s, b)
  BY <1>1 DEF HubsOf
<1>4. Range(bar) = Bars(s)
  BY <1>1 DEF Range, Bars
<1> HIDE DEF at
<1>5. BMap(s) = ToSmallest(sets)
  <2>1. split = Split(s)
    BY <1>3, <1>4 DEF Split
  <2> HIDE DEF split
  <2>2. {at(b) : b \in split} = sets
    BY <1>3, <2>1
  <2> HIDE DEF sets
  <2> QED BY <1>2, <2>2
<1>6. \A i \in Noticed(s) : Hub(i) \in EqNodes(i) /\ Hub(i) \in Real
  BY RawIs
<1>7. Apart(sets)
  <2>1. \A b \in Bars(s) : HubsOf(s, b) \in SUBSET Real /\ HubsOf(s, b) # {}
    BY <1>6 DEF Bars, HubsOf
  <2>2. \A b, c : HubsOf(s, b) \cap HubsOf(s, c) # {} => b = c
    <3> SUFFICES ASSUME NEW b, NEW c, NEW n \in HubsOf(s, b), n \in HubsOf(s, c) PROVE b = c
      OBVIOUS
    <3>1. PICK i \in Noticed(s) : n = Hub(i) /\ ContainerOf(src, i) = b
      BY DEF HubsOf
    <3>2. PICK j \in Noticed(s) : n = Hub(j) /\ ContainerOf(src, j) = c
      BY DEF HubsOf
    <3>3. EqNodes(i) \cap EqNodes(j) # {}
      BY <1>6, <3>1, <3>2
    <3> QED BY <3>1, <3>2, <3>3, NoticedApart
  <2>3. Split(s) \subseteq Bars(s)
    BY DEF Split
  <2> QED BY <2>1, <2>2, <2>3 DEF Apart
<1>8. \A b \in Split(s) : HubsOf(s, b) \in sets
  OBVIOUS
<1>9. \A N \in sets : \E b \in Split(s) : N = HubsOf(s, b)
  OBVIOUS
<1> HIDE DEF sets
<1> QED BY <1>5, <1>7, <1>8, <1>9, SmallestIs

\* Two nodes have one name in the end only if sections of one busbar are at both.
LEMMA NamesMeet ==
    ASSUME src \in Sources, NEW s \in Roots(src), NEW x, NEW y, NewName(s, x) = NewName(s, y), x # y
    PROVE  \E i, j \in Noticed(s) : /\ x \in EqNodes(i) /\ y \in EqNodes(j)
                                    /\ ContainerOf(src, i) = ContainerOf(src, j)
<1> DEFINE u == To(JMap(s), x)  v == To(JMap(s), y)
<1>1. \A i \in Noticed(s) : Hub(i) \in EqNodes(i) /\ To(JMap(s), Hub(i)) = Hub(i)
  BY RawIs, JunctionsAre
<1>2. ASSUME NEW b, NEW z, To(JMap(s), z) \in HubsOf(s, b)
      PROVE  \E i \in Noticed(s) : z \in EqNodes(i) /\ ContainerOf(src, i) = b
  <2>1. PICK i \in Noticed(s) : To(JMap(s), z) = Hub(i) /\ ContainerOf(src, i) = b
    BY <1>2 DEF HubsOf
  <2>2. z = Hub(i) \/ \E k \in Noticed(s) : z \in EqNodes(k) /\ Hub(i) \in EqNodes(k)
    BY <1>1, <2>1, JunctionsAre
  <2> QED BY <1>1, <2>1, <2>2, NoticedApart
<1>3. CASE u = v
  BY <1>3, JunctionsAre
<1>4. CASE u # v
  <2>1. PICK b \in Split(s) : u \in HubsOf(s, b) /\ v \in HubsOf(s, b)
    BY <1>4, BusbarsAre DEF NewName
  <2> QED BY <1>2, <2>1
<1> QED BY <1>3, <1>4

\* The nodes of Real keep to it, and no other node gets a name.
LEMMA NamesAre ==
    ASSUME src \in Sources, NEW s \in Roots(src)
    PROVE  \A n : IF n \in Real THEN NewName(s, n) \in Real ELSE NewName(s, n) = n
BY JunctionsAre, BusbarsAre DEF NewName

\* The edge of an equipment, by the names its Terminals' nodes have in the end.
LEMMA EdgeIs ==
    ASSUME src \in Sources, NEW s \in Roots(src), NEW i \in OwnMembers(s) \ OwnSections(s),
           Len(src.equip[i].nodes) \in {1, 2}
    PROVE  LET q == src.equip[i].nodes
           IN  /\ [id |-> i, t1 |-> NewName(s, q[1]),
                   t2 |-> IF Len(q) = 2 THEN NewName(s, q[2]) ELSE GND] \in Alone(s).edges
               /\ q[1] \in Real /\ (Len(q) = 2 => q[2] \in Real)
               /\ i \in DOMAIN Mid(s) /\ Mid(s)[i].first = To(JMap(s), q[1])
               /\ Mid(s)[i].second = IF Len(q) = 2 THEN To(JMap(s), q[2]) ELSE NoNode
<1> DEFINE q == src.equip[i].nodes
           f == Final(s)
<1>1. q[1] \in Real /\ (Len(q) = 2 => q[2] \in Real)
  <2>1. i \in DOMAIN src.equip
    BY MemberIsIn DEF OwnMembers
  <2>2. ToSet(q) = {q[k] : k \in 1 .. Len(q)} /\ ToSet(q) \in SUBSET Nat /\ \A n \in ToSet(q) : n # GND
    BY <2>1, NodesAre
  <2> HIDE DEF q
  <2>3. \A k \in 1 .. Len(q) : q[k] \in Real
    BY <2>2 DEF Real
  <2>4. Len(q) \in {1, 2}
    BY DEF q
  <2>5. 1 \in 1 .. Len(q) /\ (Len(q) = 2 => 2 \in 1 .. Len(q))
    <3>1. \A m \in {1, 2} : 1 \in 1 .. m /\ (m = 2 => 2 \in 1 .. m)
      OBVIOUS
    <3> QED BY <2>4, <3>1
  <2> QED BY <2>3, <2>5
<1> HIDE DEF q, f
<1>2. /\ i \in DOMAIN Raw(s) /\ Raw(s)[i].first = q[1]
      /\ Raw(s)[i].second = IF Len(q) = 2 THEN q[2] ELSE NoNode
  BY RawIs DEF q
<1>3. To(JMap(s), NoNode) = NoNode /\ NoNode \notin Real /\ To(BMap(s), NoNode) = NoNode
  BY JunctionsAre, BusbarsAre DEF NoNode, Real
<1>4. /\ i \in DOMAIN Mid(s) /\ Mid(s)[i].first = To(JMap(s), q[1])
      /\ Mid(s)[i].second = IF Len(q) = 2 THEN To(JMap(s), q[2]) ELSE NoNode
  BY <1>2, <1>3, MidIs
<1>5. /\ i \in DOMAIN f /\ f[i].first = To(BMap(s), Mid(s)[i].first)
      /\ f[i].second = To(BMap(s), Mid(s)[i].second)
  BY <1>4 DEF f, Final, Renamed, To
<1>6. /\ f[i].first = NewName(s, q[1])
      /\ f[i].second = IF Len(q) = 2 THEN NewName(s, q[2]) ELSE NoNode
      /\ f[i].second = NoNode <=> Len(q) # 2
  BY <1>1, <1>3, <1>4, <1>5, NamesAre DEF NewName
<1>7. Alone(s).edges = BuildEdges(f, OwnSections(s))
  BY AloneIsFinal DEF f
<1>8. [id |-> i, t1 |-> f[i].first, t2 |-> IF f[i].second = NoNode THEN GND ELSE f[i].second] \in Alone(s).edges
  BY <1>5, <1>7 DEF BuildEdges
<1>9. [id |-> i, t1 |-> NewName(s, q[1]), t2 |-> IF Len(q) = 2 THEN NewName(s, q[2]) ELSE GND] \in Alone(s).edges
  BY <1>6, <1>8
<1> QED BY <1>1, <1>4, <1>9 DEF q

\* The union-find over the edges that are to be built.
LEMMA PairsJoin ==
    ASSUME NEW r, Resolves(r), NEW roles
    PROVE  LET N == {GND} \cup UNION {{r[i].first, r[i].second} : i \in DOMAIN r}
               at(i) == IF r[i].second # NoNode THEN <<r[i].first, r[i].second>> ELSE <<r[i].first, GND>>
           IN  Joins(UnionFind(N, Pairs(r, roles)), N,
                     {at(i) : i \in {i \in DOMAIN r : r[i].second # NoNode \/ i \notin roles}})
<1> DEFINE N == {GND} \cup UNION {{r[i].first, r[i].second} : i \in DOMAIN r}
           at(i) == IF r[i].second # NoNode THEN <<r[i].first, r[i].second>> ELSE <<r[i].first, GND>>
           I == {i \in DOMAIN r : r[i].second # NoNode \/ i \notin roles}
           s == SetToSeq(I)
           pairs == [k \in 1 .. Len(s) |-> at(s[k])]
<1>1. \A i \in I : at(i) \in N \X N
  OBVIOUS
<1>2. IsFiniteSet(I)
  <2>1. I \in SUBSET DOMAIN r /\ IsFiniteSet(DOMAIN r)
    BY DEF Resolves
  <2> QED BY <2>1, FS_Subset
<1>3. Pairs(r, roles) = pairs
  BY DEF Pairs
<1> HIDE DEF at, N, I
<1>4. Len(s) \in Nat /\ DOMAIN s = 1 .. Len(s) /\ s \in Seq(I) /\ ToSet(s) = I
  BY <1>2, SetToSeqLists
<1> HIDE DEF s
<1>5. (\A k \in 1 .. Len(s) : s[k] \in I) /\ I = {s[k] : k \in 1 .. Len(s)}
  BY <1>4 DEF ToSet
<1>6. pairs \in Seq(N \X N) /\ Len(pairs) = Len(s)
  BY <1>1, <1>4, <1>5
<1>7. {pairs[k] : k \in 1 .. Len(pairs)} = {at(i) : i \in I}
  <2>1. {pairs[k] : k \in 1 .. Len(pairs)} = {at(s[k]) : k \in 1 .. Len(s)}
    BY <1>6
  <2> QED BY <1>5, <2>1
<1> HIDE DEF pairs
<1>8. Joins(UnionFind(N, Pairs(r, roles)), N, {at(i) : i \in I})
  BY <1>3, <1>6, <1>7, UnionFindJoins
<1> QED BY <1>8 DEF N, at, I

\* A set with at most one element has no two.
LEMMA AtMostOne ==
    ASSUME NEW S, IsFiniteSet(S), ~(Cardinality(S) > 1), NEW x \in S, NEW y \in S
    PROVE  x = y
<1> SUFFICES ASSUME x # y PROVE FALSE
  OBVIOUS
<1> DEFINE T == {x}
<1>1. IsFiniteSet(T) /\ Cardinality(T) = 1 /\ y \notin T /\ T \cup {y} \in SUBSET S
  BY FS_Singleton
<1> HIDE DEF T
<1>2. Cardinality(T \cup {y}) = 2
  <2>1. Cardinality(T \cup {y}) = IF y \in T THEN Cardinality(T) ELSE Cardinality(T) + 1
    BY <1>1, FS_AddElement
  <2> QED BY <1>1, <2>1
<1>3. Cardinality(T \cup {y}) <= Cardinality(S) /\ Cardinality(S) \in Nat
  BY <1>1, FS_Subset, FS_CardinalityType
<1> QED BY <1>2, <1>3

\* Where nothing hangs on the ground node, no edge of the station parts two nodes that
\* carry sections of one busbar, by their names in the end.
Wires(s) == {e \in Alone(s).edges : GND \notin {e.t1, e.t2}}
LEMMA BarHolds ==
    ASSUME src \in Sources, NEW s \in Roots(src),
           \A i \in OwnMembers(s) \ OwnSections(s) : Len(src.equip[i].nodes) # 1,
           NEW i \in Noticed(s), NEW j \in Noticed(s), ContainerOf(src, i) = ContainerOf(src, j),
           NEW x \in EqNodes(i), NEW y \in EqNodes(j),
           NEW S, Undivided(S, EndPairs(Wires(s))), NewName(s, x) \in S
    PROVE  NewName(s, y) \in S
<1> DEFINE u == Hub(i)  v == Hub(j)  b == ContainerOf(src, i)
           T == {n \in Start(s) : To(BMap(s), n) \in S}
           r == Mid(s)
           at(k) == IF r[k].second # NoNode THEN <<r[k].first, r[k].second>> ELSE <<r[k].first, GND>>
           I == {k \in DOMAIN r : r[k].second # NoNode \/ k \notin OwnSections(s)}
<1>1. NewName(s, x) = To(BMap(s), u) /\ NewName(s, y) = To(BMap(s), v)
  BY JunctionsAre DEF NewName
<1>2. u \in HubsOf(s, b) /\ v \in HubsOf(s, b) /\ b \in Bars(s)
  BY DEF HubsOf, Bars
<1>3. CASE b \in Split(s)
  BY <1>1, <1>2, <1>3, BusbarsAre
<1>4. CASE b \notin Split(s)
  <2>1. Joins(Found(s), Start(s), {at(k) : k \in I})
    BY MidIs, PairsJoin DEF Found, Start
  <2>2. u \in Start(s) /\ v \in Start(s)
    BY MidIs DEF Start, Noticed
  <2>3. Found(s)[u] = Found(s)[v]
    <3> DEFINE roots == {Found(s)[n] : n \in HubsOf(s, b)}
    <3>1. IsFiniteSet(roots)
      <4> DEFINE J == {k \in Noticed(s) : ContainerOf(src, k) = b}
                 f == [k \in J |-> Found(s)[Hub(k)]]
      <4>1. IsFiniteSet(J)
        <5>1. J \in SUBSET DOMAIN Mid(s) /\ IsFiniteSet(DOMAIN Mid(s))
          BY MidIs DEF Resolves, Noticed
        <5> QED BY <5>1, FS_Subset
      <4>2. roots = {f[k] : k \in DOMAIN f} /\ DOMAIN f = J
        BY DEF HubsOf
      <4> HIDE DEF f, J
      <4> QED BY <4>1, <4>2, ImageFinite
    <3>2. ~(Cardinality(roots) > 1)
      BY <1>2, <1>4 DEF Split
    <3>3. Found(s)[u] \in roots /\ Found(s)[v] \in roots
      BY <1>2
    <3> HIDE DEF roots
    <3> QED BY <3>1, <3>2, <3>3, AtMostOne
  <2>4. Undivided(T, {at(k) : k \in I})
    <3> SUFFICES ASSUME NEW k \in I PROVE at(k)[1] \in T <=> at(k)[2] \in T
      BY DEF Undivided
    <3> DEFINE q == src.equip[k].nodes
    <3>1. k \in OwnMembers(s) /\ k \notin OwnSections(s) /\ Len(q) \in {1, 2}
      <4>1. k \in DOMAIN Raw(s) /\ r[k].second = To(JMap(s), Raw(s)[k].second)
        BY MidIs
      <4>2. k \notin OwnSections(s)
        <5> SUFFICES ASSUME k \in OwnSections(s) PROVE FALSE
          OBVIOUS
        <5>1. Raw(s)[k].second = NoNode
          BY <4>1, RawIs DEF Noticed
        <5>2. r[k].second = NoNode
          BY <4>1, <5>1, JunctionsAre DEF NoNode, Real
        <5> QED BY <5>2
      <4> QED BY <4>1, <4>2, RawIs
    <3>2. Len(q) = 2
      BY <3>1
    <3>3. /\ [id |-> k, t1 |-> NewName(s, q[1]), t2 |-> NewName(s, q[2])] \in Alone(s).edges
          /\ q[1] \in Real /\ q[2] \in Real
          /\ r[k].first = To(JMap(s), q[1]) /\ r[k].second = To(JMap(s), q[2])
      BY <3>1, <3>2, EdgeIs
    <3> HIDE DEF q, r
    <3>4. NewName(s, q[1]) \in Real /\ NewName(s, q[2]) \in Real /\ r[k].second \in Real
      BY <3>3, NamesAre, JunctionsAre
    <3>5. <<NewName(s, q[1]), NewName(s, q[2])>> \in EndPairs(Wires(s))
      <4>1. GND \notin Real
        BY DEF Real
      <4> QED BY <3>3, <3>4, <4>1 DEF Wires, EndPairs
    <3>6. NewName(s, q[1]) \in S <=> NewName(s, q[2]) \in S
      BY <3>5 DEF Undivided
    <3>7. at(k) = <<r[k].first, r[k].second>>
      BY <3>4 DEF NoNode, Real
    <3>8. r[k].first \in Start(s) /\ r[k].second \in Start(s)
      BY DEF Start, r
    <3> QED BY <3>3, <3>6, <3>7, <3>8 DEF NewName
  <2>5. u \in T <=> v \in T
    <3> HIDE DEF at, I, r
    <3>1. T \in SUBSET Start(s)
      OBVIOUS
    <3> HIDE DEF T
    <3>2. (u \in T <=> Found(s)[u] \in T) /\ (v \in T <=> Found(s)[v] \in T)
      BY <2>1, <2>2, <2>4, <3>1 DEF Joins
    <3> QED BY <2>3, <3>2
  <2> QED BY <1>1, <2>2, <2>5
<1> QED BY <1>3, <1>4

\* What the properties see of a station that is done.
LEMMA TermsAre ==
    ASSUME Placed, NEW s \in Done
    PROVE  /\ src \in Sources /\ s \in Roots(src)
           /\ OwnMembers(s) \in SUBSET DOMAIN src.equip
           /\ EquipmentOf(placed, s) = OwnMembers(s)
           /\ Roles(placed) = {i \in Members(src) : StationOf(src, i) \in Done /\ Section(src, i)}
           /\ OwnMembers(s) \ Roles(placed) = OwnMembers(s) \ OwnSections(s)
           /\ \A i \in Roles(placed) : placed.of[i] = ContainerOf(src, i)
           /\ Terms(s) = {t \in (OwnMembers(s) \ OwnSections(s)) \X {1, 2} :
                             Len(src.equip[t[1]].nodes) \in {1, 2} /\ t[2] <= Len(src.equip[t[1]].nodes)}
<1>1. src \in Sources /\ Done \in SUBSET Roots(src) /\ s \in Roots(src)
  BY DEF Placed, Done, Stations, Roots
<1>2. OwnMembers(s) \in SUBSET DOMAIN src.equip
  BY <1>1, MemberIsIn DEF OwnMembers
<1>3. /\ EquipmentOf(placed, s) = OwnMembers(s)
      /\ Roles(placed) = {i \in Members(src) : StationOf(src, i) \in Done /\ Section(src, i)}
  BY <1>1, EquipmentIs DEF Placed, OwnMembers
<1>4. OwnMembers(s) \ Roles(placed) = OwnMembers(s) \ OwnSections(s)
  BY <1>3 DEF OwnMembers, OwnSections
<1>5. \A i \in Roles(placed) : placed.of[i] = ContainerOf(src, i)
  BY <1>3 DEF Placed, BatchOf
<1>6. Terms(s) = {t \in (OwnMembers(s) \ OwnSections(s)) \X {1, 2} :
                     Len(src.equip[t[1]].nodes) \in {1, 2} /\ t[2] <= Len(src.equip[t[1]].nodes)}
  BY <1>3, <1>4 DEF Terms, TermsOf, Classified, NodesOf
<1> QED BY <1>1, <1>2, <1>3, <1>4, <1>5, <1>6

\* A Terminal is at its node, by the name the node has in the end.
LEMMA TerminalIsAt ==
    ASSUME Placed, Drawn, NEW s \in Done, NEW t \in Terms(s)
    PROVE  NodeOf(t[1], t[2]) = NewName(s, RawNode(t))
<1> DEFINE i == t[1]  k == t[2]  q == src.equip[i].nodes
           c == CHOOSE f \in edges : f.id = i
           e == [id |-> i, t1 |-> NewName(s, q[1]), t2 |-> IF Len(q) = 2 THEN NewName(s, q[2]) ELSE GND]
<1>1. src \in Sources /\ s \in Roots(src) /\ i \in OwnMembers(s) \ OwnSections(s)
      /\ Len(q) \in {1, 2} /\ k \in {1, 2} /\ k <= Len(q)
  BY TermsAre
<1>2. e \in Alone(s).edges
  BY <1>1, EdgeIs
<1>3. RawNode(t) = q[k]
  BY DEF RawNode, NodesOf
<1>8. NodeOf(i, k) = IF k = 1 THEN c.t1 ELSE c.t2
  BY DEF NodeOf
<1> HIDE DEF q, i, k
<1>4. e \in edges /\ e.id = i
  BY <1>2 DEF Drawn
<1>5. k = 2 => Len(q) = 2
  <2>1. ~(2 <= 1)
    OBVIOUS
  <2> QED BY <1>1, <2>1
<1>6. e.t1 = NewName(s, q[1]) /\ (Len(q) = 2 => e.t2 = NewName(s, q[2]))
  OBVIOUS
<1> HIDE DEF e
<1>7. c = e
  BY <1>4, RowsFit
<1> HIDE DEF c
<1> QED BY <1>1, <1>3, <1>5, <1>6, <1>7, <1>8 DEF i, k

\* The busbars at a node are those of the sections there; a section at a node of a
\* station, or of a busbar of the station, that has a Terminal is noticed in it.
LEMMA BarsAtNode ==
    ASSUME Placed, NEW s \in Done, NEW n, NEW b \in BarsOf(s), b \in BarsAt(n)
    PROVE  \E i \in Noticed(s) : n \in EqNodes(i) /\ ContainerOf(src, i) = b
<1>1. /\ src \in Sources /\ s \in Roots(src) /\ EquipmentOf(placed, s) = OwnMembers(s)
      /\ Roles(placed) = {i \in Members(src) : StationOf(src, i) \in Done /\ Section(src, i)}
      /\ \A i \in Roles(placed) : placed.of[i] = ContainerOf(src, i)
  BY TermsAre
<1>2. PICK i \in Roles(placed) : placed.of[i] = b /\ n \in EqNodes(i)
  BY DEF BarsAt, EqNodes, NodesOf
<1>3. PICK j \in Roles(placed) : placed.of[j] = b /\ j \in OwnMembers(s)
  BY <1>1 DEF BarsOf
<1>4. ContainerOf(src, i) = b /\ ContainerOf(src, j) = b /\ i \in Members(src) /\ j \in Members(src)
  BY <1>1, <1>2, <1>3
<1>5. StationOf(src, i) = StationOf(src, j)
  <2>1. PICK k \in Containers(src) : k.id = b /\ Owner(k) = StationOf(src, i)
    BY <1>1, <1>4, MemberIsIn
  <2>2. PICK l \in Containers(src) : l.id = b /\ Owner(l) = StationOf(src, j)
    BY <1>1, <1>4, MemberIsIn
  <2> QED BY <1>1, <2>1, <2>2, OneContainer
<1>6. i \in OwnSections(s)
  BY <1>1, <1>2, <1>3, <1>4, <1>5 DEF OwnSections, OwnMembers
<1>7. i \in Noticed(s)
  BY <1>1, <1>2, <1>6, RawIs DEF Noticed
<1> QED BY <1>2, <1>4, <1>7

\* Terminals meet, or part, by what the busbars at their nodes are.
LEMMA OnlyBarsMerge ==
    ASSUME Placed, Drawn, NEW s \in Done
    PROVE  MergesOnlyBars(s)
<1> SUFFICES ASSUME NEW t \in Terms(s), NEW u \in Terms(s)
             PROVE  /\ RawNode(t) = RawNode(u) => NodeOf(t[1], t[2]) = NodeOf(u[1], u[2])
                    /\ NodeOf(t[1], t[2]) = NodeOf(u[1], u[2]) =>
                          RawNode(t) = RawNode(u) \/ BarsAt(RawNode(t)) \cap BarsAt(RawNode(u)) # {}
  BY DEF MergesOnlyBars
<1>1. /\ NodeOf(t[1], t[2]) = NewName(s, RawNode(t))
      /\ NodeOf(u[1], u[2]) = NewName(s, RawNode(u))
  BY TerminalIsAt
<1>2. ASSUME NodeOf(t[1], t[2]) = NodeOf(u[1], u[2]), RawNode(t) # RawNode(u)
      PROVE  BarsAt(RawNode(t)) \cap BarsAt(RawNode(u)) # {}
  <2>1. /\ src \in Sources /\ s \in Roots(src)
        /\ Roles(placed) = {i \in Members(src) : StationOf(src, i) \in Done /\ Section(src, i)}
        /\ \A i \in Roles(placed) : placed.of[i] = ContainerOf(src, i)
    BY TermsAre
  <2> DEFINE x == RawNode(t)  y == RawNode(u)
  <2>2. NewName(s, x) = NewName(s, y) /\ x # y
    BY <1>1, <1>2
  <2> HIDE DEF x, y
  <2>3. \E i, j \in Noticed(s) : x \in EqNodes(i) /\ y \in EqNodes(j) /\ ContainerOf(src, i) = ContainerOf(src, j)
    BY <2>1, <2>2, NamesMeet
  <2>4. PICK i \in Noticed(s), j \in Noticed(s) :
           x \in EqNodes(i) /\ y \in EqNodes(j) /\ ContainerOf(src, i) = ContainerOf(src, j)
    BY <2>3
  <2>5. i \in Roles(placed) /\ j \in Roles(placed)
    BY <2>1 DEF Noticed, OwnSections, OwnMembers
  <2>6. ContainerOf(src, i) \in BarsAt(x) /\ ContainerOf(src, j) \in BarsAt(y)
    BY <2>1, <2>4, <2>5 DEF BarsAt, EqNodes, NodesOf
  <2> QED BY <2>4, <2>6 DEF x, y
<1> QED BY <1>1, <1>2

\* What touches one busbar is connected, in a station with nothing on the ground node.
LEMMA BarsConnect ==
    ASSUME Built, Placed, Drawn, Grouped, NEW s \in Done, ~Grounded(s), NEW b \in BarsOf(s)
    PROVE  BarConnected(s, b)
<1> DEFINE E == {e \in edges : GND \notin {e.t1, e.t2}}  P == EndPairs(E)
<1> SUFFICES ASSUME NEW t \in OnBar(s, b), NEW u \in OnBar(s, b)
             PROVE  Connected(P, NodeOf(t[1], t[2]), NodeOf(u[1], u[2]))
  BY DEF BarConnected
<1>1. /\ t \in Terms(s) /\ b \in BarsAt(RawNode(t))
      /\ u \in Terms(s) /\ b \in BarsAt(RawNode(u))
  BY DEF OnBar
<1>2. PICK i \in Noticed(s) : RawNode(t) \in EqNodes(i) /\ ContainerOf(src, i) = b
  BY <1>1, BarsAtNode
<1>3. PICK j \in Noticed(s) : RawNode(u) \in EqNodes(j) /\ ContainerOf(src, j) = b
  BY <1>1, BarsAtNode
<1>4. /\ NodeOf(t[1], t[2]) = NewName(s, RawNode(t))
      /\ NodeOf(u[1], u[2]) = NewName(s, RawNode(u))
  BY <1>1, TerminalIsAt
<1>5. src \in Sources /\ s \in Roots(src)
  BY TermsAre
<1>6. \A k \in OwnMembers(s) \ OwnSections(s) : Len(src.equip[k].nodes) # 1
  <2> SUFFICES ASSUME NEW k \in OwnMembers(s) \ OwnSections(s), Len(src.equip[k].nodes) = 1 PROVE FALSE
    OBVIOUS
  <2>1. <<k, 1>> \in Terms(s)
    BY TermsAre
  <2> QED BY <2>1 DEF Grounded, NodesOf
<1>7. IsFiniteSet(P)
  <2> DEFINE f == [e \in E |-> <<e.t1, e.t2>>]
  <2>1. P = {f[e] : e \in DOMAIN f} /\ DOMAIN f = E
    BY DEF EndPairs
  <2>2. IsFiniteSet(E)
    BY RowsAre, FS_Subset
  <2> HIDE DEF f, E
  <2> QED BY <2>1, <2>2, ImageFinite
<1>8. EndPairs(Wires(s)) \subseteq P
  BY DEF Wires, EndPairs, Drawn
<1> HIDE DEF P
<1> DEFINE R == Reach(P, NewName(s, RawNode(t)))
<1>9. NewName(s, RawNode(t)) \in R /\ Undivided(R, P)
  BY <1>7, ReachIs
<1>10. Undivided(R, EndPairs(Wires(s)))
  BY <1>8, <1>9 DEF Undivided
<1> HIDE DEF R
<1>11. NewName(s, RawNode(u)) \in R
  BY <1>2, <1>3, <1>5, <1>6, <1>9, <1>10, BarHolds
<1> QED BY <1>4, <1>11 DEF Connected, R

\* The two merges unify the sections of a busbar and nothing else, and a busbar whose
\* station has nothing on the ground node is one component of the built edges.
THEOREM BarsAreUnified == Spec => []BarsUnified
<1>1. Built /\ Placed /\ Drawn /\ Grouped => BarsUnified
  <2> SUFFICES ASSUME Built, Placed, Drawn, Grouped, NEW s \in Stations \ todo
               PROVE  MergesOnlyBars(s) /\ (~Grounded(s) => \A b \in BarsOf(s) : BarConnected(s, b))
    BY DEF BarsUnified
  <2>1. s \in Done
    BY DEF Done
  <2> QED BY <2>1, OnlyBarsMerge, BarsConnect
<1> QED BY InitBuilt, StepBuilt, InitPlaced, StepPlaced, InitDrawn, StepDrawn, InitGrouped, StepGrouped, <1>1, PTL DEF Spec
=============================================================================
