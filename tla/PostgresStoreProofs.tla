------------------------- MODULE PostgresStoreProofs -------------------------
(* Proofs about PostgresStore: the locks on node rows cover the ids of a       *)
(* PersistBatch, and readers see whole batches, for any workers, batches,      *)
(* views, failures, kills, prunes and runs.                                    *)
EXTENDS PostgresStore, FiniteSetTheorems, FunctionTheorems, SequenceTheorems, TLAPS

-----------------------------------------------------------------------------
(* What a worker still has to do and has done, and in which order.          *)

TableNames == {"containers", "equipment", "edges", "attributes", "groups"}
EdgeEnds(v) == EdgeIDs(v) \cup TerminalsOf(v)
Names(v) == EdgeEnds(v) \cup KeysOf(v) \cup OwnersOf(v)
Statements(v) == {Do("resolve", x) : x \in Names(v)} \cup {Do("node", n) : n \in ToSet(v.nodes)}
                    \cup {Do("flag", n) : n \in v.shared} \cup {Do("write", t) : t \in TableNames}

\* What has been done before statement s: names are resolved before rows refer to them,
\* and PersistBatch has locked a node before it resolves its name.
Needs(m, v, s) ==
    (IF s = Do("write", "edges") THEN {Do("resolve", x) : x \in EdgeEnds(v)} ELSE {})
    \cup (IF s = Do("write", "attributes") THEN {Do("resolve", x) : x \in KeysOf(v) \cup OwnersOf(v)}
          ELSE {})
    \cup (IF m = "batch" /\ s.op = "resolve" /\ s.name \in TerminalsOf(v)
          THEN {Do("node", s.name)} ELSE {})

InOrder(m, t, D, v) ==
    \A i \in 1 .. Len(t) : \A a \in Needs(m, v, t[i]) : a \in D \/ \E j \in 1 .. i - 1 : t[j] = a

DoneBy(x) == x.locks \cup {Do("resolve", n) : n \in DOMAIN x.ids} \cup {Do("write", t) : t \in x.wrote}

IsTx(x) == /\ x \in [own : {x.own}, ids : {x.ids}, locks : {x.locks}, wrote : {x.wrote}]
           /\ \A l \in x.locks : l.op \in {"node", "flag"}

Orderly(m, v, q, x) ==
    /\ IsTx(x) /\ DoneBy(x) \subseteq Statements(v)
    /\ q \in Seq(Seq(Statements(v)))
    /\ q = <<>> => x = NoTx
    /\ q # <<>> => InOrder(m, q[1], DoneBy(x), v)
    /\ \A k \in 2 .. Len(q) : InOrder(m, q[k], {}, v)
    /\ \A s \in DoneBy(x) : Needs(m, v, s) \subseteq DoneBy(x)

-----------------------------------------------------------------------------
(* The inductive invariant.                                                 *)

IsDB(d) ==
    d \in [dict : {d.dict}, container : {d.container}, equipment : {d.equipment}, node : {d.node},
           edge : {d.edge}, endpoint : {d.endpoint}, attr : {d.attr}, group : {d.group},
           flag : {d.flag}]

TablesKnown ==
    /\ IsDB(db) /\ db.container \subseteq Batches /\ db.node \subseteq AllNodes
    /\ db.flag \subseteq UNION {v.shared : v \in AllViews} /\ DOMAIN db.edge \subseteq AllEdges
    /\ \A x \in DOMAIN db.dict : db.dict[x] \in 1 .. run

Process ==
    /\ phase \in {"idle", "running", "done", "failed"} /\ run \in 0 .. MaxRuns
    /\ phase # "idle" => run # 0
    /\ mode \in Modes /\ finished \subseteq taken /\ taken \subseteq Batches
    /\ job \in [Workers -> Batches \cup {"none", "gone"}]
    /\ DOMAIN left = Workers /\ DOMAIN tx = Workers
    /\ phase # "running" => cache = NoRow /\ \A w \in Workers : job[w] = "none"
    /\ \A w \in Workers : Working(w) => job[w] \in taken \ finished
    /\ \A w, u \in Workers : w # u /\ Working(w) => job[w] # job[u]
    /\ \A w \in Workers : IF Working(w) THEN Orderly(mode, View(job[w]), left[w], tx[w])
                          ELSE left[w] = <<>> /\ tx[w] = NoTx

\* A cached id is that of a row, or of a row that an open transaction inserts, or of one
\* that was rolled back.
Ids ==
    /\ phase = "running" => \A x \in DOMAIN db.dict : x \in DOMAIN cache /\ cache[x] = db.dict[x]
    /\ \A w \in Workers : \A x \in DOMAIN tx[w].own :
          /\ x \notin DOMAIN db.dict /\ x \in DOMAIN tx[w].ids /\ tx[w].own[x] = run
          /\ cache[x] = run
    /\ \A w \in Workers : \A x \in DOMAIN tx[w].ids : x \in DOMAIN cache /\ tx[w].ids[x] = cache[x]
    /\ \A w, u \in Workers : w # u => DOMAIN tx[w].own \cap DOMAIN tx[u].own = {}
    /\ ~lost => \A x \in DOMAIN cache :
                   x \in DOMAIN db.dict \/ \E u \in Workers : x \in DOMAIN tx[u].own

Locks == \A w, u \in Workers : w # u => tx[w].locks \cap tx[u].locks = {}

\* What a transaction has written refers to ids that it sees.
Referred == \A w \in Workers : Working(w) =>
               \A t \in tx[w].wrote : \A x \in ReferredBy(t, View(job[w])) : Visible(w, x)

Inv == TablesKnown /\ Process /\ Ids /\ Locks /\ Referred

-----------------------------------------------------------------------------
(* Sequences of statements.                                                 *)

\* A member of a sequence is at one of its places.
LEMMA InSeq ==
    ASSUME NEW S, NEW q \in Seq(S)
    PROVE  /\ Len(q) \in Nat /\ DOMAIN q = 1 .. Len(q)
           /\ ToSet(q) \subseteq S /\ \A y \in ToSet(q) : \E i \in 1 .. Len(q) : q[i] = y
           /\ \A i \in 1 .. Len(q) : q[i] \in ToSet(q)
BY DEF ToSet

\* The first of a sequence, and the others.
LEMMA HeadTail ==
    ASSUME NEW S, NEW q \in Seq(S), q # <<>>
    PROVE  /\ Head(q) = q[1] /\ q[1] \in S /\ Tail(q) \in Seq(S) /\ Len(q) \in Nat
           /\ Len(q) >= 1 /\ Len(Tail(q)) = Len(q) - 1
           /\ \A i \in 1 .. Len(q) - 1 : Tail(q)[i] = q[i + 1]
           /\ Tail(q) = <<>> <=> Len(q) = 1
<1>1. Len(q) \in Nat /\ DOMAIN q = 1 .. Len(q) /\ Head(q) = q[1]
  OBVIOUS
<1>2. Len(q) # 0
  BY EmptySeq
<1>3. Len(q) >= 1 /\ q[1] \in S
  BY <1>1, <1>2
<1>4. /\ Tail(q) \in Seq(S) /\ Len(Tail(q)) = Len(q) - 1
      /\ \A i \in 1 .. Len(Tail(q)) : Tail(q)[i] = q[i + 1]
  BY HeadTailProperties
<1>5. Tail(q) = <<>> <=> Len(q) = 1
  BY <1>1, <1>4, EmptySeq
<1> QED BY <1>1, <1>3, <1>4, <1>5

\* What a concatenation holds, and where.
LEMMA Concat ==
    ASSUME NEW S, NEW s \in Seq(S), NEW t \in Seq(S)
    PROVE  /\ s \o t \in Seq(S) /\ Len(s \o t) = Len(s) + Len(t)
           /\ Len(s) \in Nat /\ Len(t) \in Nat
           /\ \A i \in 1 .. Len(s) : (s \o t)[i] = s[i]
           /\ \A i \in 1 .. Len(t) : (s \o t)[Len(s) + i] = t[i]
           /\ ToSet(s \o t) = ToSet(s) \cup ToSet(t)
<1>1. /\ s \o t \in Seq(S) /\ Len(s \o t) = Len(s) + Len(t) /\ Len(s) \in Nat /\ Len(t) \in Nat
      /\ \A i \in 1 .. Len(s) + Len(t) :
            (s \o t)[i] = IF i <= Len(s) THEN s[i] ELSE t[i - Len(s)]
  BY ConcatProperties
<1>2. \A i \in 1 .. Len(s) : (s \o t)[i] = s[i]
  BY <1>1
<1>3. ASSUME NEW i \in 1 .. Len(t) PROVE (s \o t)[Len(s) + i] = t[i]
  <2>1. Len(s) + i \in 1 .. Len(s) + Len(t) /\ ~(Len(s) + i <= Len(s)) /\ Len(s) + i - Len(s) = i
    BY <1>1
  <2> QED BY <1>1, <2>1
<1>4. ToSet(s \o t) \subseteq ToSet(s) \cup ToSet(t)
  <2> SUFFICES ASSUME NEW y \in ToSet(s \o t) PROVE y \in ToSet(s) \cup ToSet(t)
    OBVIOUS
  <2>1. PICK i \in 1 .. Len(s) + Len(t) : (s \o t)[i] = y
    BY <1>1, InSeq
  <2>2. CASE i <= Len(s)
    BY <1>1, <2>1, <2>2, InSeq
  <2>3. CASE ~(i <= Len(s))
    <3>1. i - Len(s) \in 1 .. Len(t) /\ t[i - Len(s)] = y
      BY <1>1, <2>1, <2>3
    <3> QED BY <3>1, InSeq
  <2> QED BY <2>2, <2>3
<1>5. ToSet(s) \subseteq ToSet(s \o t)
  <2> SUFFICES ASSUME NEW y \in ToSet(s) PROVE y \in ToSet(s \o t)
    OBVIOUS
  <2>1. PICK i \in 1 .. Len(s) : s[i] = y
    BY InSeq
  <2>2. i \in 1 .. Len(s \o t) /\ (s \o t)[i] = y
    BY <1>1, <1>2, <2>1
  <2> QED BY <1>1, <2>2, InSeq
<1>6. ToSet(t) \subseteq ToSet(s \o t)
  <2> SUFFICES ASSUME NEW y \in ToSet(t) PROVE y \in ToSet(s \o t)
    OBVIOUS
  <2>1. PICK i \in 1 .. Len(t) : t[i] = y
    BY InSeq
  <2>2. Len(s) + i \in 1 .. Len(s \o t) /\ (s \o t)[Len(s) + i] = y
    BY <1>1, <1>3, <2>1
  <2> QED BY <1>1, <2>2, InSeq
<1> QED BY <1>1, <1>2, <1>3, <1>4, <1>5, <1>6

\* A sequence of one.
LEMMA Single ==
    ASSUME NEW S, NEW y \in S
    PROVE  <<y>> \in Seq(S) /\ Len(<<y>>) = 1 /\ <<y>>[1] = y /\ ToSet(<<y>>) = {y}
BY DEF ToSet

\* A sequence of none.
LEMMA Nothing == ASSUME NEW S PROVE <<>> \in Seq(S) /\ Len(<<>>) = 0 /\ ToSet(<<>>) = {}
BY DEF ToSet

\* A sequence of one before another.
LEMMA ConcatOne ==
    ASSUME NEW T, NEW a \in Seq(T), Len(a) = 1, NEW b \in Seq(T)
    PROVE  /\ a \o b \in Seq(T) /\ Len(a \o b) = Len(b) + 1 /\ Len(b) \in Nat
           /\ (a \o b)[1] = a[1] /\ a \o b # <<>> /\ Head(a \o b) = a[1]
           /\ \A i \in 1 .. Len(b) : (a \o b)[i + 1] = b[i]
<1>1. /\ a \o b \in Seq(T) /\ Len(a \o b) = Len(a) + Len(b) /\ Len(b) \in Nat
      /\ \A i \in 1 .. Len(a) : (a \o b)[i] = a[i]
      /\ \A i \in 1 .. Len(b) : (a \o b)[Len(a) + i] = b[i]
  BY Concat
<1> DEFINE r == a \o b
<1>2. /\ r \in Seq(T) /\ Len(r) = Len(b) + 1 /\ Len(b) \in Nat /\ r[1] = a[1]
      /\ \A i \in 1 .. Len(b) : r[i + 1] = b[i]
  BY <1>1
<1> HIDE DEF r
<1>3. r # <<>> /\ Head(r) = a[1]
  <2>1. r # <<>>
    BY <1>2, EmptySeq
  <2> QED BY <1>2, <2>1, HeadTail
<1> QED BY <1>2, <1>3 DEF r

\* An element before a sequence.
LEMMA Prepend ==
    ASSUME NEW T, NEW y \in T, NEW b \in Seq(T)
    PROVE  /\ <<y>> \o b \in Seq(T) /\ Len(<<y>> \o b) = Len(b) + 1 /\ Len(b) \in Nat
           /\ (<<y>> \o b)[1] = y /\ <<y>> \o b # <<>> /\ Head(<<y>> \o b) = y
           /\ \A i \in 1 .. Len(b) : (<<y>> \o b)[i + 1] = b[i]
<1>1. <<y>> \in Seq(T) /\ Len(<<y>>) = 1 /\ <<y>>[1] = y
  OBVIOUS
<1> QED BY <1>1, ConcatOne

\* A worker's next statement goes off the front of its first transaction.
LEMMA StepSeq ==
    ASSUME NEW S, NEW q \in Seq(Seq(S)), q # <<>>, Head(q) # <<>>
    PROVE  LET r == <<Tail(Head(q))>> \o Tail(q)
           IN  /\ r \in Seq(Seq(S)) /\ r # <<>> /\ Len(r) = Len(q) /\ Len(q) \in Nat /\ Len(q) >= 1
               /\ r[1] = Tail(q[1]) /\ Head(q) = q[1] /\ Head(r) = r[1] /\ q[1] \in Seq(S)
               /\ \A k \in 2 .. Len(q) : r[k] = q[k]
<1> DEFINE T == Seq(S)  y == Tail(Head(q))  b == Tail(q)  r == <<y>> \o b
<1>1. /\ Head(q) = q[1] /\ q[1] \in Seq(S) /\ b \in Seq(T) /\ Len(q) \in Nat
      /\ Len(q) >= 1 /\ Len(b) = Len(q) - 1 /\ \A i \in 1 .. Len(q) - 1 : b[i] = q[i + 1]
  BY HeadTail
<1>2. y \in T /\ y = Tail(q[1])
  BY <1>1, HeadTail
<1> HIDE DEF y, b, T
<1>3. /\ r \in Seq(T) /\ Len(r) = Len(b) + 1
      /\ r[1] = y /\ r # <<>> /\ Head(r) = y
      /\ \A i \in 1 .. Len(b) : r[i + 1] = b[i]
  BY <1>1, <1>2, Prepend
<1> HIDE DEF r
<1>4. ASSUME NEW k \in 2 .. Len(q) PROVE r[k] = q[k]
  <2>1. k - 1 \in 1 .. Len(b) /\ (k - 1) + 1 = k
    BY <1>1
  <2>2. r[(k - 1) + 1] = b[k - 1] /\ b[k - 1] = q[(k - 1) + 1]
    BY <1>1, <1>3, <2>1
  <2> QED BY <2>1, <2>2
<1> QED BY <1>1, <1>2, <1>3, <1>4 DEF r, y, b, T

\* What is left of an orderly transaction is orderly, once its first statement is done.
LEMMA TailInOrder ==
    ASSUME NEW S, NEW t \in Seq(S), t # <<>>, NEW m, NEW v, NEW D, InOrder(m, t, D, v),
           NEW E, D \subseteq E, t[1] \in E \/ \A s : t[1] \notin Needs(m, v, s)
    PROVE  InOrder(m, Tail(t), E, v) /\ Needs(m, v, t[1]) \subseteq D
<1>1. /\ Len(t) \in Nat /\ Len(t) >= 1 /\ Len(Tail(t)) = Len(t) - 1
      /\ \A i \in 1 .. Len(t) - 1 : Tail(t)[i] = t[i + 1]
  BY HeadTail
<1>2. \A i \in 1 .. Len(t) : \A a \in Needs(m, v, t[i]) : a \in D \/ \E j \in 1 .. i - 1 : t[j] = a
  BY DEF InOrder
<1>3. Needs(m, v, t[1]) \subseteq D
  BY <1>1, <1>2
<1>4. ASSUME NEW i \in 1 .. Len(t) - 1, NEW a \in Needs(m, v, Tail(t)[i])
      PROVE  a \in E \/ \E j \in 1 .. i - 1 : Tail(t)[j] = a
  <2>1. i + 1 \in 1 .. Len(t) /\ a \in Needs(m, v, t[i + 1]) /\ (i + 1) - 1 = i
    BY <1>1, <1>4
  <2>2. a \in D \/ \E j \in 1 .. i : t[j] = a
    BY <1>2, <2>1
  <2>3. ASSUME NEW j \in 1 .. i, t[j] = a, a \notin E
        PROVE  \E k \in 1 .. i - 1 : Tail(t)[k] = a
    <3>1. j # 1
      BY <2>1, <2>3
    <3>2. j - 1 \in 1 .. i - 1 /\ j - 1 \in 1 .. Len(t) - 1 /\ (j - 1) + 1 = j
      BY <3>1, <1>1
    <3> QED BY <3>2, <1>1, <2>3
  <2> QED BY <2>2, <2>3
<1> QED BY <1>1, <1>3, <1>4 DEF InOrder

\* What is in order after another part that is in order.
LEMMA ConcatInOrder ==
    ASSUME NEW S, NEW s \in Seq(S), NEW t \in Seq(S), NEW m, NEW v, NEW D,
           InOrder(m, s, D, v), InOrder(m, t, D \cup ToSet(s), v)
    PROVE  InOrder(m, s \o t, D, v)
<1>1. /\ Len(s \o t) = Len(s) + Len(t) /\ Len(s) \in Nat /\ Len(t) \in Nat
      /\ \A i \in 1 .. Len(s) : (s \o t)[i] = s[i]
      /\ \A i \in 1 .. Len(t) : (s \o t)[Len(s) + i] = t[i]
  BY Concat
<1> DEFINE r == s \o t
<1> HIDE DEF r
<1>2. ASSUME NEW i \in 1 .. Len(s), NEW a \in Needs(m, v, r[i])
      PROVE  a \in D \/ \E j \in 1 .. i - 1 : r[j] = a
  BY <1>1, <1>2 DEF InOrder, r
<1>3. ASSUME NEW i \in 1 .. Len(t), NEW a \in Needs(m, v, r[Len(s) + i])
      PROVE  a \in D \/ \E j \in 1 .. Len(s) + i - 1 : r[j] = a
  <2>1. a \in Needs(m, v, t[i])
    BY <1>1, <1>3 DEF r
  <2>2. a \in D \cup ToSet(s) \/ \E j \in 1 .. i - 1 : t[j] = a
    BY <2>1 DEF InOrder
  <2>3. ASSUME a \in ToSet(s) PROVE \E j \in 1 .. Len(s) + i - 1 : r[j] = a
    <3>1. PICK k \in 1 .. Len(s) : s[k] = a
      BY <2>3, InSeq
    <3>2. k \in 1 .. Len(s) + i - 1 /\ r[k] = a
      BY <1>1, <3>1 DEF r
    <3> QED BY <3>2
  <2>4. ASSUME NEW j \in 1 .. i - 1, t[j] = a PROVE \E k \in 1 .. Len(s) + i - 1 : r[k] = a
    <3>1. j \in 1 .. Len(t) /\ Len(s) + j \in 1 .. Len(s) + i - 1
      BY <1>1
    <3>2. r[Len(s) + j] = a
      BY <1>1, <2>4, <3>1 DEF r
    <3> QED BY <3>1, <3>2
  <2> QED BY <2>2, <2>3, <2>4
<1>4. ASSUME NEW i \in 1 .. Len(s) + Len(t) PROVE i \in 1 .. Len(s) \/ i - Len(s) \in 1 .. Len(t)
  BY <1>1
<1>5. ASSUME NEW i \in 1 .. Len(s) + Len(t), NEW a \in Needs(m, v, r[i])
      PROVE  a \in D \/ \E j \in 1 .. i - 1 : r[j] = a
  <2>1. CASE i \in 1 .. Len(s)
    BY <2>1, <1>2, <1>5
  <2>2. CASE i - Len(s) \in 1 .. Len(t)
    <3> DEFINE k == i - Len(s)
    <3>1. i = Len(s) + k /\ k \in 1 .. Len(t)
      BY <1>1, <2>2
    <3> HIDE DEF k
    <3> QED BY <3>1, <1>3, <1>5
  <2> QED BY <1>4, <2>1, <2>2
<1> QED BY <1>1, <1>5 DEF InOrder, r

\* A longer past does no harm.
LEMMA MoreInOrder ==
    ASSUME NEW m, NEW t, NEW D, NEW E, NEW v, InOrder(m, t, D, v), D \subseteq E
    PROVE  InOrder(m, t, E, v)
BY DEF InOrder

\* Statements that need nothing are in any order.
LEMMA NothingNeeded ==
    ASSUME NEW S, NEW t \in Seq(S), NEW m, NEW v, NEW D, \A s \in S : Needs(m, v, s) \subseteq D
    PROVE  InOrder(m, t, D, v)
BY DEF InOrder

\* A set as a sequence, in any order.
LEMMA SeqOfSet ==
    ASSUME NEW S, IsFiniteSet(S)
    PROVE  SetToSeq(S) \in Seq(S) /\ ToSet(SetToSeq(S)) = S
<1> DEFINE n == Cardinality(S)
<1>1. n \in Nat /\ ExistsBijection(1 .. n, S)
  BY FS_CardinalityType
<1>2. \E f \in [1 .. n -> S] : IsInjective(f)
  BY <1>1 DEF ExistsBijection, Bijection, Injection
<1> DEFINE f == SetToSeq(S)
<1>3. f \in [1 .. n -> S] /\ IsInjective(f)
  BY <1>2 DEF SetToSeq
<1> HIDE DEF f
<1>4. f \in Injection(1 .. n, S)
  BY <1>3 DEF Injection
<1>5. Cardinality(1 .. n) = n
  BY <1>1, FS_Interval
<1>6. f \in Surjection(1 .. n, S)
  BY <1>4, <1>5, FS_Injection
<1>7. \A y \in S : \E i \in 1 .. n : f[i] = y
  BY <1>6 DEF Surjection
<1> HIDE DEF n
<1>8. f \in Seq(S)
  BY <1>1, <1>3
<1>9. ToSet(f) = S
  BY <1>3, <1>7 DEF ToSet
<1> QED BY <1>8, <1>9 DEF f

\* The flags come in some order of Go's map.
LEMMA OrderIsSeq ==
    ASSUME NEW S, IsFiniteSet(S), NEW order \in SetToSeqs(S)
    PROVE  order \in Seq(S)
<1> DEFINE n == Cardinality(S)
<1>1. n \in Nat
  BY FS_CardinalityType
<1>2. order \in [1 .. n -> S]
  BY DEF SetToSeqs
<1> HIDE DEF n
<1> QED BY <1>1, <1>2

\* One statement for each name of a sequence.
LEMMA EachIs ==
    ASSUME NEW S, NEW s \in Seq(S), NEW op
    PROVE  Each(op, s) \in Seq({Do(op, x) : x \in S})
<1> DEFINE n == Len(s)  T == {Do(op, x) : x \in S}  r == Each(op, s)
<1>1. n \in Nat /\ DOMAIN s = 1 .. n /\ \A i \in 1 .. n : s[i] \in S
  OBVIOUS
<1>2. r = [i \in 1 .. n |-> Do(op, s[i])]
  BY DEF Each
<1> HIDE DEF n, r
<1>3. r \in [1 .. n -> T]
  BY <1>1, <1>2
<1>4. r \in Seq(T)
  BY <1>1, <1>3
<1> QED BY <1>4 DEF r

\* The edges' names are their ids and the nodes at their ends.
LEMMA EdgeNamesAre ==
    ASSUME NEW v \in AllViews
    PROVE  EdgeNames(v) \in Seq(EdgeEnds(v)) /\ ToSet(EdgeNames(v)) = EdgeEnds(v)
<1> DEFINE s == v.edges  n == Len(s)  r == EdgeNames(v)
<1>1. v.edges \in Seq(EdgesOf(v))
  BY ViewAssumption
<1>2. n \in Nat /\ DOMAIN s = 1 .. n /\ \A i \in 1 .. n : s[i] \in EdgesOf(v)
  BY <1>1
<1>3. ASSUME NEW e \in EdgesOf(v) PROVE \E k \in 1 .. n : s[k] = e
  BY <1>2 DEF EdgesOf, ToSet
<1>4. DOMAIN r = 1 .. 3 * n /\ 3 * n \in Nat
  BY <1>2 DEF EdgeNames
<1>5. ASSUME NEW i \in 1 .. 3 * n
      PROVE  /\ (i + 2) \div 3 \in 1 .. n
             /\ \/ (i + 2) % 3 = 0 /\ r[i] = s[(i + 2) \div 3].id
                \/ (i + 2) % 3 = 1 /\ r[i] = s[(i + 2) \div 3].t1
                \/ (i + 2) % 3 = 2 /\ r[i] = s[(i + 2) \div 3].t2
  <2> DEFINE e == s[(i + 2) \div 3]  k == (i + 2) % 3
  <2>1. (i + 2) \div 3 \in 1 .. n /\ (k = 0 \/ k = 1 \/ k = 2)
    BY <1>2
  <2>2. r[i] = (<<e.id, e.t1, e.t2>>)[k + 1]
    BY DEF EdgeNames
  <2> HIDE DEF e, k, r
  <2>3. CASE k = 0
    <3>1. r[i] = (<<e.id, e.t1, e.t2>>)[1]
      BY <2>2, <2>3
    <3> QED BY <2>1, <2>3, <3>1 DEF e, k
  <2>4. CASE k = 1
    <3>1. r[i] = (<<e.id, e.t1, e.t2>>)[2]
      BY <2>2, <2>4
    <3> QED BY <2>1, <2>4, <3>1 DEF e, k
  <2>5. CASE k = 2
    <3>1. r[i] = (<<e.id, e.t1, e.t2>>)[3]
      BY <2>2, <2>5
    <3> QED BY <2>1, <2>5, <3>1 DEF e, k
  <2> QED BY <2>1, <2>3, <2>4, <2>5
<1>6. ASSUME NEW k \in 1 .. n
      PROVE  /\ \E i \in 1 .. 3 * n : r[i] = s[k].id
             /\ \E i \in 1 .. 3 * n : r[i] = s[k].t1
             /\ \E i \in 1 .. 3 * n : r[i] = s[k].t2
  <2>1. /\ 3 * k - 2 \in 1 .. 3 * n /\ ((3 * k - 2) + 2) % 3 = 0 /\ ((3 * k - 2) + 2) \div 3 = k
        /\ 3 * k - 1 \in 1 .. 3 * n /\ ((3 * k - 1) + 2) % 3 = 1 /\ ((3 * k - 1) + 2) \div 3 = k
        /\ 3 * k \in 1 .. 3 * n /\ (3 * k + 2) % 3 = 2 /\ (3 * k + 2) \div 3 = k
    BY <1>2
  <2> HIDE DEF r, s
  <2>2. r[3 * k - 2] = s[k].id
    BY <2>1, <1>5
  <2>3. r[3 * k - 1] = s[k].t1
    BY <2>1, <1>5
  <2>4. r[3 * k] = s[k].t2
    <3> DEFINE i == 3 * k
    <3>1. i \in 1 .. 3 * n /\ (i + 2) % 3 = 2 /\ (i + 2) \div 3 = k
      BY <2>1
    <3> HIDE DEF i
    <3>2. r[i] = s[k].t2
      BY <3>1, <1>5
    <3> QED BY <3>2 DEF i
  <2> QED BY <2>1, <2>2, <2>3, <2>4
<1> HIDE DEF r, s, n
<1>7. ASSUME NEW e \in EdgesOf(v) PROVE e.id \in EdgeEnds(v) /\ e.t1 \in EdgeEnds(v) /\ e.t2 \in EdgeEnds(v)
  BY DEF EdgeEnds, EdgeIDs, TerminalsOf
<1>8. \A i \in 1 .. 3 * n : r[i] \in EdgeEnds(v)
  BY <1>2, <1>5, <1>7
<1>9. ASSUME NEW x \in EdgeEnds(v) PROVE \E i \in 1 .. 3 * n : r[i] = x
  <2>1. \E e \in EdgesOf(v) : x = e.id \/ x = e.t1 \/ x = e.t2
    BY DEF EdgeEnds, EdgeIDs, TerminalsOf
  <2> QED BY <2>1, <1>3, <1>6
<1>10. ToSet(r) = EdgeEnds(v)
  BY <1>4, <1>8, <1>9 DEF ToSet
<1>11. r = [i \in 1 .. 3 * n |-> r[i]]
  BY DEF r, EdgeNames, n, s
<1>12. r \in Seq(EdgeEnds(v))
  BY <1>4, <1>8, <1>11
<1> QED BY <1>10, <1>12 DEF r

-----------------------------------------------------------------------------
(* The transactions of a batch are in order.                                *)

Sound(m, v, D) == {t \in Seq(Statements(v)) : InOrder(m, t, D, v)}

\* Sound parts make a sound transaction,
LEMMA ConcatSound ==
    ASSUME NEW m, NEW v, NEW D, NEW s \in Sound(m, v, D), NEW t \in Sound(m, v, D \cup ToSet(s))
    PROVE  s \o t \in Sound(m, v, D)
<1>1. s \in Seq(Statements(v)) /\ t \in Seq(Statements(v))
  BY DEF Sound
<1>2. InOrder(m, s, D, v) /\ InOrder(m, t, D \cup ToSet(s), v)
  BY DEF Sound
<1>3. InOrder(m, s \o t, D, v)
  BY <1>1, <1>2, ConcatInOrder
<1>4. s \o t \in Seq(Statements(v))
  BY <1>1, Concat
<1> QED BY <1>3, <1>4 DEF Sound

\* Statements stay in order after more has been done than they need.
LEMMA SoundIsMonotone ==
    ASSUME NEW m, NEW v, NEW D, NEW E, D \subseteq E, NEW t \in Sound(m, v, D)
    PROVE  t \in Sound(m, v, E)
BY MoreInOrder DEF Sound

\* Statements that need no others, one for each name of a sequence.
LEMMA EachSet ==
    ASSUME NEW S, NEW s \in Seq(S), NEW op, NEW T, ToSet(s) = T
    PROVE  ToSet(Each(op, s)) = {Do(op, x) : x \in T}
<1> DEFINE n == Len(s)  r == Each(op, s)
<1>1. n \in Nat /\ DOMAIN s = 1 .. n
  OBVIOUS
<1>2. r = [i \in 1 .. n |-> Do(op, s[i])]
  BY DEF Each
<1> HIDE DEF n, r
<1>3. ToSet(r) = {Do(op, x) : x \in ToSet(s)}
  BY <1>1, <1>2 DEF ToSet
<1> QED BY <1>3 DEF r

\* One statement for each of some names.
LEMMA EachSound ==
    ASSUME NEW v, NEW m, NEW D, NEW S, NEW s \in Seq(S), NEW op,
           \A x \in S : Do(op, x) \in Statements(v) /\ Needs(m, v, Do(op, x)) \subseteq D
    PROVE  Each(op, s) \in Sound(m, v, D)
<1> DEFINE T == {Do(op, x) : x \in S}  t == Each(op, s)
<1>1. t \in Seq(T)
  BY EachIs
<1>2. T \subseteq Statements(v) /\ \A y \in T : Needs(m, v, y) \subseteq D
  OBVIOUS
<1> HIDE DEF T, t
<1>3. t \in Seq(Statements(v))
  BY <1>1, <1>2
<1>4. InOrder(m, t, D, v)
  BY <1>1, <1>2, NothingNeeded
<1> QED BY <1>3, <1>4 DEF Sound, t

\* The statement that writes a table.
LEMMA WriteSound ==
    ASSUME NEW v, NEW m, NEW D, NEW n \in TableNames, Needs(m, v, Do("write", n)) \subseteq D
    PROVE  <<Do("write", n)>> \in Sound(m, v, D) /\ ToSet(<<Do("write", n)>>) = {Do("write", n)}
<1> DEFINE y == Do("write", n)
<1>1. y \in Statements(v)
  BY DEF Statements
<1>2. Needs(m, v, y) \subseteq D
  OBVIOUS
<1> HIDE DEF y
<1>3. <<y>> \in Seq({y}) /\ <<y>> \in Seq(Statements(v)) /\ ToSet(<<y>>) = {y}
  BY <1>1, Single
<1>4. InOrder(m, <<y>>, D, v)
  BY <1>2, <1>3, NothingNeeded
<1> QED BY <1>3, <1>4 DEF Sound, y

\* What each kind of statement needs.
LEMMA NeedsOf ==
    ASSUME NEW v \in AllViews, NEW m
    PROVE  /\ \A x : Needs(m, v, Do("node", x)) = {} /\ Needs(m, v, Do("flag", x)) = {}
           /\ \A x \in KeysOf(v) \cup OwnersOf(v) : Needs(m, v, Do("resolve", x)) = {}
           /\ m # "batch" => \A x : Needs(m, v, Do("resolve", x)) = {}
           /\ \A x : Needs(m, v, Do("resolve", x)) \subseteq {Do("node", n) : n \in TerminalsOf(v) \cap {x}}
           /\ \A t \in {"containers", "equipment", "groups"} : Needs(m, v, Do("write", t)) = {}
           /\ Needs(m, v, Do("write", "edges")) = {Do("resolve", x) : x \in EdgeEnds(v)}
           /\ Needs(m, v, Do("write", "attributes")) = {Do("resolve", x) : x \in KeysOf(v) \cup OwnersOf(v)}
<1>1. (KeysOf(v) \cup OwnersOf(v)) \cap TerminalsOf(v) = {}
  BY ViewAssumption, NameAssumption
<1> QED BY <1>1 DEF Needs, Do

\* UpsertNodesTx.
LEMMA NodesSound ==
    ASSUME NEW v \in AllViews, NEW m, NEW D
    PROVE  /\ UpsertNodesTx(v) \in Sound(m, v, D)
           /\ ToSet(UpsertNodesTx(v)) = {Do("node", n) : n \in ToSet(v.nodes)}
<1> DEFINE S == ToSet(v.nodes)
<1>1. v.nodes \in Seq(AllNodes)
  BY ViewAssumption
<1>2. v.nodes \in Seq(S)
  BY <1>1 DEF ToSet
<1>3. \A x \in S : Do("node", x) \in Statements(v)
  BY DEF Statements
<1> HIDE DEF S
<1>4. Each("node", v.nodes) \in Sound(m, v, D)
  BY <1>2, <1>3, NeedsOf, EachSound
<1>5. ToSet(Each("node", v.nodes)) = {Do("node", n) : n \in ToSet(v.nodes)}
  BY <1>2, EachSet
<1> QED BY <1>4, <1>5 DEF UpsertNodesTx

\* MarkFlagsTx.
LEMMA FlagsSound ==
    ASSUME NEW v \in AllViews, NEW m, NEW D, NEW order \in SetToSeqs(v.shared)
    PROVE  MarkFlagsTx(order) \in Sound(m, v, D)
<1>1. order \in Seq(v.shared)
  BY ViewAssumption, OrderIsSeq
<1>2. \A x \in v.shared : Do("flag", x) \in Statements(v)
  BY DEF Statements
<1> QED BY <1>1, <1>2, NeedsOf, EachSound DEF MarkFlagsTx

\* UpsertAttributesTx resolves its names first.
LEMMA AttributesSound ==
    ASSUME NEW v \in AllViews, NEW m, NEW D
    PROVE  UpsertAttributesTx(v) \in Sound(m, v, D)
<1>1. CASE OwnersOf(v) = {}
  <2>1. <<>> \in Seq(Statements(v)) /\ InOrder(m, <<>>, D, v)
    BY DEF InOrder
  <2> QED BY <1>1, <2>1 DEF UpsertAttributesTx, Sound
<1>2. CASE OwnersOf(v) # {}
  <2> DEFINE K == KeysOf(v)  O == OwnersOf(v)
             s == Each("resolve", SetToSeq(K))  t == Each("resolve", SetToSeq(O))
             u == <<Do("write", "attributes")>>
  <2>1. /\ SetToSeq(K) \in Seq(K) /\ ToSet(SetToSeq(K)) = K
        /\ SetToSeq(O) \in Seq(O) /\ ToSet(SetToSeq(O)) = O
    BY ViewAssumption, SeqOfSet
  <2>2. \A x \in K \cup O : Do("resolve", x) \in Statements(v)
    BY DEF Statements, Names
  <2>3. \A x \in K \cup O : Needs(m, v, Do("resolve", x)) = {}
    BY NeedsOf
  <2>4. s \in Sound(m, v, D) /\ ToSet(s) = {Do("resolve", x) : x \in K}
    <3>1. s \in Sound(m, v, D)
      BY <2>1, <2>2, <2>3, EachSound
    <3>2. ToSet(s) = {Do("resolve", x) : x \in ToSet(SetToSeq(K))}
      BY <2>1, EachSet
    <3> QED BY <2>1, <3>1, <3>2
  <2>5. t \in Sound(m, v, D \cup ToSet(s)) /\ ToSet(t) = {Do("resolve", x) : x \in O}
    <3>1. t \in Sound(m, v, D \cup ToSet(s))
      BY <2>1, <2>2, <2>3, EachSound
    <3>2. ToSet(t) = {Do("resolve", x) : x \in ToSet(SetToSeq(O))}
      BY <2>1, EachSet
    <3> QED BY <2>1, <3>1, <3>2
  <2> HIDE DEF s, t
  <2>6. s \o t \in Sound(m, v, D)
    BY <2>4, <2>5, ConcatSound
  <2>7. ToSet(s \o t) = ToSet(s) \cup ToSet(t)
    <3>1. s \in Seq(Statements(v)) /\ t \in Seq(Statements(v))
      BY <2>4, <2>5 DEF Sound
    <3> QED BY <3>1, Concat
  <2>8. Needs(m, v, Do("write", "attributes")) \subseteq D \cup ToSet(s \o t)
    BY <2>4, <2>5, <2>7, NeedsOf
  <2>9. u \in Sound(m, v, D \cup ToSet(s \o t))
    BY <2>8, WriteSound DEF TableNames
  <2> HIDE DEF u
  <2>10. (s \o t) \o u \in Sound(m, v, D)
    BY <2>6, <2>9, ConcatSound
  <2> QED BY <1>2, <2>10 DEF UpsertAttributesTx, s, t, u
<1> QED BY <1>1, <1>2

\* UpsertEdgesTx resolves its names first, and PersistBatch has locked the nodes.
LEMMA EdgesSound ==
    ASSUME NEW v \in AllViews, NEW m, NEW D,
           m = "batch" => {Do("node", n) : n \in TerminalsOf(v)} \subseteq D
    PROVE  UpsertEdgesTx(v) \in Sound(m, v, D)
<1> DEFINE s == Each("resolve", EdgeNames(v))  u == <<Do("write", "edges")>>
<1>1. EdgeNames(v) \in Seq(EdgeEnds(v)) /\ ToSet(EdgeNames(v)) = EdgeEnds(v)
  BY EdgeNamesAre
<1>2. \A x \in EdgeEnds(v) : Do("resolve", x) \in Statements(v)
  BY DEF Statements, Names
<1>3. ASSUME NEW x \in EdgeEnds(v) PROVE Needs(m, v, Do("resolve", x)) \subseteq D
  BY NeedsOf, SMTT(30)
<1>4. s \in Sound(m, v, D) /\ ToSet(s) = {Do("resolve", x) : x \in EdgeEnds(v)}
  <2>1. s \in Sound(m, v, D)
    BY <1>1, <1>2, <1>3, EachSound
  <2>2. ToSet(s) = {Do("resolve", x) : x \in ToSet(EdgeNames(v))}
    BY <1>1, EachSet
  <2> QED BY <1>1, <2>1, <2>2
<1>5. Needs(m, v, Do("write", "edges")) \subseteq D \cup ToSet(s)
  BY <1>4, NeedsOf
<1>6. u \in Sound(m, v, D \cup ToSet(s))
  BY <1>5, WriteSound DEF TableNames
<1> HIDE DEF s, u
<1>7. s \o u \in Sound(m, v, D)
  BY <1>4, <1>6, ConcatSound
<1> QED BY <1>7 DEF UpsertEdgesTx, s, u

\* The tables without foreign keys.
LEMMA TablesSound ==
    ASSUME NEW v \in AllViews, NEW m, NEW D
    PROVE  /\ UpsertContainersTx \in Sound(m, v, D) /\ UpsertEquipmentTx \in Sound(m, v, D)
           /\ UpsertElectricalGroupsTx \in Sound(m, v, D)
<1>1. \A t \in {"containers", "equipment", "groups"} :
         t \in TableNames /\ Needs(m, v, Do("write", t)) \subseteq D
  BY NeedsOf DEF TableNames
<1> QED BY <1>1, WriteSound DEF UpsertContainersTx, UpsertEquipmentTx, UpsertElectricalGroupsTx

\* PersistBatch.
LEMMA BatchSound ==
    ASSUME NEW v \in AllViews, NEW attrs, \A m, D : attrs \in Sound(m, v, D)
    PROVE  PersistBatchTx(v, attrs) \in Sound("batch", v, {})
<1> DEFINE m == "batch"  c == UpsertContainersTx  q == UpsertEquipmentTx  n == UpsertNodesTx(v)
           e == UpsertEdgesTx(v)  g == UpsertElectricalGroupsTx
<1>1. c \in Sound(m, v, {}) /\ q \in Sound(m, v, {} \cup ToSet(c))
  BY TablesSound
<1>2. n \in Sound(m, v, {} \cup ToSet(c \o q)) /\ {Do("node", x) : x \in ToSet(v.nodes)} = ToSet(n)
  BY NodesSound
<1>3. c \o q \in Sound(m, v, {})
  BY <1>1, ConcatSound
<1>4. (c \o q) \o n \in Sound(m, v, {})
  BY <1>2, <1>3, ConcatSound
<1>5. ToSet(n) \subseteq ToSet((c \o q) \o n)
  <2> DEFINE s == c \o q
  <2>1. s \in Seq(Statements(v)) /\ n \in Seq(Statements(v))
    BY <1>2, <1>3 DEF Sound
  <2> HIDE DEF s, n
  <2>2. ToSet(s \o n) = ToSet(s) \cup ToSet(n)
    BY <2>1, Concat
  <2> QED BY <2>2 DEF s
<1>6. TerminalsOf(v) \subseteq ToSet(v.nodes)
  BY ViewAssumption
<1>7. {Do("node", x) : x \in TerminalsOf(v)} \subseteq {} \cup ToSet((c \o q) \o n)
  BY <1>2, <1>5, <1>6
<1>8. e \in Sound(m, v, {} \cup ToSet((c \o q) \o n))
  BY <1>7, EdgesSound
<1> HIDE DEF c, q, n, e, g, m
<1>9. ((c \o q) \o n) \o e \in Sound(m, v, {})
  BY <1>4, <1>8, ConcatSound
<1>10. attrs \in Sound(m, v, {} \cup ToSet(((c \o q) \o n) \o e))
  OBVIOUS
<1>11. (((c \o q) \o n) \o e) \o attrs \in Sound(m, v, {})
  BY <1>9, <1>10, ConcatSound
<1>12. g \in Sound(m, v, {} \cup ToSet((((c \o q) \o n) \o e) \o attrs))
  BY TablesSound DEF g
<1>13. ((((c \o q) \o n) \o e) \o attrs) \o g \in Sound(m, v, {})
  BY <1>11, <1>12, ConcatSound
<1> QED BY <1>13 DEF PersistBatchTx, c, q, n, e, g, m

\* An empty transaction is not begun.
LEMMA TxIs == ASSUME NEW S, NEW t \in S PROVE Tx(t) \in Seq(S)
BY DEF Tx

\* Names are resolved before they are referred to, and PersistBatch has the nodes locked
\* before it resolves their names.
LEMMA TransactionsSound ==
    ASSUME mode \in Modes, NEW b \in Batches, NEW v \in AllViews, NEW order \in SetToSeqs(v.shared)
    PROVE  Transactions(b, v, order) \in Seq(Sound(mode, v, {}))
<1> DEFINE S == Sound(mode, v, {})
           attrs == UpsertAttributesTx(v)  flags == MarkFlagsTx(order)
           c == UpsertContainersTx  q == UpsertEquipmentTx  n == UpsertNodesTx(v)
           e == UpsertEdgesTx(v)  g == UpsertElectricalGroupsTx
           tables == <<c, q>> \o Tx(n) \o <<e>>
           whole == PersistBatchTx(v, attrs)  rest == PersistBatchTx(v, <<>>)
<1>1. mode = "batch" \/ mode = "tables"
  BY PostgresAssumption
<1>2. attrs \in S /\ flags \in S /\ c \in S /\ q \in S /\ n \in S /\ g \in S
  BY AttributesSound, FlagsSound, TablesSound, NodesSound
<1>3. mode = "batch" => whole \in S /\ rest \in S
  <2>1. \A m, D : attrs \in Sound(m, v, D)
    BY AttributesSound
  <2>2. \A m, D : <<>> \in Sound(m, v, D)
    BY DEF Sound, InOrder
  <2> HIDE DEF attrs
  <2> QED BY <2>1, <2>2, BatchSound
<1>4. mode # "batch" => e \in S
  BY EdgesSound
<1> HIDE DEF S, attrs, flags, c, q, n, e, g, whole, rest
<1>5. Tx(attrs) \in Seq(S) /\ Tx(flags) \in Seq(S) /\ Tx(n) \in Seq(S)
  BY <1>2, TxIs
<1>6. mode # "batch" => tables \in Seq(S)
  BY <1>2, <1>4, <1>5
<1> HIDE DEF tables
<1>7. CASE b \in PassB /\ mode = "batch"
  <2>1. Tx(flags) \o <<whole>> \in Seq(S)
    BY <1>3, <1>5, <1>7
  <2> QED BY <1>7, <2>1 DEF Transactions, S, flags, attrs, whole
<1>8. CASE b \in PassB /\ mode # "batch"
  <2>1. Tx(flags) \o (tables \o Tx(attrs) \o <<g>>) \in Seq(S)
    BY <1>2, <1>5, <1>6, <1>8
  <2> QED BY <1>8, <2>1 DEF Transactions, S, flags, attrs, tables, c, q, n, e, g
<1>9. CASE b \notin PassB /\ mode = "batch"
  <2>1. Tx(attrs) \o Tx(flags) \o <<rest>> \in Seq(S)
    BY <1>3, <1>5, <1>9
  <2> QED BY <1>9, <2>1 DEF Transactions, S, flags, attrs, rest
<1>10. CASE b \notin PassB /\ mode # "batch"
  <2>1. Tx(attrs) \o Tx(flags) \o (tables \o <<g>>) \in Seq(S)
    BY <1>2, <1>5, <1>6, <1>10
  <2> QED BY <1>10, <2>1 DEF Transactions, S, flags, attrs, tables, c, q, n, e, g
<1> QED BY <1>7, <1>8, <1>9, <1>10 DEF S

-----------------------------------------------------------------------------
(* A worker does them in order.                                             *)

\* A transaction that has not begun.
LEMMA NoTxIs ==
    /\ IsTx(NoTx) /\ DoneBy(NoTx) = {} /\ NoTx.locks = {} /\ NoTx.wrote = {}
    /\ DOMAIN NoTx.ids = {} /\ DOMAIN NoTx.own = {}
BY DEF NoTx, IsTx, DoneBy, NoRow

\* Nobody waits for a flag or a written table.
LEMMA Unneeded ==
    ASSUME NEW m, NEW v, NEW s, NEW a \in Needs(m, v, s)
    PROVE  a.op \in {"resolve", "node"}
BY DEF Needs, Do

\* A statement is known by its kind and its name.
LEMMA StatementKinds ==
    ASSUME NEW v, NEW s \in Statements(v)
    PROVE  /\ s = Do(s.op, s.name)
           /\ s.op \in {"resolve", "node", "flag", "write"}
           /\ s.op = "resolve" => s.name \in Names(v)
           /\ s.op = "node" => s.name \in ToSet(v.nodes)
           /\ s.op = "flag" => s.name \in v.shared
           /\ s.op = "write" => s.name \in TableNames
BY DEF Statements, Do

\* A batch begins orderly,
LEMMA OrderlyBegin ==
    ASSUME NEW m, NEW v, NEW q \in Seq(Sound(m, v, {}))
    PROVE  Orderly(m, v, q, NoTx)
<1>1. Len(q) \in Nat /\ \A k \in 1 .. Len(q) : q[k] \in Sound(m, v, {})
  OBVIOUS
<1>2. q \in Seq(Seq(Statements(v)))
  <2>1. Sound(m, v, {}) \subseteq Seq(Statements(v))
    BY DEF Sound
  <2> HIDE DEF Sound
  <2> DEFINE T == Seq(Statements(v))  S == Sound(m, v, {})
  <2>2. S \subseteq T /\ q \in Seq(S)
    BY <2>1
  <2> HIDE DEF T, S
  <2>3. q \in Seq(T)
    BY <2>2
  <2> QED BY <2>3 DEF T
<1>3. \A k \in 1 .. Len(q) : InOrder(m, q[k], {}, v)
  BY <1>1 DEF Sound
<1>4. q # <<>> => 1 \in 1 .. Len(q)
  BY <1>1, EmptySeq
<1>5. \A k \in 2 .. Len(q) : k \in 1 .. Len(q)
  BY <1>1
<1> QED BY <1>2, <1>3, <1>4, <1>5, NoTxIs DEF Orderly

\* The next statement of an orderly worker has what it needs.
LEMMA OrderlyStmt ==
    ASSUME NEW m, NEW v, NEW q, NEW x, Orderly(m, v, q, x), q # <<>>, Head(q) # <<>>
    PROVE  /\ Head(q) = q[1] /\ q[1] \in Seq(Statements(v))
           /\ Head(Head(q)) = q[1][1] /\ Head(Head(q)) \in Statements(v)
           /\ Needs(m, v, Head(Head(q))) \subseteq DoneBy(x)
<1> DEFINE S == Statements(v)  T == Seq(S)
<1>1. q \in Seq(T) /\ InOrder(m, q[1], DoneBy(x), v)
  BY DEF Orderly
<1>2. Head(q) = q[1] /\ q[1] \in T
  <2> HIDE DEF T
  <2> QED BY <1>1, HeadTail
<1> DEFINE t == q[1]
<1>3. t \in Seq(S) /\ t # <<>> /\ InOrder(m, t, DoneBy(x), v)
  BY <1>1, <1>2
<1> HIDE DEF t, S
<1>4. Head(t) = t[1] /\ t[1] \in S /\ 1 \in 1 .. Len(t)
  BY <1>3, HeadTail
<1>5. Needs(m, v, t[1]) \subseteq DoneBy(x)
  <2>1. ASSUME NEW a \in Needs(m, v, t[1]) PROVE a \in DoneBy(x)
    BY <1>3, <1>4, <2>1 DEF InOrder
  <2> QED BY <2>1
<1> QED BY <1>2, <1>3, <1>4, <1>5 DEF t, S

\* A worker stays orderly when its next statement is executed.
LEMMA OrderlyStep ==
    ASSUME NEW m, NEW v, NEW q, NEW x, Orderly(m, v, q, x), q # <<>>, Head(q) # <<>>,
           NEW y, IsTx(y), DoneBy(x) \subseteq DoneBy(y),
           DoneBy(y) \subseteq DoneBy(x) \cup {Head(Head(q))},
           Head(Head(q)) \in DoneBy(y) \/ Head(Head(q)).op = "flag"
    PROVE  Orderly(m, v, <<Tail(Head(q))>> \o Tail(q), y)
<1> DEFINE S == Statements(v)  T == Seq(S)  s == Head(Head(q))  t == q[1]
           r == <<Tail(Head(q))>> \o Tail(q)
<1>1. /\ q \in Seq(Seq(S)) /\ InOrder(m, t, DoneBy(x), v)
      /\ \A k \in 2 .. Len(q) : InOrder(m, q[k], {}, v)
      /\ DoneBy(x) \subseteq S /\ \A a \in DoneBy(x) : Needs(m, v, a) \subseteq DoneBy(x)
  BY DEF Orderly
<1>2. s \in S /\ s = t[1] /\ t \in Seq(S) /\ t = Head(q) /\ Needs(m, v, s) \subseteq DoneBy(x)
  BY OrderlyStmt
<1>3. s \in DoneBy(y) \/ \A a : s \notin Needs(m, v, a)
  <2>1. s \in DoneBy(y) \/ s.op = "flag"
    OBVIOUS
  <2> HIDE DEF s
  <2> QED BY <2>1, Unneeded
<1>4. DoneBy(y) \subseteq S /\ \A a \in DoneBy(y) : Needs(m, v, a) \subseteq DoneBy(y)
  BY <1>1, <1>2
<1> HIDE DEF S
<1>5. /\ r \in Seq(Seq(S)) /\ r # <<>> /\ Len(r) = Len(q) /\ r[1] = Tail(t)
      /\ \A k \in 2 .. Len(q) : r[k] = q[k]
  BY <1>1, StepSeq
<1> HIDE DEF s, r
<1>6. InOrder(m, Tail(t), DoneBy(y), v)
  <2>1. t # <<>>
    BY <1>2
  <2> HIDE DEF t
  <2> QED BY <1>1, <1>2, <1>3, <2>1, TailInOrder
<1>7. \A k \in 2 .. Len(r) : InOrder(m, r[k], {}, v)
  BY <1>1, <1>5
<1>8. Orderly(m, v, r, y)
  BY <1>4, <1>5, <1>6, <1>7 DEF Orderly, S
<1> QED BY <1>8 DEF r

\* A worker stays orderly when its transaction is committed.
LEMMA OrderlyCommit ==
    ASSUME NEW m, NEW v, NEW q, NEW x, Orderly(m, v, q, x), q # <<>>, Head(q) = <<>>
    PROVE  Orderly(m, v, Tail(q), NoTx)
<1> DEFINE T == Seq(Statements(v))  r == Tail(q)
<1>1. q \in Seq(T) /\ \A k \in 2 .. Len(q) : InOrder(m, q[k], {}, v)
  BY DEF Orderly
<1> HIDE DEF T
<1>2. /\ r \in Seq(T) /\ Len(q) \in Nat /\ Len(r) = Len(q) - 1
      /\ \A i \in 1 .. Len(q) - 1 : r[i] = q[i + 1]
  BY <1>1, HeadTail
<1> HIDE DEF r
<1>3. ASSUME NEW k \in 1 .. Len(r) PROVE InOrder(m, r[k], {}, v)
  <2>1. k + 1 \in 2 .. Len(q) /\ r[k] = q[k + 1]
    BY <1>2
  <2> QED BY <1>1, <2>1
<1>4. r # <<>> => 1 \in 1 .. Len(r)
  BY <1>2, EmptySeq
<1>5. \A k \in 2 .. Len(r) : k \in 1 .. Len(r)
  BY <1>2
<1>6. Orderly(m, v, r, NoTx)
  BY <1>2, <1>3, <1>4, <1>5, NoTxIs DEF Orderly, T
<1> QED BY <1>6 DEF r

-----------------------------------------------------------------------------
(* What the invariant says of a worker.                                     *)

\* A run imports one of the views of a batch.
LEMMA ViewIsView ==
    ASSUME NEW b \in Batches, run \in Nat, run # 0
    PROVE  View(b) \in ViewsOf(b) /\ View(b) \in AllViews
<1> DEFINE s == VersionsOf[b]  i == IF run < Len(s) THEN run ELSE Len(s)
<1>1. s \in Seq(ViewsOf(b)) /\ s # <<>>
  BY PostgresAssumption
<1>2. Len(s) \in Nat /\ Len(s) # 0
  BY <1>1, EmptySeq
<1>3. i \in 1 .. Len(s)
  BY <1>2
<1>4. View(b) = s[i]
  BY DEF View
<1> HIDE DEF i, s
<1>5. View(b) \in ViewsOf(b)
  BY <1>1, <1>3, <1>4
<1> QED BY <1>5 DEF AllViews

\* A worker with a batch.
LEMMA WorkerIs ==
    ASSUME Inv, NEW w \in Workers, Working(w)
    PROVE  /\ phase = "running" /\ run \in Nat /\ run # 0 /\ job[w] \in Batches
           /\ View(job[w]) \in AllViews /\ View(job[w]) \in ViewsOf(job[w])
           /\ Orderly(mode, View(job[w]), left[w], tx[w])
<1>1. Process
  BY DEF Inv
<1>2. job[w] \in Batches /\ job[w] # "none" /\ Orderly(mode, View(job[w]), left[w], tx[w])
  BY <1>1 DEF Process, Working
<1>3. phase = "running" /\ run \in Nat /\ run # 0
  BY <1>1, <1>2, PostgresAssumption DEF Process
<1> QED BY <1>2, <1>3, ViewIsView

\* A name is resolved, and a node locked, before it is needed; nothing else does it.
LEMMA DoneIs ==
    ASSUME NEW x, IsTx(x), NEW n
    PROVE  /\ Do("resolve", n) \in DoneBy(x) <=> n \in DOMAIN x.ids
           /\ Do("node", n) \in DoneBy(x) <=> Do("node", n) \in x.locks
           /\ Do("write", n) \in DoneBy(x) <=> n \in x.wrote
BY DEF DoneBy, IsTx, Do

\* What a worker has written, it had resolved.
LEMMA WroteResolved ==
    ASSUME Inv, NEW w \in Workers, Working(w), NEW t \in tx[w].wrote,
           NEW x \in ReferredBy(t, View(job[w]))
    PROVE  x \in DOMAIN tx[w].ids
<1> DEFINE v == View(job[w])
<1>1. v \in AllViews /\ Orderly(mode, v, left[w], tx[w])
  BY WorkerIs
<1> HIDE DEF v
<1>2. IsTx(tx[w]) /\ \A s \in DoneBy(tx[w]) : Needs(mode, v, s) \subseteq DoneBy(tx[w])
  BY <1>1 DEF Orderly
<1>3. Do("write", t) \in DoneBy(tx[w])
  BY <1>2, DoneIs
<1>4. Do("resolve", x) \in Needs(mode, v, Do("write", t))
  <2>1. x \in ReferredBy(t, v)
    BY DEF v
  <2>2. CASE t = "edges"
    BY <1>1, <2>1, <2>2, NeedsOf DEF ReferredBy, EdgeEnds
  <2>3. CASE t = "attributes"
    BY <1>1, <2>1, <2>3, NeedsOf DEF ReferredBy
  <2>4. t = "edges" \/ t = "attributes"
    BY <2>1 DEF ReferredBy
  <2> QED BY <2>2, <2>3, <2>4
<1> QED BY <1>2, <1>3, <1>4, DoneIs

\* The statement of an open transaction.
LEMMA StmtIs ==
    ASSUME Inv, NEW w \in Workers, Open(w)
    PROVE  /\ Working(w) /\ left[w] # <<>> /\ Head(left[w]) # <<>>
           /\ Stmt(w) \in Statements(View(job[w]))
           /\ Needs(mode, View(job[w]), Stmt(w)) \subseteq DoneBy(tx[w])
           /\ IsTx(tx[w])
<1>1. Working(w) /\ left[w] # <<>> /\ Head(left[w]) # <<>>
  BY DEF Open
<1>2. Orderly(mode, View(job[w]), left[w], tx[w])
  BY <1>1, WorkerIs
<1>3. IsTx(tx[w])
  BY <1>2 DEF Orderly
<1> QED BY <1>1, <1>2, <1>3, OrderlyStmt DEF Stmt

-----------------------------------------------------------------------------
(* Steps that change one worker's transaction.                              *)

\* w has executed its next statement.
Moves(w) ==
    /\ Open(w) /\ Step(w)
    /\ DOMAIN tx' = Workers /\ \A u \in Workers \ {w} : tx'[u] = tx[u]
    /\ IsTx(tx'[w])
    /\ DoneBy(tx[w]) \subseteq DoneBy(tx'[w])
    /\ DoneBy(tx'[w]) \subseteq DoneBy(tx[w]) \cup {Stmt(w)}
    /\ Stmt(w) \in DoneBy(tx'[w]) \/ Stmt(w).op = "flag"
    /\ UNCHANGED <<db, phase, run, mode, taken, finished, job, lost>>

\* A statement keeps the tables and the order.
LEMMA MoveKeeps ==
    ASSUME Inv, NEW w \in Workers, Moves(w)
    PROVE  TablesKnown' /\ Process'
<1>1. TablesKnown'
  BY DEF Inv, TablesKnown, Moves
<1>2. Open(w) /\ Step(w)
  BY DEF Moves
<1>3. /\ Working(w) /\ phase = "running" /\ Orderly(mode, View(job[w]), left[w], tx[w])
      /\ left[w] # <<>> /\ Head(left[w]) # <<>>
  BY <1>2, StmtIs, WorkerIs
<1> DEFINE r == <<Tail(Head(left[w]))>> \o Tail(left[w])
<1>4. Orderly(mode, View(job[w]), r, tx'[w])
  BY <1>3, OrderlyStep DEF Moves, Stmt
<1>5. DOMAIN left' = Workers /\ left'[w] = r /\ \A u \in Workers \ {w} : left'[u] = left[u]
  BY <1>2 DEF Inv, Process, Step
<1> HIDE DEF r
<1>6. \A u \in Workers : IF Working(u) THEN Orderly(mode, View(job[u]), left'[u], tx'[u])
                         ELSE left'[u] = <<>> /\ tx'[u] = NoTx
  <2> SUFFICES ASSUME NEW u \in Workers
               PROVE  IF Working(u) THEN Orderly(mode, View(job[u]), left'[u], tx'[u])
                      ELSE left'[u] = <<>> /\ tx'[u] = NoTx
    OBVIOUS
  <2>1. CASE u = w
    BY <2>1, <1>3, <1>4, <1>5
  <2>2. CASE u # w
    <3>1. left'[u] = left[u] /\ tx'[u] = tx[u]
      BY <2>2, <1>5 DEF Moves
    <3> QED BY <3>1 DEF Inv, Process
  <2> QED BY <2>1, <2>2
<1>7. Process'
  BY <1>3, <1>5, <1>6 DEF Inv, Process, Moves, Working, View
<1> QED BY <1>1, <1>7

\* Ids, if no name is resolved.
LEMMA IdsFrame ==
    ASSUME Ids, UNCHANGED <<phase, run, cache, lost>>, db'.dict = db.dict,
           \A u \in Workers : tx'[u].own = tx[u].own /\ tx'[u].ids = tx[u].ids
    PROVE  Ids'
BY DEF Ids

\* What is written, if w writes nothing and resolves no name anew.
LEMMA ReferredFrame ==
    ASSUME Inv, NEW w \in Workers, Moves(w), tx'[w].wrote \subseteq tx[w].wrote,
           \A x \in DOMAIN tx[w].ids : tx'[w].ids[x] = tx[w].ids[x],
           \A x \in DOMAIN tx[w].own : x \in DOMAIN tx'[w].own /\ tx'[w].own[x] = tx[w].own[x]
    PROVE  Referred'
<1>1. /\ Working(w) /\ UNCHANGED <<db, job, run>> /\ \A u \in Workers \ {w} : tx'[u] = tx[u]
  BY DEF Moves, Open
<1>2. ASSUME NEW u \in Workers, Working(u), NEW t \in tx'[u].wrote, NEW x \in ReferredBy(t, View(job[u]))
      PROVE  \/ x \in DOMAIN db.dict /\ db.dict[x] = tx'[u].ids[x]
             \/ x \in DOMAIN tx'[u].own /\ tx'[u].own[x] = tx'[u].ids[x]
  <2>1. t \in tx[u].wrote
    BY <1>1, <1>2
  <2>2. Visible(u, x) /\ x \in DOMAIN tx[u].ids
    BY <1>2, <2>1, WroteResolved DEF Inv, Referred
  <2>3. CASE u = w
    BY <2>2, <2>3 DEF Visible
  <2>4. CASE u # w
    BY <2>2, <2>4, <1>1 DEF Visible
  <2> QED BY <2>3, <2>4
<1>3. \A u \in Workers : Working(u)' <=> Working(u)
  BY <1>1 DEF Working
<1>4. \A t : \A u \in Workers : ReferredBy(t, View(job[u]))' = ReferredBy(t, View(job[u]))
  BY <1>1 DEF View
<1> QED BY <1>1, <1>2, <1>3, <1>4 DEF Referred, Visible

-----------------------------------------------------------------------------
(* Each statement keeps the invariant.                                      *)

\* Every worker has a transaction.
LEMMA TxIsFunction ==
    ASSUME Inv, NEW w \in Workers
    PROVE  DOMAIN tx = Workers /\ (Working(w) => IsTx(tx[w]))
BY WorkerIs DEF Inv, Process, Orderly

\* A locked node: nobody else holds it.
LEMMA UpsertNodeKeeps ==
    ASSUME Inv, NEW w \in Workers, UpsertNode(w)
    PROVE  Inv' /\ Moves(w)
<1> DEFINE s == Stmt(w)
<1>1. /\ Open(w) /\ s.op = "node" /\ ~Waits(w) /\ Step(w)
      /\ tx' = [tx EXCEPT ![w].locks = tx[w].locks \cup {s}]
      /\ UNCHANGED <<db, cache, phase, run, mode, taken, finished, job, failed, lost, faults, shown>>
  BY DEF UpsertNode
<1>2. IsTx(tx[w]) /\ DOMAIN tx = Workers /\ s \in Statements(View(job[w]))
  BY <1>1, StmtIs DEF Inv, Process
<1>3. s = Do("node", s.name)
  BY <1>1, <1>2, StatementKinds
<1>8. \A u \in Workers \ {w} : s \notin tx[u].locks
  BY <1>1 DEF Waits, HeldBy
<1> HIDE DEF s
<1>4. /\ DOMAIN tx' = Workers /\ \A u \in Workers \ {w} : tx'[u] = tx[u]
      /\ tx'[w] = [tx[w] EXCEPT !.locks = tx[w].locks \cup {s}]
  BY <1>1, <1>2
<1>5. /\ tx'[w].own = tx[w].own /\ tx'[w].ids = tx[w].ids /\ tx'[w].wrote = tx[w].wrote
      /\ tx'[w].locks = tx[w].locks \cup {s} /\ IsTx(tx'[w])
  BY <1>1, <1>2, <1>4 DEF IsTx
<1>6. Moves(w)
  BY <1>1, <1>4, <1>5 DEF Moves, DoneBy, s
<1>7. Ids'
  <2>1. \A u \in Workers : tx'[u].own = tx[u].own /\ tx'[u].ids = tx[u].ids
    BY <1>4, <1>5
  <2> QED BY <1>1, <2>1, IdsFrame DEF Inv
<1>9. Locks'
  <2> SUFFICES ASSUME NEW u \in Workers, NEW z \in Workers, u # z
               PROVE  tx'[u].locks \cap tx'[z].locks = {}
    BY DEF Locks
  <2>1. tx[u].locks \cap tx[z].locks = {}
    BY DEF Inv, Locks
  <2>2. CASE u # w /\ z # w
    BY <2>1, <2>2, <1>4
  <2>3. CASE u = w
    BY <2>1, <2>3, <1>4, <1>5, <1>8
  <2>4. CASE z = w
    BY <2>1, <2>4, <1>4, <1>5, <1>8
  <2> QED BY <2>2, <2>3, <2>4
<1>10. Referred'
  BY <1>5, <1>6, ReferredFrame
<1> QED BY <1>6, <1>7, <1>9, <1>10, MoveKeeps DEF Inv

\* A flag: like a node, unless it is committed already.
LEMMA MarkFlagKeeps ==
    ASSUME Inv, NEW w \in Workers, MarkFlag(w)
    PROVE  Inv' /\ Moves(w)
<1> DEFINE s == Stmt(w)
<1>1. /\ Open(w) /\ s.op = "flag" /\ ~Waits(w) /\ Step(w)
      /\ tx' = IF s.name \in db.flag THEN tx ELSE [tx EXCEPT ![w].locks = tx[w].locks \cup {s}]
      /\ UNCHANGED <<db, cache, phase, run, mode, taken, finished, job, failed, lost, faults, shown>>
  BY DEF MarkFlag
<1>2. IsTx(tx[w]) /\ DOMAIN tx = Workers /\ s \in Statements(View(job[w]))
  BY <1>1, StmtIs DEF Inv, Process
<1>8. \A u \in Workers \ {w} : s \notin tx[u].locks
  BY <1>1 DEF Waits, HeldBy
<1> HIDE DEF s
<1>4. /\ DOMAIN tx' = Workers /\ \A u \in Workers \ {w} : tx'[u] = tx[u]
      /\ tx'[w] = tx[w] \/ tx'[w] = [tx[w] EXCEPT !.locks = tx[w].locks \cup {s}]
  BY <1>1, <1>2
<1>5. /\ tx'[w].own = tx[w].own /\ tx'[w].ids = tx[w].ids /\ tx'[w].wrote = tx[w].wrote
      /\ tx'[w].locks \in {tx[w].locks, tx[w].locks \cup {s}} /\ IsTx(tx'[w])
  BY <1>1, <1>2, <1>4 DEF IsTx
<1>6. Moves(w)
  BY <1>1, <1>4, <1>5 DEF Moves, DoneBy, s
<1>7. Ids'
  <2>1. \A u \in Workers : tx'[u].own = tx[u].own /\ tx'[u].ids = tx[u].ids
    BY <1>4, <1>5
  <2> QED BY <1>1, <2>1, IdsFrame DEF Inv
<1>9. Locks'
  <2> SUFFICES ASSUME NEW u \in Workers, NEW z \in Workers, u # z
               PROVE  tx'[u].locks \cap tx'[z].locks = {}
    BY DEF Locks
  <2>1. tx[u].locks \cap tx[z].locks = {}
    BY DEF Inv, Locks
  <2>2. CASE u # w /\ z # w
    BY <2>1, <2>2, <1>4
  <2>3. CASE u = w
    BY <2>1, <2>3, <1>4, <1>5, <1>8
  <2>4. CASE z = w
    BY <2>1, <2>4, <1>4, <1>5, <1>8
  <2> QED BY <2>2, <2>3, <2>4
<1>10. Referred'
  BY <1>5, <1>6, ReferredFrame
<1> QED BY <1>6, <1>7, <1>9, <1>10, MoveKeeps DEF Inv

\* A written table refers to names that are visible.
LEMMA WriteKeeps ==
    ASSUME Inv, NEW w \in Workers, Write(w)
    PROVE  Inv' /\ Moves(w)
<1> DEFINE s == Stmt(w)
<1>1. /\ Open(w) /\ s.op = "write" /\ ForeignKeysHold(w) /\ Step(w)
      /\ tx' = [tx EXCEPT ![w].wrote = tx[w].wrote \cup {s.name}]
      /\ UNCHANGED <<db, cache, phase, run, mode, taken, finished, job, failed, lost, faults, shown>>
  BY DEF Write
<1>2. IsTx(tx[w]) /\ DOMAIN tx = Workers /\ s \in Statements(View(job[w]))
  BY <1>1, StmtIs DEF Inv, Process
<1>3. s = Do("write", s.name)
  BY <1>1, <1>2, StatementKinds
<1>8. \A x \in ReferredBy(s.name, View(job[w])) : Visible(w, x)
  BY <1>1 DEF ForeignKeysHold
<1> HIDE DEF s
<1>4. /\ DOMAIN tx' = Workers /\ \A u \in Workers \ {w} : tx'[u] = tx[u]
      /\ tx'[w] = [tx[w] EXCEPT !.wrote = tx[w].wrote \cup {s.name}]
  BY <1>1, <1>2
<1>5. /\ tx'[w].own = tx[w].own /\ tx'[w].ids = tx[w].ids /\ tx'[w].locks = tx[w].locks
      /\ tx'[w].wrote = tx[w].wrote \cup {s.name} /\ IsTx(tx'[w])
  BY <1>1, <1>2, <1>4 DEF IsTx
<1>6. Moves(w)
  <2>1. DoneBy(tx'[w]) = DoneBy(tx[w]) \cup {s}
    BY <1>3, <1>5 DEF DoneBy
  <2> QED BY <1>1, <1>4, <1>5, <2>1 DEF Moves, s
<1>7. Ids'
  <2>1. \A u \in Workers : tx'[u].own = tx[u].own /\ tx'[u].ids = tx[u].ids
    BY <1>4, <1>5
  <2> QED BY <1>1, <2>1, IdsFrame DEF Inv
<1>9. Locks'
  <2>1. \A u \in Workers : tx'[u].locks = tx[u].locks
    BY <1>4, <1>5
  <2> QED BY <2>1 DEF Inv, Locks
<1>10. Referred'
  <2>1. ASSUME NEW u \in Workers, Working(u), NEW t \in tx'[u].wrote, NEW x \in ReferredBy(t, View(job[u]))
        PROVE  \/ x \in DOMAIN db.dict /\ db.dict[x] = tx'[u].ids[x]
               \/ x \in DOMAIN tx'[u].own /\ tx'[u].own[x] = tx'[u].ids[x]
    <3>1. Visible(u, x)
      <4>1. CASE t \in tx[u].wrote
        BY <2>1, <4>1 DEF Inv, Referred
      <4>2. CASE t \notin tx[u].wrote
        <5>1. u = w /\ t = s.name
          BY <4>2, <1>4, <1>5
        <5> QED BY <5>1, <1>8
      <4> QED BY <4>1, <4>2
    <3>2. tx'[u].ids = tx[u].ids /\ tx'[u].own = tx[u].own
      BY <1>4, <1>5
    <3> QED BY <3>1, <3>2 DEF Visible
  <2>2. \A u \in Workers : Working(u)' <=> Working(u)
    BY <1>1 DEF Working
  <2>3. \A t : \A u \in Workers : ReferredBy(t, View(job[u]))' = ReferredBy(t, View(job[u]))
    BY <1>1 DEF View
  <2> QED BY <1>1, <2>1, <2>2, <2>3 DEF Referred, Visible
<1> QED BY <1>6, <1>7, <1>9, <1>10, MoveKeeps DEF Inv

\* A resolved name has the id that the cache has; a new one is in no other transaction.
LEMMA ResolveKeeps ==
    ASSUME Inv, NEW w \in Workers, Resolve(w)
    PROVE  Inv' /\ Moves(w)
<1> DEFINE s == Stmt(w)  x == s.name
           new == x \notin DOMAIN cache /\ x \notin DOMAIN db.dict
           id == IF x \in DOMAIN cache THEN cache[x] ELSE IF new THEN run ELSE db.dict[x]
           ids == Put(x, id, tx[w].ids)  own == IF new THEN Put(x, run, tx[w].own) ELSE tx[w].own
<1>1. /\ Open(w) /\ s.op = "resolve" /\ Step(w) /\ cache' = Put(x, id, cache)
      /\ tx' = [tx EXCEPT ![w].ids = ids, ![w].own = own]
      /\ UNCHANGED <<db, phase, run, mode, taken, finished, job, failed, lost, faults, shown>>
  BY DEF Resolve
<1>2. IsTx(tx[w]) /\ DOMAIN tx = Workers /\ s \in Statements(View(job[w]))
  BY <1>1, StmtIs DEF Inv, Process
<1>3. s = Do("resolve", x)
  BY <1>1, <1>2, StatementKinds
<1>4. phase = "running" /\ Working(w)
  BY <1>1, StmtIs, WorkerIs
<1>5. /\ \A y \in DOMAIN db.dict : y \in DOMAIN cache /\ cache[y] = db.dict[y]
      /\ \A u \in Workers : \A y \in DOMAIN tx[u].own :
            /\ y \notin DOMAIN db.dict /\ y \in DOMAIN tx[u].ids /\ tx[u].own[y] = run
            /\ cache[y] = run
      /\ \A u \in Workers : \A y \in DOMAIN tx[u].ids : y \in DOMAIN cache /\ tx[u].ids[y] = cache[y]
      /\ \A u, z \in Workers : u # z => DOMAIN tx[u].own \cap DOMAIN tx[z].own = {}
      /\ ~lost => \A y \in DOMAIN cache :
                     y \in DOMAIN db.dict \/ \E u \in Workers : y \in DOMAIN tx[u].own
  BY <1>4 DEF Inv, Ids
<1>6. /\ x \in DOMAIN cache => ~new /\ id = cache[x]
      /\ x \notin DOMAIN cache => new /\ id = run
  BY <1>5
<1> HIDE DEF s, x, new, id
<1>7. /\ DOMAIN tx' = Workers /\ \A u \in Workers \ {w} : tx'[u] = tx[u]
      /\ tx'[w] = [tx[w] EXCEPT !.ids = ids, !.own = own]
  BY <1>1, <1>2
<1> HIDE DEF ids, own
<1>8. /\ tx'[w].own = own /\ tx'[w].ids = ids /\ tx'[w].locks = tx[w].locks
      /\ tx'[w].wrote = tx[w].wrote /\ IsTx(tx'[w])
  BY <1>2, <1>7 DEF IsTx
<1>9. /\ DOMAIN ids = DOMAIN tx[w].ids \cup {x} /\ ids[x] = id
      /\ \A y \in DOMAIN tx[w].ids : ids[y] = tx[w].ids[y]
  <2>1. \A y \in DOMAIN tx[w].ids : y # x => ids[y] = tx[w].ids[y]
    BY DEF ids, Put
  <2>2. x \in DOMAIN tx[w].ids => tx[w].ids[x] = id
    BY <1>5, <1>6
  <2> QED BY <2>1, <2>2 DEF ids, Put
<1>10. /\ DOMAIN cache' = DOMAIN cache \cup {x} /\ cache'[x] = id
       /\ \A y \in DOMAIN cache : cache'[y] = cache[y]
  <2>1. \A y \in DOMAIN cache : y # x => cache'[y] = cache[y]
    BY <1>1 DEF Put
  <2> QED BY <1>1, <1>6, <2>1 DEF Put
<1>11. /\ new => DOMAIN own = DOMAIN tx[w].own \cup {x} /\ own[x] = run
       /\ ~new => DOMAIN own = DOMAIN tx[w].own
       /\ \A y \in DOMAIN tx[w].own : own[y] = tx[w].own[y]
  <2>1. x \in DOMAIN tx[w].own => ~new
    BY <1>5, <1>6
  <2> QED BY <2>1 DEF own, Put
<1>12. Moves(w)
  <2>1. DoneBy(tx'[w]) = DoneBy(tx[w]) \cup {s}
    BY <1>3, <1>8, <1>9 DEF DoneBy
  <2> QED BY <1>1, <1>7, <1>8, <2>1 DEF Moves, s
<1>13. Ids'
  <2>1. \A y \in DOMAIN db.dict : y \in DOMAIN cache' /\ cache'[y] = db.dict[y]
    BY <1>5, <1>10
  <2>2. ASSUME NEW u \in Workers, NEW y \in DOMAIN tx'[u].own
        PROVE  /\ y \notin DOMAIN db.dict /\ y \in DOMAIN tx'[u].ids /\ tx'[u].own[y] = run
               /\ cache'[y] = run
    <3>1. CASE u = w /\ y \in DOMAIN tx[w].own
      BY <3>1, <1>5, <1>8, <1>9, <1>10, <1>11
    <3>2. CASE u = w /\ y \notin DOMAIN tx[w].own
      BY <3>2, <2>2, <1>5, <1>6, <1>8, <1>9, <1>10, <1>11
    <3>3. CASE u # w
      BY <3>3, <2>2, <1>5, <1>7, <1>10
    <3> QED BY <3>1, <3>2, <3>3
  <2>3. ASSUME NEW u \in Workers, NEW y \in DOMAIN tx'[u].ids
        PROVE  y \in DOMAIN cache' /\ tx'[u].ids[y] = cache'[y]
    <3>1. CASE u = w
      BY <3>1, <2>3, <1>5, <1>8, <1>9, <1>10
    <3>2. CASE u # w
      BY <3>2, <2>3, <1>5, <1>7, <1>10
    <3> QED BY <3>1, <3>2
  <2>4. ASSUME NEW u \in Workers, NEW z \in Workers, u # z
        PROVE  DOMAIN tx'[u].own \cap DOMAIN tx'[z].own = {}
    <3>1. \A y \in Workers : x \in DOMAIN tx[y].own => ~new
      BY <1>5, <1>6
    <3>2. CASE u = w
      BY <3>1, <3>2, <2>4, <1>5, <1>7, <1>8, <1>11
    <3>3. CASE z = w
      BY <3>1, <3>3, <2>4, <1>5, <1>7, <1>8, <1>11
    <3>4. CASE u # w /\ z # w
      BY <3>4, <2>4, <1>5, <1>7
    <3> QED BY <3>2, <3>3, <3>4
  <2>5. ASSUME ~lost, NEW y \in DOMAIN cache'
        PROVE  y \in DOMAIN db.dict \/ \E u \in Workers : y \in DOMAIN tx'[u].own
    <3>1. CASE y \in DOMAIN cache
      <4>1. CASE y \in DOMAIN db.dict
        BY <4>1
      <4>2. CASE y \notin DOMAIN db.dict
        <5>1. PICK u \in Workers : y \in DOMAIN tx[u].own
          BY <2>5, <3>1, <4>2, <1>5
        <5>2. y \in DOMAIN tx'[u].own
          BY <5>1, <1>7, <1>8, <1>11
        <5> QED BY <5>2
      <4> QED BY <4>1, <4>2
    <3>2. CASE y \notin DOMAIN cache
      <4>1. y = x /\ new
        BY <2>5, <3>2, <1>6, <1>10
      <4>2. y \in DOMAIN tx'[w].own
        BY <4>1, <1>8, <1>11
      <4> QED BY <4>2
    <3> QED BY <3>1, <3>2
  <2>6. UNCHANGED <<db, phase, run, lost>>
    BY <1>1
  <2> QED BY <2>6, <2>1, <2>2, <2>3, <2>4, <2>5 DEF Ids
<1>14. Locks'
  <2>1. \A u \in Workers : tx'[u].locks = tx[u].locks
    BY <1>7, <1>8
  <2> QED BY <2>1 DEF Inv, Locks
<1>15. Referred'
  BY <1>8, <1>9, <1>11, <1>12, ReferredFrame
<1> QED BY <1>12, <1>13, <1>14, <1>15, MoveKeeps DEF Inv

-----------------------------------------------------------------------------
(* The end of a transaction and of a batch.                                 *)

\* Another worker's batch is not w's, and its view does not change.
LEMMA OthersWork ==
    ASSUME Inv, NEW w \in Workers, Working(w), NEW u \in Workers, u # w
    PROVE  job[u] # job[w] /\ tx[u].locks \cap tx[w].locks = {}
BY DEF Inv, Process, Locks, Working

\* A commit makes the ids of its transaction those of rows.
LEMMA CommitKeeps ==
    ASSUME Inv, NEW w \in Workers, Commit(w)
    PROVE  Inv'
<1>1. /\ Working(w) /\ left[w] # <<>> /\ Head(left[w]) = <<>> /\ db' = CommittedBy(w)
      /\ tx' = [tx EXCEPT ![w] = NoTx] /\ left' = [left EXCEPT ![w] = Tail(left[w])]
      /\ UNCHANGED <<cache, phase, run, mode, taken, finished, job, failed, lost, faults>>
  BY DEF Commit
<1> DEFINE v == View(job[w])  own == tx[w].own
<1>2. /\ phase = "running" /\ v \in AllViews /\ v \in ViewsOf(job[w]) /\ job[w] \in Batches
      /\ Orderly(mode, v, left[w], tx[w])
  BY <1>1, WorkerIs
<1>3. DOMAIN tx = Workers /\ DOMAIN left = Workers
  BY DEF Inv, Process
<1>4. /\ DOMAIN tx' = Workers /\ tx'[w] = NoTx /\ \A u \in Workers \ {w} : tx'[u] = tx[u]
      /\ DOMAIN left' = Workers /\ left'[w] = Tail(left[w])
      /\ \A u \in Workers \ {w} : left'[u] = left[u]
  BY <1>1, <1>3
<1>5. /\ \A y \in DOMAIN db.dict : y \in DOMAIN cache /\ cache[y] = db.dict[y]
      /\ \A u \in Workers : \A y \in DOMAIN tx[u].own :
            /\ y \notin DOMAIN db.dict /\ y \in DOMAIN tx[u].ids /\ tx[u].own[y] = run
            /\ cache[y] = run
      /\ \A u \in Workers : \A y \in DOMAIN tx[u].ids : y \in DOMAIN cache /\ tx[u].ids[y] = cache[y]
      /\ \A u, z \in Workers : u # z => DOMAIN tx[u].own \cap DOMAIN tx[z].own = {}
      /\ ~lost => \A y \in DOMAIN cache :
                     y \in DOMAIN db.dict \/ \E u \in Workers : y \in DOMAIN tx[u].own
  BY <1>2 DEF Inv, Ids
<1>6. /\ DOMAIN db'.dict = DOMAIN own \cup DOMAIN db.dict
      /\ \A y \in DOMAIN own : db'.dict[y] = own[y]
      /\ \A y \in DOMAIN db.dict : db'.dict[y] = db.dict[y]
  <2>1. db'.dict = Over(own, db.dict)
    BY <1>1 DEF CommittedBy
  <2>2. \A y \in DOMAIN db.dict : y \notin DOMAIN own
    BY <1>5
  <2> HIDE DEF own
  <2> QED BY <2>1, <2>2 DEF Over
<1>7. TablesKnown'
  <2>1. IsDB(db')
    BY <1>1 DEF CommittedBy, IsDB
  <2>2. db'.container \subseteq Batches
    BY <1>1, <1>2 DEF CommittedBy, Inv, TablesKnown
  <2>3. DoneBy(tx[w]) \subseteq Statements(v)
    BY <1>2 DEF Orderly
  <2>4. \A l \in tx[w].locks : l \in Statements(v)
    BY <2>3 DEF DoneBy
  <2>5. \A l \in tx[w].locks : l.op = "node" => l.name \in ToSet(v.nodes)
    BY <2>4, StatementKinds
  <2>6. \A l \in tx[w].locks : l.op = "flag" => l.name \in v.shared
    BY <2>4, StatementKinds
  <2>7. db'.node \subseteq AllNodes
    <3>1. ToSet(v.nodes) \subseteq AllNodes
      BY <1>2 DEF AllNodes
    <3> QED BY <1>1, <2>5, <3>1 DEF CommittedBy, Inv, TablesKnown
  <2>8. db'.flag \subseteq UNION {z.shared : z \in AllViews}
    <3>1. v.shared \subseteq UNION {z.shared : z \in AllViews}
      BY <1>2
    <3> QED BY <1>1, <2>6, <3>1 DEF CommittedBy, Inv, TablesKnown
  <2>9. DOMAIN db'.edge \subseteq AllEdges
    <3>1. EdgeIDs(v) \subseteq AllEdges
      BY <1>2 DEF AllEdges
    <3>2. DOMAIN EdgeRows(v) = EdgeIDs(v)
      BY DEF EdgeRows
    <3>3. db'.edge = db.edge \/ db'.edge = Over(EdgeRows(v), db.edge)
      BY <1>1 DEF CommittedBy
    <3>4. DOMAIN Over(EdgeRows(v), db.edge) = DOMAIN EdgeRows(v) \cup DOMAIN db.edge
      BY DEF Over
    <3> QED BY <3>1, <3>2, <3>3, <3>4 DEF Inv, TablesKnown
  <2>10. \A y \in DOMAIN db'.dict : db'.dict[y] \in 1 .. run'
    <3>1. run \in 1 .. run
      BY <1>1, WorkerIs
    <3> QED BY <1>1, <1>5, <1>6, <3>1 DEF Inv, TablesKnown
  <2> QED BY <2>1, <2>2, <2>7, <2>8, <2>9, <2>10 DEF TablesKnown
<1>8. Process'
  <2>1. Orderly(mode, v, left'[w], tx'[w])
    BY <1>1, <1>2, <1>4, OrderlyCommit
  <2>2. \A u \in Workers : IF Working(u) THEN Orderly(mode, View(job[u]), left'[u], tx'[u])
                           ELSE left'[u] = <<>> /\ tx'[u] = NoTx
    <3> SUFFICES ASSUME NEW u \in Workers
                 PROVE  IF Working(u) THEN Orderly(mode, View(job[u]), left'[u], tx'[u])
                        ELSE left'[u] = <<>> /\ tx'[u] = NoTx
      OBVIOUS
    <3>1. CASE u = w
      BY <3>1, <1>1, <2>1
    <3>2. CASE u # w
      <4>1. left'[u] = left[u] /\ tx'[u] = tx[u]
        BY <3>2, <1>4
      <4> QED BY <4>1 DEF Inv, Process
    <3> QED BY <3>1, <3>2
  <2> QED BY <1>1, <1>2, <1>4, <2>2 DEF Inv, Process, Working, View
<1> HIDE DEF own
<1>9. Ids'
  <2>1. \A y \in DOMAIN db'.dict : y \in DOMAIN cache /\ cache[y] = db'.dict[y]
    BY <1>5, <1>6 DEF own
  <2>2. ASSUME NEW u \in Workers, NEW y \in DOMAIN tx'[u].own
        PROVE  /\ u # w /\ y \notin DOMAIN db'.dict /\ y \in DOMAIN tx'[u].ids /\ tx'[u].own[y] = run
               /\ cache[y] = run
    <3>1. u # w
      BY <2>2, <1>4, NoTxIs
    <3>2. tx'[u] = tx[u]
      BY <3>1, <1>4
    <3> QED BY <2>2, <3>1, <3>2, <1>5, <1>6 DEF own
  <2>3. ASSUME NEW u \in Workers, NEW y \in DOMAIN tx'[u].ids
        PROVE  y \in DOMAIN cache /\ tx'[u].ids[y] = cache[y]
    <3>1. u # w
      BY <2>3, <1>4, NoTxIs
    <3>2. tx'[u] = tx[u]
      BY <3>1, <1>4
    <3> QED BY <2>3, <3>2, <1>5
  <2>4. ASSUME NEW u \in Workers, NEW z \in Workers, u # z
        PROVE  DOMAIN tx'[u].own \cap DOMAIN tx'[z].own = {}
    BY <2>4, <1>4, <1>5, NoTxIs
  <2>5. ASSUME ~lost, NEW y \in DOMAIN cache
        PROVE  y \in DOMAIN db'.dict \/ \E u \in Workers : y \in DOMAIN tx'[u].own
    <3>1. CASE y \in DOMAIN db.dict
      BY <3>1, <1>6
    <3>2. CASE y \notin DOMAIN db.dict
      <4>1. PICK u \in Workers : y \in DOMAIN tx[u].own
        BY <2>5, <3>2, <1>5
      <4>2. CASE u = w
        BY <4>1, <4>2, <1>6 DEF own
      <4>3. CASE u # w
        BY <4>1, <4>3, <1>4
      <4> QED BY <4>2, <4>3
    <3> QED BY <3>1, <3>2
  <2>6. UNCHANGED <<phase, run, cache, lost>>
    BY <1>1
  <2> QED BY <2>6, <2>1, <2>2, <2>3, <2>4, <2>5 DEF Ids
<1>10. Locks'
  BY <1>4, NoTxIs DEF Inv, Locks
<1>11. Referred'
  <2>1. ASSUME NEW u \in Workers, Working(u), NEW t \in tx'[u].wrote, NEW x \in ReferredBy(t, View(job[u]))
        PROVE  \/ x \in DOMAIN db'.dict /\ db'.dict[x] = tx'[u].ids[x]
               \/ x \in DOMAIN tx'[u].own /\ tx'[u].own[x] = tx'[u].ids[x]
    <3>1. u # w
      BY <2>1, <1>4, NoTxIs
    <3>2. tx'[u] = tx[u]
      BY <3>1, <1>4
    <3>3. Visible(u, x)
      BY <2>1, <3>2 DEF Inv, Referred
    <3> QED BY <3>2, <3>3, <1>6 DEF Visible
  <2>2. \A u \in Workers : Working(u)' <=> Working(u)
    BY <1>1 DEF Working
  <2>3. \A t : \A u \in Workers : ReferredBy(t, View(job[u]))' = ReferredBy(t, View(job[u]))
    BY <1>1 DEF View
  <2> QED BY <2>1, <2>2, <2>3 DEF Referred, Visible
<1> QED BY <1>7, <1>8, <1>9, <1>10, <1>11 DEF Inv

\* w has no batch any more, whether it is persisted, or rolled back.
LEMMA LeaveKeeps ==
    ASSUME Inv, NEW w \in Workers, Working(w), UNCHANGED <<db, cache, phase, run, mode, taken>>,
           DOMAIN tx' = Workers, tx'[w] = NoTx, \A u \in Workers \ {w} : tx'[u] = tx[u],
           DOMAIN left' = Workers, left'[w] = <<>>, \A u \in Workers \ {w} : left'[u] = left[u],
           NEW j \in {"none", "gone"}, job' = [job EXCEPT ![w] = j],
           finished' \in {finished, finished \cup {job[w]}},
           lost' \/ (lost' = lost /\ tx[w] = NoTx)
    PROVE  Inv'
<1>1. phase = "running" /\ Process
  BY WorkerIs DEF Inv
<1>2. /\ DOMAIN tx' = Workers /\ tx'[w] = NoTx /\ \A u \in Workers \ {w} : tx'[u] = tx[u]
      /\ DOMAIN left' = Workers /\ left'[w] = <<>> /\ \A u \in Workers \ {w} : left'[u] = left[u]
      /\ job' \in [Workers -> Batches \cup {"none", "gone"}]
      /\ job'[w] = j /\ \A u \in Workers \ {w} : job'[u] = job[u]
  BY <1>1 DEF Process
<1>3. /\ ~Working(w)' /\ \A u \in Workers \ {w} : Working(u)' <=> Working(u)
      /\ \A u \in Workers : Working(u)' => u # w
  BY <1>2 DEF Working
<1>4. TablesKnown'
  BY DEF Inv, TablesKnown
<1>5. Process'
  <2>1. job[w] \in taken
    BY DEF Inv, Process
  <2>2. finished' \subseteq taken
    BY <2>1 DEF Inv, Process
  <2>3. \A u \in Workers : Working(u)' => job'[u] \in taken \ finished'
    <3>1. ASSUME NEW u \in Workers, Working(u)' PROVE job'[u] \in taken \ finished'
      <4>1. u # w /\ Working(u) /\ job'[u] = job[u]
        BY <3>1, <1>2, <1>3
      <4>2. job[u] \in taken \ finished /\ job[u] # job[w]
        BY <4>1, OthersWork DEF Inv, Process
      <4> QED BY <4>1, <4>2
    <3> QED BY <3>1
  <2>4. \A u, z \in Workers : u # z /\ Working(u)' => job'[u] # job'[z]
    <3>1. ASSUME NEW u \in Workers, NEW z \in Workers, u # z, Working(u)' PROVE job'[u] # job'[z]
      <4>1. u # w /\ Working(u) /\ job'[u] = job[u] /\ job[u] \in Batches
        BY <3>1, <1>2, <1>3, WorkerIs
      <4>2. CASE z = w
        BY <4>1, <4>2, <1>2, PostgresAssumption
      <4>3. CASE z # w
        BY <3>1, <4>1, <4>3, <1>2 DEF Inv, Process
      <4> QED BY <4>2, <4>3
    <3> QED BY <3>1
  <2>5. \A u \in Workers : IF Working(u)' THEN Orderly(mode, View(job[u]), left'[u], tx'[u])
                           ELSE left'[u] = <<>> /\ tx'[u] = NoTx
    BY <1>1, <1>2, <1>3 DEF Process
  <2>6. \A u \in Workers : Working(u)' => job'[u] = job[u]
    BY <1>2, <1>3
  <2>7. (\A u \in Workers : IF Working(u) THEN Orderly(mode, View(job[u]), left[u], tx[u])
                            ELSE left[u] = <<>> /\ tx[u] = NoTx)'
    BY <2>5, <2>6 DEF View
  <2> QED BY <1>1, <1>2, <2>2, <2>3, <2>4, <2>7 DEF Process
<1>6. Ids'
  <2>1. \A u \in Workers : tx'[u].own = tx[u].own \/ DOMAIN tx'[u].own = {}
    BY <1>2, NoTxIs
  <2>2. \A u \in Workers : tx'[u] = tx[u] \/ (tx'[u] = NoTx /\ DOMAIN tx'[u].own = {} /\ DOMAIN tx'[u].ids = {})
    BY <1>2, NoTxIs
  <2>3. ~lost' => \A y \in DOMAIN cache :
                     y \in DOMAIN db.dict \/ \E u \in Workers : y \in DOMAIN tx'[u].own
    <3>1. ASSUME ~lost' PROVE ~lost /\ \A u \in Workers : tx'[u] = tx[u]
      BY <3>1, <1>2
    <3> QED BY <3>1 DEF Inv, Ids
  <2> QED BY <1>1, <2>1, <2>2, <2>3 DEF Inv, Ids
<1>7. Locks'
  BY <1>2, NoTxIs DEF Inv, Locks
<1>8. Referred'
  <2>1. ASSUME NEW u \in Workers, Working(u)'
        PROVE  u # w /\ Working(u) /\ tx'[u] = tx[u] /\ View(job[u])' = View(job[u]) /\ job'[u] = job[u]
    BY <2>1, <1>2, <1>3 DEF View
  <2> QED BY <2>1 DEF Inv, Referred, Visible, ReferredBy, View
<1> QED BY <1>4, <1>5, <1>6, <1>7, <1>8 DEF Inv

\* A rollback leaves its ids in the cache: some transaction was lost.
LEMMA RollBackKeeps ==
    ASSUME Inv, NEW w \in Workers, Working(w), RollBack(w)
    PROVE  Inv'
<1>1. /\ tx' = [tx EXCEPT ![w] = NoTx] /\ left' = [left EXCEPT ![w] = <<>>]
      /\ job' = [job EXCEPT ![w] = "gone"] /\ lost'
      /\ UNCHANGED <<db, cache, phase, run, mode, taken, finished>>
  BY DEF RollBack
<1>2. /\ DOMAIN tx' = Workers /\ tx'[w] = NoTx /\ \A u \in Workers \ {w} : tx'[u] = tx[u]
      /\ DOMAIN left' = Workers /\ left'[w] = <<>> /\ \A u \in Workers \ {w} : left'[u] = left[u]
  BY <1>1 DEF Inv, Process
<1> QED BY <1>1, <1>2, LeaveKeeps

\* A batch that ends has no transaction.
LEMMA EndBatchKeeps ==
    ASSUME Inv, NEW w \in Workers, EndBatch(w)
    PROVE  Inv'
<1>1. /\ Working(w) /\ left[w] = <<>> /\ finished' = finished \cup {job[w]}
      /\ job' = [job EXCEPT ![w] = "none"]
      /\ UNCHANGED <<db, cache, phase, run, mode, taken, left, tx, lost>>
  BY DEF EndBatch
<1>2. tx[w] = NoTx
  BY <1>1, WorkerIs DEF Orderly
<1>3. /\ DOMAIN tx' = Workers /\ tx'[w] = NoTx /\ \A u \in Workers \ {w} : tx'[u] = tx[u]
      /\ DOMAIN left' = Workers /\ left'[w] = <<>> /\ \A u \in Workers \ {w} : left'[u] = left[u]
  BY <1>1, <1>2 DEF Inv, Process
<1> QED BY <1>1, <1>2, <1>3, LeaveKeeps

-----------------------------------------------------------------------------
(* The pool and the process.                                                *)

\* A batch that is taken begins orderly.
LEMMA TakeBatchKeeps ==
    ASSUME Inv, NEW w \in Workers, TakeBatch(w)
    PROVE  Inv'
<1>1. PICK b \in Batches :
         /\ MayTake(b) /\ job' = [job EXCEPT ![w] = b] /\ taken' = taken \cup {b}
         /\ \E order \in SetToSeqs(View(b).shared) :
               left' = [left EXCEPT ![w] = Transactions(b, View(b), order)]
  BY DEF TakeBatch
<1>2. PICK order \in SetToSeqs(View(b).shared) :
         left' = [left EXCEPT ![w] = Transactions(b, View(b), order)]
  BY <1>1
<1>3. /\ phase = "running" /\ job[w] = "none"
      /\ UNCHANGED <<db, cache, phase, run, mode, finished, tx, failed, lost, faults, shown>>
  BY DEF TakeBatch
<1>4. /\ mode \in Modes /\ run \in Nat /\ run # 0 /\ tx[w] = NoTx /\ b \notin taken
      /\ View(b) \in AllViews
  <2>1. mode \in Modes /\ run \in Nat /\ run # 0
    BY <1>3, PostgresAssumption DEF Inv, Process
  <2>2. tx[w] = NoTx
    BY <1>3 DEF Inv, Process, Working
  <2> QED BY <1>1, <2>1, <2>2, ViewIsView DEF MayTake
<1> DEFINE q == Transactions(b, View(b), order)
<1>5. Orderly(mode, View(b), q, NoTx)
  <2>1. q \in Seq(Sound(mode, View(b), {}))
    BY <1>4, TransactionsSound
  <2> HIDE DEF q
  <2> QED BY <2>1, OrderlyBegin
<1>6. /\ DOMAIN left' = Workers /\ left'[w] = q /\ \A u \in Workers \ {w} : left'[u] = left[u]
      /\ job' \in [Workers -> Batches \cup {"none", "gone"}]
      /\ job'[w] = b /\ \A u \in Workers \ {w} : job'[u] = job[u]
  BY <1>1, <1>2 DEF Inv, Process
<1> HIDE DEF q
<1>7. \A u \in Workers \ {w} : Working(u)' <=> Working(u)
  BY <1>6 DEF Working
<1>8. TablesKnown' /\ Ids' /\ Locks'
  <2>1. TablesKnown'
    BY <1>3 DEF Inv, TablesKnown
  <2>2. Ids'
    BY <1>3, IdsFrame DEF Inv
  <2>3. Locks'
    BY <1>3 DEF Inv, Locks
  <2> QED BY <2>1, <2>2, <2>3
<1>9. Process'
  <2>1. \A u \in Workers : Working(u)' => job'[u] \in taken' \ finished'
    <3>1. b \notin finished
      BY <1>4 DEF Inv, Process
    <3> QED BY <1>1, <1>3, <1>6, <1>7, <3>1 DEF Inv, Process
  <2>2. ASSUME NEW u \in Workers, NEW z \in Workers, u # z, Working(u)' PROVE job'[u] # job'[z]
    <3>1. CASE u = w
      <4>1. job'[u] = b /\ job'[z] = job[z]
        BY <2>2, <3>1, <1>6
      <4>2. Working(z) => job[z] \in taken
        BY DEF Inv, Process
      <4>3. ~Working(z) => job[z] \in {"none", "gone"}
        BY DEF Working
      <4> QED BY <4>1, <4>2, <4>3, <1>4, PostgresAssumption
    <3>2. CASE z = w
      <4>1. job'[z] = b /\ job'[u] = job[u] /\ Working(u)
        BY <2>2, <3>2, <1>6, <1>7
      <4>2. job[u] \in taken
        BY <4>1 DEF Inv, Process
      <4> QED BY <4>1, <4>2, <1>4
    <3>3. CASE u # w /\ z # w
      <4>1. job'[z] = job[z] /\ job'[u] = job[u] /\ Working(u)
        BY <2>2, <3>3, <1>6, <1>7
      <4> QED BY <2>2, <4>1 DEF Inv, Process
    <3> QED BY <3>1, <3>2, <3>3
  <2>3. (\A u \in Workers : IF Working(u) THEN Orderly(mode, View(job[u]), left[u], tx[u])
                            ELSE left[u] = <<>> /\ tx[u] = NoTx)'
    <3>1. ASSUME NEW u \in Workers
          PROVE  (IF Working(u) THEN Orderly(mode, View(job[u]), left[u], tx[u])
                  ELSE left[u] = <<>> /\ tx[u] = NoTx)'
      <4>1. CASE u = w
        <5>1. Working(w)'
          BY <1>6, PostgresAssumption DEF Working
        <5>2. Orderly(mode, View(job[w]), left[w], tx[w])'
          BY <1>3, <1>4, <1>5, <1>6 DEF View
        <5> QED BY <4>1, <5>1, <5>2
      <4>2. CASE u # w
        <5>1. IF Working(u) THEN Orderly(mode, View(job[u]), left[u], tx[u])
              ELSE left[u] = <<>> /\ tx[u] = NoTx
          BY DEF Inv, Process
        <5>2. left'[u] = left[u] /\ tx'[u] = tx[u] /\ job'[u] = job[u]
          BY <4>2, <1>3, <1>6
        <5> QED BY <4>2, <5>1, <5>2, <1>3, <1>7 DEF View
      <4> QED BY <4>1, <4>2
    <3> QED BY <3>1
  <2>4. DOMAIN tx' = Workers /\ finished' \subseteq taken' /\ taken' \subseteq Batches
    BY <1>1, <1>3 DEF Inv, Process
  <2>5. UNCHANGED <<phase, run, mode>> /\ phase = "running"
    BY <1>3
  <2> QED BY <1>6, <2>1, <2>2, <2>3, <2>4, <2>5 DEF Inv, Process
<1>10. Referred'
  <2>1. tx'[w].wrote = {}
    BY <1>3, <1>4, NoTxIs
  <2>2. ASSUME NEW u \in Workers, u # w, Working(u)'
        PROVE  Working(u) /\ tx'[u] = tx[u] /\ View(job[u])' = View(job[u]) /\ job'[u] = job[u]
    BY <2>2, <1>3, <1>6, <1>7 DEF View
  <2> QED BY <1>3, <2>1, <2>2 DEF Inv, Referred, Visible, ReferredBy, View
<1> QED BY <1>8, <1>9, <1>10 DEF Inv

\* Nobody has a batch: what is left of the invariant.
LEMMA IdleKeeps ==
    ASSUME TablesKnown', phase' \in {"idle", "running", "done", "failed"}, run' \in 1 .. MaxRuns,
           mode' \in Modes, finished' \subseteq taken', taken' \subseteq Batches,
           job' = [w \in Workers |-> "none"], left' = [w \in Workers |-> <<>>],
           tx' = [w \in Workers |-> NoTx],
           cache' = IF phase' = "running" THEN db'.dict ELSE NoRow
    PROVE  Inv'
<1>1. \A w \in Workers : /\ job'[w] = "none" /\ left'[w] = <<>> /\ tx'[w] = NoTx
                         /\ DOMAIN tx'[w].own = {} /\ DOMAIN tx'[w].ids = {} /\ tx'[w].locks = {}
  BY NoTxIs
<1>2. \A w \in Workers : ~Working(w)'
  BY <1>1 DEF Working
<1>3. Process'
  <2>1. run' # 0 /\ run' \in 0 .. MaxRuns
    BY PostgresAssumption
  <2> QED BY <1>1, <1>2, <2>1 DEF Process
<1>4. Ids'
  <2>1. phase' # "running" => DOMAIN cache' = {}
    BY DEF NoRow
  <2> QED BY <1>1, <2>1 DEF Ids
<1>5. Locks'
  BY <1>1 DEF Locks
<1>6. Referred'
  BY <1>2 DEF Referred
<1> QED BY <1>3, <1>4, <1>5, <1>6 DEF Inv

\* While no process runs, no worker has anything.
LEMMA IdleIs ==
    ASSUME Inv, phase # "running"
    PROVE  /\ \A w \in Workers : job[w] = "none" /\ left[w] = <<>> /\ tx[w] = NoTx
           /\ job = [w \in Workers |-> "none"] /\ cache = NoRow
BY DEF Inv, Process, Working

\* The end of a process leaves nobody with anything.
LEMMA FinishRunKeeps ==
    ASSUME Inv, FinishRun
    PROVE  Inv'
<1>1. /\ phase = "running" /\ phase' = IF failed THEN "failed" ELSE "done"
      /\ cache' = NoRow /\ taken' = {} /\ finished' = {}
      /\ job' = [w \in Workers |-> "none"] /\ left' = [w \in Workers |-> <<>>]
      /\ tx' = [w \in Workers |-> NoTx] /\ UNCHANGED <<run, mode>>
      /\ db' = IF failed THEN db ELSE [db EXCEPT !.flag = {}]
  BY DEF FinishRun, EndProcess
<1>2. TablesKnown'
  <2>1. CASE failed
    BY <1>1, <2>1 DEF Inv, TablesKnown
  <2>2. CASE ~failed
    <3>1. db' = [db EXCEPT !.flag = {}]
      BY <1>1, <2>2
    <3> QED BY <1>1, <3>1 DEF Inv, TablesKnown, IsDB
  <2> QED BY <2>1, <2>2
<1>3. run' \in 1 .. MaxRuns /\ mode' \in Modes
  BY <1>1, PostgresAssumption DEF Inv, Process
<1> QED BY <1>1, <1>2, <1>3, IdleKeeps

\* So does a kill.
LEMMA KillKeeps ==
    ASSUME Inv, Kill
    PROVE  Inv'
<1>1. /\ phase = "running" /\ phase' = "failed"
      /\ cache' = NoRow /\ taken' = {} /\ finished' = {}
      /\ job' = [w \in Workers |-> "none"] /\ left' = [w \in Workers |-> <<>>]
      /\ tx' = [w \in Workers |-> NoTx] /\ UNCHANGED <<run, mode, db>>
  BY DEF Kill, EndProcess
<1>2. TablesKnown'
  BY <1>1 DEF Inv, TablesKnown
<1>3. run' \in 1 .. MaxRuns /\ mode' \in Modes
  BY <1>1, PostgresAssumption DEF Inv, Process
<1> QED BY <1>1, <1>2, <1>3, IdleKeeps

\* A run starts with the committed ids in its cache.
LEMMA StartRunKeeps ==
    ASSUME Inv, StartRun
    PROVE  Inv'
<1>1. /\ phase # "running" /\ phase' = "running" /\ mode' \in Modes /\ cache' = db'.dict
      /\ \/ run' = 1 /\ db' = EmptyDB
         \/ run < MaxRuns /\ run' = run + 1 /\ db' = [db EXCEPT !.flag = {}]
      /\ UNCHANGED <<taken, finished, job, left, tx, lost>>
  BY DEF StartRun
<1>2. run \in 0 .. MaxRuns /\ run' \in 1 .. MaxRuns
  BY <1>1, PostgresAssumption DEF Inv, Process
<1>3. TablesKnown'
  <2>1. CASE db' = EmptyDB
    <3>1. DOMAIN NoRow = {}
      BY DEF NoRow
    <3> QED BY <2>1, <3>1 DEF TablesKnown, IsDB, EmptyDB
  <2>2. CASE run' = run + 1 /\ db' = [db EXCEPT !.flag = {}]
    <3>1. \A n \in 1 .. run : n \in 1 .. run'
      BY <1>2, <2>2
    <3> QED BY <2>2, <3>1 DEF Inv, TablesKnown, IsDB
  <2> QED BY <1>1, <2>1, <2>2
<1>4. \A w \in Workers : /\ job'[w] = "none" /\ left'[w] = <<>> /\ tx'[w] = NoTx
                         /\ DOMAIN tx'[w].own = {} /\ DOMAIN tx'[w].ids = {} /\ tx'[w].locks = {}
  BY <1>1, IdleIs, NoTxIs
<1>5. \A w \in Workers : ~Working(w)'
  BY <1>4 DEF Working
<1>6. Process'
  <2>1. run' # 0 /\ run' \in 0 .. MaxRuns
    BY <1>2, PostgresAssumption
  <2>2. /\ finished' \subseteq taken' /\ taken' \subseteq Batches /\ DOMAIN left' = Workers
        /\ DOMAIN tx' = Workers /\ job' \in [Workers -> Batches \cup {"none", "gone"}]
    BY <1>1 DEF Inv, Process
  <2> QED BY <1>1, <1>4, <1>5, <2>1, <2>2 DEF Process
<1>7. Ids'
  BY <1>1, <1>4 DEF Ids
<1>8. Locks'
  BY <1>4 DEF Locks
<1>9. Referred'
  BY <1>5 DEF Referred
<1> QED BY <1>3, <1>6, <1>7, <1>8, <1>9 DEF Inv

\* A prune leaves the dictionary alone.
LEMMA DeleteContainersKeeps ==
    ASSUME Inv, NEW b \in Batches, DeleteContainers(b)
    PROVE  Inv'
<1>1. /\ phase \in {"done", "failed"} /\ phase' = "idle" /\ db' = DeleteContainersTx(db, b)
      /\ UNCHANGED <<cache, run, mode, taken, finished, job, left, tx, lost>>
  BY DEF DeleteContainers
<1>2. /\ db'.dict = db.dict /\ db'.container \subseteq db.container /\ db'.node \subseteq db.node
      /\ db'.flag = db.flag /\ DOMAIN db'.edge \subseteq DOMAIN db.edge /\ IsDB(db')
  <2>1. IsDB(db)
    BY DEF Inv, TablesKnown
  <2> QED BY <1>1, <2>1 DEF DeleteContainersTx, IsDB
<1>3. TablesKnown'
  BY <1>1, <1>2 DEF Inv, TablesKnown
<1>4. \A w \in Workers : /\ job[w] = "none" /\ left[w] = <<>> /\ tx[w] = NoTx
                         /\ DOMAIN tx[w].own = {} /\ DOMAIN tx[w].ids = {} /\ tx[w].locks = {}
  BY <1>1, IdleIs, NoTxIs
<1>5. \A w \in Workers : ~Working(w)'
  BY <1>1, <1>4 DEF Working
<1>6. cache' = NoRow /\ DOMAIN cache' = {}
  BY <1>1, IdleIs DEF NoRow
<1>7. Process'
  <2>1. /\ finished' \subseteq taken' /\ taken' \subseteq Batches /\ DOMAIN left' = Workers
        /\ DOMAIN tx' = Workers /\ job' \in [Workers -> Batches \cup {"none", "gone"}]
        /\ run' \in 0 .. MaxRuns /\ run' # 0 /\ mode' \in Modes
    BY <1>1 DEF Inv, Process
  <2> QED BY <1>1, <1>4, <1>5, <1>6, <2>1 DEF Process
<1>8. Ids'
  BY <1>1, <1>4, <1>6 DEF Ids
<1>9. Locks'
  BY <1>1, <1>4 DEF Locks
<1>10. Referred'
  BY <1>5 DEF Referred
<1> QED BY <1>3, <1>7, <1>8, <1>9, <1>10 DEF Inv

\* The initial states.
LEMMA InitHolds == ASSUME Init PROVE Inv
<1>1. \A w \in Workers : /\ job[w] = "none" /\ left[w] = <<>> /\ tx[w] = NoTx
                         /\ DOMAIN tx[w].own = {} /\ DOMAIN tx[w].ids = {} /\ tx[w].locks = {}
  BY NoTxIs DEF Init
<1>2. \A w \in Workers : ~Working(w)
  BY <1>1 DEF Working
<1>3. DOMAIN NoRow = {}
  BY DEF NoRow
<1>4. TablesKnown
  BY <1>3 DEF Init, TablesKnown, IsDB, EmptyDB
<1>5. Process
  <2>1. 0 \in 0 .. MaxRuns
    BY PostgresAssumption
  <2> QED BY <1>1, <1>2, <2>1 DEF Init, Process
<1>6. Ids
  BY <1>1, <1>3 DEF Init, Ids
<1>7. Locks
  BY <1>1 DEF Locks
<1>8. Referred
  BY <1>2 DEF Referred
<1> QED BY <1>4, <1>5, <1>6, <1>7, <1>8 DEF Inv

\* Steps of nothing.
LEMMA StutterKeeps == ASSUME Inv, UNCHANGED vars PROVE Inv'
BY DEF vars, Inv, TablesKnown, Process, Ids, Locks, Referred, Working, View, Visible, ReferredBy

\* Every step.
LEMMA StepKeeps ==
    ASSUME Inv, [Next]_vars
    PROVE  Inv'
<1>1. CASE \E w \in Workers : WorkerStep(w) \/ DeadlockError(w) \/ Fault(w)
  <2>1. PICK w \in Workers : WorkerStep(w) \/ DeadlockError(w) \/ Fault(w)
    BY <1>1
  <2>2. CASE TakeBatch(w)
    BY <2>2, TakeBatchKeeps
  <2>3. CASE UpsertNode(w)
    BY <2>3, UpsertNodeKeeps
  <2>4. CASE MarkFlag(w)
    BY <2>4, MarkFlagKeeps
  <2>5. CASE Resolve(w)
    BY <2>5, ResolveKeeps
  <2>6. CASE Write(w)
    BY <2>6, WriteKeeps
  <2>7. CASE Commit(w)
    BY <2>7, CommitKeeps
  <2>8. CASE EndBatch(w)
    BY <2>8, EndBatchKeeps
  <2>9. CASE ForeignKeyError(w)
    BY <2>9, RollBackKeeps DEF ForeignKeyError, Open
  <2>10. CASE DeadlockError(w)
    <3>1. \E u \in Workers : HeldBy(w, u)
      BY <2>10 DEF DeadlockError, Deadlocked
    <3>2. Working(w)
      BY <3>1 DEF HeldBy, Open
    <3> QED BY <2>10, <3>2, RollBackKeeps DEF DeadlockError
  <2>11. CASE Fault(w)
    BY <2>11, RollBackKeeps DEF Fault
  <2> QED BY <2>1, <2>2, <2>3, <2>4, <2>5, <2>6, <2>7, <2>8, <2>9, <2>10, <2>11 DEF WorkerStep
<1>2. CASE StartRun
  BY <1>2, StartRunKeeps
<1>3. CASE FinishRun
  BY <1>3, FinishRunKeeps
<1>4. CASE Kill
  BY <1>4, KillKeeps
<1>5. CASE \E b \in Batches : DeleteContainers(b)
  BY <1>5, DeleteContainersKeeps
<1>6. CASE UNCHANGED vars
  BY <1>6, StutterKeeps
<1> QED BY <1>1, <1>2, <1>3, <1>4, <1>5, <1>6 DEF Next

-----------------------------------------------------------------------------
(* The theorems.                                                            *)

\* The inductive invariant: what each worker has done and has left is in order, cached ids
\* are those of committed rows, of rows that one open transaction inserts or of rows that
\* were rolled back, no row is locked twice, and written rows refer to visible ids.
THEOREM TransactionsInvariant == Spec => []Inv
<1>1. Init => Inv
  BY InitHolds
<1>2. Inv /\ [Next]_vars => Inv'
  BY StepKeeps
<1> QED BY <1>1, <1>2, PTL DEF Spec

\* Every variable keeps its kind, and no two transactions hold the same row lock.
THEOREM TypesHold == Spec => []TypeOK
<1>1. Inv => TypeOK
  BY DEF Inv, TablesKnown, Process, Locks, TypeOK
<1> QED BY <1>1, TransactionsInvariant, PTL

\* PersistBatch has locked a node before it resolves its name, so the transaction that
\* inserted the name's id has ended: the foreign keys of the edge rows hold.
LEMMA LocksCover ==
    ASSUME Inv, NEW w \in Workers, mode = "batch", ~lost, Open(w), Stmt(w) = Do("write", "edges"),
           NEW x \in EdgeEnds(View(job[w]))
    PROVE  Visible(w, x)
<1> DEFINE b == job[w]  v == View(b)
<1>1. /\ Working(w) /\ phase = "running" /\ v \in AllViews /\ v \in ViewsOf(b) /\ b \in Batches
      /\ Orderly(mode, v, left[w], tx[w]) /\ IsTx(tx[w])
      /\ Needs(mode, v, Stmt(w)) \subseteq DoneBy(tx[w])
  BY StmtIs, WorkerIs
<1>2. x \in DOMAIN tx[w].ids /\ Do("resolve", x) \in DoneBy(tx[w])
  BY <1>1, NeedsOf, DoneIs
<1>3. x \in DOMAIN cache /\ tx[w].ids[x] = cache[x]
  BY <1>2 DEF Inv, Ids
<1>4. CASE x \in DOMAIN db.dict
  BY <1>1, <1>3, <1>4 DEF Inv, Ids, Visible
<1>5. CASE x \notin DOMAIN db.dict
  <2>1. PICK u \in Workers : x \in DOMAIN tx[u].own
    BY <1>3, <1>5 DEF Inv, Ids
  <2>2. x \in DOMAIN tx[u].ids /\ tx[u].own[x] = run /\ cache[x] = run
    BY <2>1 DEF Inv, Ids
  <2>3. CASE u = w
    BY <1>3, <2>1, <2>2, <2>3 DEF Visible
  <2>4. CASE u # w
    <3> DEFINE c == job[u]  z == View(c)
    <3>1. Working(u)
      <4>1. tx[u] # NoTx
        BY <2>2, NoTxIs
      <4> QED BY <4>1 DEF Inv, Process
    <3>2. /\ z \in AllViews /\ z \in ViewsOf(c) /\ c \in Batches
          /\ Orderly(mode, z, left[u], tx[u])
      BY <3>1, WorkerIs
    <3>3. c # b /\ tx[u].locks \cap tx[w].locks = {}
      BY <1>1, <2>4, OthersWork
    <3> HIDE DEF z, c, v, b
    <3>4. IsTx(tx[u]) /\ DoneBy(tx[u]) \subseteq Statements(z)
      BY <3>2 DEF Orderly
    <3>5. Do("resolve", x) \in DoneBy(tx[u])
      BY <2>2, <3>4, DoneIs
    <3>6. x \in Names(z)
      <4>1. Do("resolve", x).op = "resolve" /\ Do("resolve", x).name = x
        BY DEF Do
      <4> QED BY <3>4, <3>5, <4>1, StatementKinds
    <3>7. CASE x \in EdgeIDs(v)
      <4>1. x \notin EdgeIDs(z) \cup OwnersOf(z)
        BY <1>1, <3>2, <3>3, <3>7, NameAssumption
      <4>2. x \notin KeysOf(z) /\ x \notin ToSet(z.nodes)
        BY <1>1, <3>2, <3>7, NameAssumption
      <4>3. x \notin TerminalsOf(z)
        BY <3>2, <4>2, ViewAssumption
      <4> QED BY <3>6, <4>1, <4>2, <4>3 DEF Names, EdgeEnds
    <3>8. CASE x \in TerminalsOf(v)
      <4>1. x \in ToSet(v.nodes)
        BY <1>1, <3>8, ViewAssumption
      <4>2. x \notin EdgeIDs(z) \cup OwnersOf(z) /\ x \notin KeysOf(z)
        BY <1>1, <3>2, <4>1, NameAssumption
      <4>3. x \in TerminalsOf(z)
        BY <3>6, <4>2 DEF Names, EdgeEnds
      <4>4. /\ Do("node", x) \in Needs(mode, z, Do("resolve", x))
            /\ Do("node", x) \in Needs(mode, v, Do("resolve", x))
        BY <3>8, <4>3 DEF Needs, Do
      <4>5. Do("node", x) \in DoneBy(tx[u])
        BY <3>2, <3>5, <4>4 DEF Orderly
      <4>6. Do("node", x) \in DoneBy(tx[w])
        BY <1>1, <1>2, <4>4 DEF Orderly
      <4> QED BY <1>1, <3>3, <3>4, <4>5, <4>6, DoneIs
    <3> QED BY <3>7, <3>8 DEF EdgeEnds, v, b
  <2> QED BY <2>3, <2>4
<1> QED BY <1>4, <1>5

\* Without a rollback in the run, the foreign keys of a PersistBatch's edges always hold.
THEOREM LocksSuffice == Spec => []LocksCoverIds
<1>1. ASSUME Inv PROVE LocksCoverIds
  <2> SUFFICES ASSUME NEW w \in Workers, mode = "batch", ~lost, Open(w),
                      Stmt(w).op = "write", Stmt(w).name = "edges"
               PROVE  ForeignKeysHold(w)
    BY DEF LocksCoverIds
  <2>1. Stmt(w) = Do("write", "edges")
    BY <1>1, StmtIs, StatementKinds
  <2>2. \A x \in EdgeEnds(View(job[w])) : Visible(w, x)
    BY <1>1, <2>1, LocksCover
  <2>3. ReferredBy(Stmt(w).name, View(job[w])) = EdgeEnds(View(job[w]))
    BY DEF ReferredBy, EdgeEnds
  <2> QED BY <2>2, <2>3 DEF ForeignKeysHold
<1> QED BY <1>1, TransactionsInvariant, PTL

-----------------------------------------------------------------------------
(* What readers see: the rest of the inductive invariant.                   *)

Groups == Do("write", "groups")
Ends == UNION {TerminalsOf(u) : u \in AllViews}

\* Rows refer to ids that are in the dictionary,
Keyed(d) ==
    /\ \A p \in d.endpoint : /\ p[1][1] \in DOMAIN d.dict /\ p[2][1] \in DOMAIN d.dict
                             /\ p = <<Key(d.dict, p[1][1]), Key(d.dict, p[2][1])>>
    /\ \A r \in d.attr : /\ r[1][1] \in DOMAIN d.dict /\ r[2][1] \in DOMAIN d.dict
                         /\ r[1] = Key(d.dict, r[1][1]) /\ r[2] = Key(d.dict, r[2][1])

\* Rows name what some view names.
Named(d) ==
    /\ \A x \in DOMAIN d.equipment : /\ d.equipment[x] \in Batches
                                     /\ \E u \in ViewsOf(d.equipment[x]) : x \in EdgeIDs(u)
    /\ \A x \in DOMAIN d.edge : ToSet(d.edge[x]) \subseteq Ends
    /\ \A g \in d.group : g[1] \in Ends

EdgesStored(d, v) ==
    \A e \in EdgeIDs(v) :
       /\ e \in DOMAIN d.edge /\ d.edge[e] = EdgeRows(v)[e]
       /\ \A n \in AllNodes : e \in GetEdgesByNodeIDs(d, n) <=> n \in ToSet(d.edge[e])

\* What remains of a batch's statements once their transaction is in.
Stored(d, sh, b, v, s) ==
    /\ s = Do("write", "containers") => b \in d.container
    /\ s = Do("write", "equipment") =>
          \A x \in EdgeIDs(v) : x \in DOMAIN d.equipment /\ d.equipment[x] = b
    /\ s = Do("write", "edges") => EdgesStored(d, v)
    /\ s = Do("write", "attributes") => sh.attrs = v
    /\ s = Groups => sh.rows = v
    /\ s.op = "node" => s.name \in d.node

Required(v) == {Do("node", n) : n \in ToSet(v.nodes)}
                  \cup {Do("write", t) : t \in {"containers", "equipment", "edges", "groups"}}
                  \cup (IF OwnersOf(v) = {} THEN {} ELSE {Do("write", "attributes")})

Ahead(q) == UNION {ToSet(q[k]) : k \in 1 .. Len(q)}

\* The groups come last.
GroupsLast(q, x) ==
    /\ \A k \in 1 .. Len(q) : \A i \in 1 .. Len(q[k]) :
          q[k][i] = Groups => k = Len(q) /\ i = Len(q[k])
    /\ q # <<>> => Groups \in Ahead(q) \/ Groups \in DoneBy(x)
    /\ Groups \in DoneBy(x) => q = <<<<>>>>

\* Each statement of a batch is ahead, in the open transaction, or stored.
Due(d, sh, b, v, q, x) ==
    /\ \A s \in Required(v) : s \in Ahead(q) \/ s \in DoneBy(x) \/ Stored(d, sh, b, v, s)
    /\ GroupsLast(q, x)

Work == \A w \in Workers :
           Working(w) => Due(db, shown[job[w]], job[w], View(job[w]), left[w], tx[w])

Shows(b) == shown[b].rows = View(b) /\ (OwnersOf(View(b)) # {} => shown[b].attrs = View(b))

\* A batch that was taken is finished or has a worker, unless a worker failed.
Outcome ==
    /\ phase # "running" => taken = {} /\ finished = {} /\ ~failed
    /\ \A w \in Workers : job[w] = "gone" => failed
    /\ ~failed => \A b \in taken : b \in finished \/ \E w \in Workers : job[w] = b
    /\ \A b \in finished : Shows(b)
    /\ phase = "done" => \A b \in Batches : Shows(b)

\* What readers see of a batch is the view it shows.
Shown(d, b, sh) ==
    /\ sh.rows \in ViewsOf(b) \cup {Absent, Partial}
    /\ sh.attrs \in ViewsOf(b) \cup {Absent, Partial}
    /\ sh.rows # Partial => RowsOf(d, b, sh.rows)
    /\ sh.attrs \notin {Partial, Absent} => AttributesOf(d, sh.attrs)

Exact == DOMAIN shown = Batches /\ \A b \in Batches : Shown(db, b, shown[b])

ReadInv == Inv /\ Keyed(db) /\ Named(db) /\ Work /\ Outcome /\ Exact

-----------------------------------------------------------------------------
(* Tables: which rows a commit and a prune leave alone.                     *)

\* Names of a view, and of another batch's.
LEMMA Apart ==
    ASSUME NEW a \in Batches, NEW b \in Batches, a # b,
           NEW v \in ViewsOf(a), NEW u \in ViewsOf(b)
    PROVE  /\ v \in AllViews /\ u \in AllViews
           /\ EdgeIDs(v) \cap EdgeIDs(u) = {} /\ OwnersOf(v) \cap OwnersOf(u) = {}
           /\ EdgeIDs(v) \cap OwnersOf(u) = {} /\ a \notin OwnersOf(u)
<1>1. v \in AllViews /\ u \in AllViews
  BY DEF AllViews
<1>2. ({a} \cup EdgeIDs(v) \cup OwnersOf(v)) \cap (EdgeIDs(u) \cup OwnersOf(u)) = {}
  BY NameAssumption
<1> QED BY <1>1, <1>2

\* An absent batch has no rows,
LEMMA AbsentIs ==
    ASSUME NEW v \in {Absent, Partial}
    PROVE  EdgesOf(v) = {} /\ EdgeIDs(v) = {} /\ TerminalsOf(v) = {} /\ OwnersOf(v) = {}
<1>1. v.edges = <<>> /\ v.attrs = NoRow
  BY DEF Absent, Partial, NoView
<1>2. EdgesOf(v) = {}
  BY <1>1 DEF EdgesOf, ToSet
<1> QED BY <1>1, <1>2 DEF EdgeIDs, TerminalsOf, OwnersOf, NoRow

\* What stands for no rows is not a view.
LEMMA AbsentIsNoView ==
    /\ Absent # Partial
    /\ \A v \in AllViews : v # Absent /\ v # Partial
BY ViewAssumption DEF Absent, Partial, NoView

\* The edge row of a view's edge.
LEMMA EdgeRowIs ==
    ASSUME NEW v \in AllViews, NEW x \in EdgeIDs(v)
    PROVE  \E e \in EdgesOf(v) : /\ e.id = x /\ EdgeRows(v)[x] = <<e.t1, e.t2>>
                                 /\ ToSet(EdgeRows(v)[x]) = {e.t1, e.t2}
                                 /\ {e.t1, e.t2} \subseteq TerminalsOf(v)
                                 /\ \A f \in EdgesOf(v) : f.id = x => f = e
<1>1. PICK e \in EdgesOf(v) : e.id = x
  BY DEF EdgeIDs
<1>2. \A f \in EdgesOf(v) : f.id = x => f = e
  BY <1>1, ViewAssumption
<1>3. (CHOOSE f \in EdgesOf(v) : f.id = x) = e
  BY <1>1, <1>2
<1>4. EdgeRows(v)[x] = <<e.t1, e.t2>>
  BY <1>3 DEF EdgeRows
<1>5. ToSet(<<e.t1, e.t2>>) = {e.t1, e.t2}
  <2> DEFINE s == <<e.t1, e.t2>>
  <2>1. DOMAIN s = {1, 2} /\ s[1] = e.t1 /\ s[2] = e.t2
    OBVIOUS
  <2> HIDE DEF s
  <2>2. ToSet(s) = {e.t1, e.t2}
    BY <2>1 DEF ToSet
  <2> QED BY <2>2 DEF s
<1>6. {e.t1, e.t2} \subseteq TerminalsOf(v)
  BY DEF TerminalsOf
<1> QED BY <1>1, <1>2, <1>4, <1>5, <1>6

\* Ends of edges are nodes, and neither equipment nor owners.
LEMMA TerminalsAreNodes ==
    /\ \A v \in AllViews : TerminalsOf(v) \subseteq ToSet(v.nodes) /\ ToSet(v.nodes) \subseteq AllNodes
    /\ Ends \subseteq AllNodes
    /\ \A v \in AllViews : Ends \cap (EdgeIDs(v) \cup OwnersOf(v)) = {}
<1>1. \A v \in AllViews : TerminalsOf(v) \subseteq ToSet(v.nodes)
  BY ViewAssumption
<1>2. \A v \in AllViews : ToSet(v.nodes) \subseteq AllNodes
  BY DEF AllNodes
<1>3. Ends \subseteq AllNodes
  BY <1>1, <1>2 DEF Ends
<1>4. ASSUME NEW v \in AllViews, NEW x \in Ends PROVE x \notin EdgeIDs(v) \cup OwnersOf(v)
  <2>1. PICK u \in AllViews : x \in ToSet(u.nodes)
    BY <1>1 DEF Ends
  <2> QED BY <2>1, NameAssumption
<1> QED BY <1>1, <1>2, <1>3, <1>4

\* The dictionary grows: no id that a row has changes.
Grows(c, d) == \A x \in DOMAIN c.dict : x \in DOMAIN d.dict /\ d.dict[x] = c.dict[x]

\* An endpoint row of an old dictionary is one of the new.
LEMMA EndpointKeys ==
    ASSUME NEW c, NEW d, Keyed(c), Grows(c, d), NEW n, NEW e,
           <<Key(d.dict, n), Key(d.dict, e)>> \in c.endpoint
    PROVE  {n, e} \subseteq DOMAIN c.dict /\ Key(d.dict, n) = Key(c.dict, n) /\ Key(d.dict, e) = Key(c.dict, e)
<1> DEFINE p == <<Key(d.dict, n), Key(d.dict, e)>>
<1>1. p \in c.endpoint /\ p[1] = <<n, d.dict[n]>> /\ p[2] = <<e, d.dict[e]>>
  BY DEF Key
<1>2. p[1][1] = n /\ p[2][1] = e
  BY <1>1
<1> HIDE DEF p
<1>3. n \in DOMAIN c.dict /\ e \in DOMAIN c.dict
  BY <1>1, <1>2 DEF Keyed
<1> QED BY <1>3 DEF Grows, Key

\* Readers of an edge see no other nodes if its endpoint rows stay.
LEMMA EndpointsKept ==
    ASSUME NEW c, NEW d, Keyed(c), Grows(c, d), NEW e, e \in DOMAIN c.edge,
           e \in DOMAIN d.edge, d.edge[e] = c.edge[e], ToSet(c.edge[e]) # {},
           ToSet(c.edge[e]) \subseteq AllNodes,
           \A p : p[2][1] = e /\ p[1][1] \in AllNodes /\ (p \in c.endpoint \/ p \in d.endpoint) =>
              (p \in d.endpoint <=> p \in c.endpoint),
           \A n \in AllNodes : e \in GetEdgesByNodeIDs(c, n) <=> n \in ToSet(c.edge[e])
    PROVE  \A n \in AllNodes : e \in GetEdgesByNodeIDs(d, n) <=> n \in ToSet(d.edge[e])
<1>1. PICK m \in AllNodes : e \in GetEdgesByNodeIDs(c, m)
  OBVIOUS
<1>2. e \in DOMAIN c.dict /\ e \in DOMAIN d.dict /\ d.dict[e] = c.dict[e]
  BY <1>1 DEF GetEdgesByNodeIDs, Grows
<1>3. ASSUME NEW n \in AllNodes
      PROVE  e \in GetEdgesByNodeIDs(d, n) <=> e \in GetEdgesByNodeIDs(c, n)
  <2> DEFINE p == <<Key(d.dict, n), Key(d.dict, e)>>  q == <<Key(c.dict, n), Key(c.dict, e)>>
  <2>1. p[2][1] = e /\ p[1][1] = n
    BY DEF Key
  <2>2. p \in d.endpoint <=> p \in c.endpoint
    <3>1. p \in d.endpoint \/ p \in c.endpoint => (p \in d.endpoint <=> p \in c.endpoint)
      BY <2>1
    <3> QED BY <3>1
  <2>3. e \in GetEdgesByNodeIDs(d, n) <=> n \in DOMAIN d.dict /\ p \in d.endpoint
    BY <1>2 DEF GetEdgesByNodeIDs
  <2>4. e \in GetEdgesByNodeIDs(c, n) <=> n \in DOMAIN c.dict /\ q \in c.endpoint
    BY <1>2 DEF GetEdgesByNodeIDs
  <2>5. n \in DOMAIN c.dict => p = q /\ n \in DOMAIN d.dict
    BY <1>2 DEF Grows, Key
  <2>6. p \in c.endpoint => n \in DOMAIN c.dict
    BY EndpointKeys
  <2> HIDE DEF p, q
  <2> QED BY <2>2, <2>3, <2>4, <2>5, <2>6
<1> QED BY <1>3

\* So do the edges of a view.
LEMMA EdgesKept ==
    ASSUME NEW c, NEW d, Keyed(c), Grows(c, d), NEW v \in AllViews, EdgesStored(c, v),
           \A e \in EdgeIDs(v) : e \in DOMAIN d.edge /\ d.edge[e] = c.edge[e],
           \A e \in EdgeIDs(v) : \A p :
              p[2][1] = e /\ p[1][1] \in AllNodes => (p \in d.endpoint <=> p \in c.endpoint)
    PROVE  EdgesStored(d, v)
<1> SUFFICES ASSUME NEW e \in EdgeIDs(v)
             PROVE  /\ e \in DOMAIN d.edge /\ d.edge[e] = EdgeRows(v)[e]
                    /\ \A n \in AllNodes : e \in GetEdgesByNodeIDs(d, n) <=> n \in ToSet(d.edge[e])
  BY DEF EdgesStored
<1>1. /\ e \in DOMAIN c.edge /\ c.edge[e] = EdgeRows(v)[e]
      /\ \A n \in AllNodes : e \in GetEdgesByNodeIDs(c, n) <=> n \in ToSet(c.edge[e])
  BY DEF EdgesStored
<1>2. ToSet(c.edge[e]) # {} /\ ToSet(c.edge[e]) \subseteq AllNodes
  <2>1. PICK f \in EdgesOf(v) : ToSet(EdgeRows(v)[e]) = {f.t1, f.t2} /\ {f.t1, f.t2} \subseteq TerminalsOf(v)
    BY EdgeRowIs
  <2>2. TerminalsOf(v) \subseteq AllNodes
    BY TerminalsAreNodes
  <2> QED BY <1>1, <2>1, <2>2
<1>3. e \in DOMAIN d.edge /\ d.edge[e] = c.edge[e]
  OBVIOUS
<1>4. \A n \in AllNodes : e \in GetEdgesByNodeIDs(d, n) <=> n \in ToSet(d.edge[e])
  BY <1>1, <1>2, <1>3, EndpointsKept
<1> QED BY <1>1, <1>3, <1>4

-----------------------------------------------------------------------------
(* What a commit writes.                                                    *)

\* The names that a written table refers to have, in the dictionary, the ids that were used.
Resolved(d, ids, X) == \A x \in X : x \in DOMAIN d.dict /\ d.dict[x] = ids[x]

\* Written endpoint rows are those of the written edges.
LEMMA EndpointsExact ==
    ASSUME NEW v \in AllViews, NEW rows, NEW ids, NEW d, Resolved(d, ids, EdgeEnds(v)),
           d.endpoint = EndpointsWritten(rows, v, ids), NEW x \in EdgeIDs(v),
           x \in DOMAIN d.edge, NEW n
    PROVE  x \in GetEdgesByNodeIDs(d, n) <=> n \in ToSet(EdgeRows(v)[x])
<1>1. PICK e \in EdgesOf(v) : /\ e.id = x /\ ToSet(EdgeRows(v)[x]) = {e.t1, e.t2}
                              /\ \A f \in EdgesOf(v) : f.id = x => f = e
  BY EdgeRowIs
<1>2. /\ x \in DOMAIN d.dict /\ d.dict[x] = ids[x] /\ \A f \in EdgesOf(v) :
            /\ f.t1 \in DOMAIN d.dict /\ d.dict[f.t1] = ids[f.t1]
            /\ f.t2 \in DOMAIN d.dict /\ d.dict[f.t2] = ids[f.t2]
  BY DEF Resolved, EdgeEnds, EdgeIDs, TerminalsOf
<1>3. \A y : d.dict[y] = ids[y] => Key(d.dict, y) = Key(ids, y)
  BY DEF Key
<1> DEFINE k == Key(d.dict, n)  i == Key(d.dict, x)  p == <<k, i>>
           old == {r \in rows : r[2] \notin {Key(ids, y) : y \in EdgeIDs(v)}}
<1>4. i = Key(ids, x)
  BY <1>2, <1>3
<1>5. p \notin old
  <2>1. p[2] = i
    OBVIOUS
  <2> QED BY <1>4, <2>1
<1>6. p \in d.endpoint <=> \E f \in EdgesOf(v) : p \in {Key(ids, f.t1), Key(ids, f.t2)} \X {Key(ids, f.id)}
  <2>1. d.endpoint = old \cup EndpointsOf(v, ids)
    BY DEF EndpointsWritten
  <2> HIDE DEF old, p
  <2> QED BY <1>5, <2>1 DEF EndpointsOf
<1>7. \A f \in EdgesOf(v) : p \in {Key(ids, f.t1), Key(ids, f.t2)} \X {Key(ids, f.id)}
                            <=> k \in {Key(ids, f.t1), Key(ids, f.t2)} /\ i = Key(ids, f.id)
  <2> HIDE DEF k, i
  <2> QED OBVIOUS
<1>8. \A y : Key(ids, y) = <<y, ids[y]>>
  BY DEF Key
<1>9. k = <<n, d.dict[n]>> /\ i = <<x, d.dict[x]>>
  BY DEF Key
<1> HIDE DEF k, i, p
<1>10. \A f \in EdgesOf(v) : i = Key(ids, f.id) <=> f = e
  <2>1. \A f \in EdgesOf(v) : i = Key(ids, f.id) => x = f.id
    BY <1>8, <1>9
  <2> QED BY <1>1, <1>4, <2>1
<1>11. p \in d.endpoint <=> k = Key(ids, e.t1) \/ k = Key(ids, e.t2)
  BY <1>6, <1>7, <1>10
<1>12. /\ k = Key(ids, e.t1) <=> n = e.t1
       /\ k = Key(ids, e.t2) <=> n = e.t2
  BY <1>2, <1>8, <1>9
<1>13. x \in GetEdgesByNodeIDs(d, n) => p \in d.endpoint
  BY DEF GetEdgesByNodeIDs, k, i, p
<1>14. ASSUME n \in {e.t1, e.t2} PROVE x \in GetEdgesByNodeIDs(d, n)
  BY <1>2, <1>11, <1>12, <1>14 DEF GetEdgesByNodeIDs, k, i, p
<1> QED BY <1>1, <1>11, <1>12, <1>13, <1>14

\* The pairs of a view, as the rows name them.
LEMMA AttributesExact ==
    ASSUME NEW v \in AllViews, NEW rows, NEW ids, NEW d, Resolved(d, ids, OwnersOf(v) \cup KeysOf(v)),
           d.attr = AttributesWritten(rows, v, ids)
    PROVE  AttributesOf(d, v)
<1> SUFFICES ASSUME NEW o \in OwnersOf(v)
             PROVE  {r \in GetByOwnerIDs(d, o) : r[1] \in DOMAIN v.attrs[o]} = ValuesOf(v, o)
  BY DEF AttributesOf
<1> DEFINE pairs == UNION {{x} \X DOMAIN v.attrs[x] : x \in OwnersOf(v)}
           touched == {<<Key(ids, p[1]), Key(ids, p[2])>> : p \in pairs}
           old == {r \in rows : <<r[1], r[2]>> \notin touched}
           new(p) == LET vals == v.attrs[p[1]][p[2]]
                     IN  {<<Key(ids, p[1]), Key(ids, p[2]), i, vals[i]>> : i \in DOMAIN vals}
<1>1. d.attr = old \cup UNION {new(p) : p \in pairs}
  BY DEF AttributesWritten
<1>2. \A k \in DOMAIN v.attrs[o] : k \in KeysOf(v)
  BY DEF KeysOf
<1>3. /\ o \in DOMAIN d.dict /\ Key(d.dict, o) = Key(ids, o)
      /\ \A k \in DOMAIN v.attrs[o] : k \in DOMAIN d.dict /\ Key(d.dict, k) = Key(ids, k)
  BY <1>2 DEF Resolved, Key
<1>4. \A x, y : Key(ids, x) = Key(ids, y) => x = y
  BY DEF Key
<1>5. \A x : Key(ids, x)[1] = x
  BY DEF Key
<1>6. ASSUME NEW k \in DOMAIN v.attrs[o], NEW i \in DOMAIN v.attrs[o][k]
      PROVE  <<k, i, v.attrs[o][k][i]>> \in GetByOwnerIDs(d, o)
  <2> DEFINE p == <<o, k>>  r == <<Key(ids, p[1]), Key(ids, p[2]), i, v.attrs[p[1]][p[2]][i]>>
  <2>1. p \in pairs /\ p[1] = o /\ p[2] = k
    OBVIOUS
  <2>2. r \in new(p)
    BY <2>1
  <2>3. r \in d.attr
    <3> HIDE DEF new, r, p, pairs, old
    <3> QED BY <1>1, <2>1, <2>2
  <2>4. r[1] = Key(ids, o) /\ r[2] = Key(ids, k) /\ r[3] = i /\ r[4] = v.attrs[o][k][i]
    OBVIOUS
  <2> HIDE DEF r, p
  <2>5. r[2][1] = k
    BY <2>4, <1>5
  <2> QED BY <2>3, <2>4, <2>5, <1>3 DEF GetByOwnerIDs
<1>7. ASSUME NEW r \in d.attr, r[1] = Key(d.dict, o), r[2] = Key(d.dict, r[2][1]),
             r[2][1] \in DOMAIN v.attrs[o]
      PROVE  \E i \in DOMAIN v.attrs[o][r[2][1]] : r[3] = i /\ r[4] = v.attrs[o][r[2][1]][i]
  <2> DEFINE k == r[2][1]  p == <<o, k>>
  <2>1. p \in pairs /\ p[1] = o /\ p[2] = k
    BY <1>7
  <2>2. r[1] = Key(ids, o) /\ r[2] = Key(ids, k)
    BY <1>3, <1>7
  <2>3. <<r[1], r[2]>> \in touched
    BY <2>1, <2>2
  <2>4. \E q \in pairs : r \in new(q)
    <3> HIDE DEF new, touched, pairs, k, p
    <3> QED BY <1>1, <1>7, <2>3
  <2>5. PICK q \in pairs : r \in new(q)
    BY <2>4
  <2> HIDE DEF pairs, k, p
  <2>6. PICK i \in DOMAIN v.attrs[q[1]][q[2]] :
           r = <<Key(ids, q[1]), Key(ids, q[2]), i, v.attrs[q[1]][q[2]][i]>>
    BY <2>5
  <2>7. r[1] = Key(ids, q[1]) /\ r[2] = Key(ids, q[2]) /\ r[3] = i /\ r[4] = v.attrs[q[1]][q[2]][i]
    BY <2>6
  <2>8. q[1] = o /\ q[2] = k
    BY <2>2, <2>7, <1>4
  <2>9. k = r[2][1]
    BY DEF k
  <2> QED BY <2>6, <2>7, <2>8, <2>9
<1> HIDE DEF pairs, touched, old, new
<1>8. ASSUME NEW z \in GetByOwnerIDs(d, o), z[1] \in DOMAIN v.attrs[o]
      PROVE  z \in ValuesOf(v, o)
  <2>1. PICK r \in d.attr : /\ r[1] = Key(d.dict, o) /\ r[2] = Key(d.dict, r[2][1])
                            /\ z = <<r[2][1], r[3], r[4]>>
    BY DEF GetByOwnerIDs
  <2> DEFINE k == r[2][1]
  <2>2. z[1] = k
    BY <2>1
  <2>3. k \in DOMAIN v.attrs[o]
    BY <1>8, <2>2
  <2>4. PICK i \in DOMAIN v.attrs[o][k] : r[3] = i /\ r[4] = v.attrs[o][k][i]
    BY <1>7, <2>1, <2>3
  <2>5. z = <<k, i, v.attrs[o][k][i]>>
    BY <2>1, <2>4
  <2> HIDE DEF k
  <2> QED BY <2>3, <2>5 DEF ValuesOf
<1>9. ASSUME NEW z \in ValuesOf(v, o)
      PROVE  z \in GetByOwnerIDs(d, o) /\ z[1] \in DOMAIN v.attrs[o]
  <2>1. PICK k \in DOMAIN v.attrs[o] : z \in {<<k, i, v.attrs[o][k][i]>> : i \in DOMAIN v.attrs[o][k]}
    BY DEF ValuesOf
  <2>2. PICK i \in DOMAIN v.attrs[o][k] : z = <<k, i, v.attrs[o][k][i]>>
    BY <2>1
  <2>3. z[1] = k
    BY <2>2
  <2> QED BY <1>6, <2>2, <2>3
<1> QED BY <1>8, <1>9

\* Rows of an owner that stay are read as before.
LEMMA AttributesKept ==
    ASSUME NEW c, NEW d, Keyed(c), Grows(c, d), NEW v, AttributesOf(c, v),
           \A o \in OwnersOf(v) : \A r : r[1][1] = o => (r \in d.attr <=> r \in c.attr)
    PROVE  AttributesOf(d, v)
<1> SUFFICES ASSUME NEW o \in OwnersOf(v)
             PROVE  GetByOwnerIDs(d, o) = GetByOwnerIDs(c, o)
  BY DEF AttributesOf
<1>1. ASSUME NEW r, r \in c.attr \/ r \in d.attr, r[1][1] = o
      PROVE  /\ r \in d.attr <=> r \in c.attr
             /\ o \in DOMAIN c.dict /\ r[2][1] \in DOMAIN c.dict
             /\ r[1] = Key(c.dict, o) /\ r[1] = Key(d.dict, o)
             /\ r[2] = Key(c.dict, r[2][1]) /\ r[2] = Key(d.dict, r[2][1])
             /\ o \in DOMAIN d.dict /\ r[2][1] \in DOMAIN d.dict
  <2>1. r \in c.attr /\ r \in d.attr
    BY <1>1
  <2>2. /\ o \in DOMAIN c.dict /\ r[2][1] \in DOMAIN c.dict
        /\ r[1] = Key(c.dict, o) /\ r[2] = Key(c.dict, r[2][1])
    BY <1>1, <2>1 DEF Keyed
  <2> QED BY <2>1, <2>2 DEF Grows, Key
<1>2. \A r : r[1] = Key(c.dict, o) \/ r[1] = Key(d.dict, o) => r[1][1] = o
  BY DEF Key
<1>3. ASSUME NEW z \in GetByOwnerIDs(d, o) PROVE z \in GetByOwnerIDs(c, o)
  <2>1. PICK r \in d.attr : /\ {o, r[2][1]} \subseteq DOMAIN d.dict
                            /\ r[1] = Key(d.dict, o) /\ r[2] = Key(d.dict, r[2][1])
                            /\ z = <<r[2][1], r[3], r[4]>>
    BY DEF GetByOwnerIDs
  <2> QED BY <2>1, <1>1, <1>2 DEF GetByOwnerIDs
<1>4. ASSUME NEW z \in GetByOwnerIDs(c, o) PROVE z \in GetByOwnerIDs(d, o)
  <2>1. PICK r \in c.attr : /\ {o, r[2][1]} \subseteq DOMAIN c.dict
                            /\ r[1] = Key(c.dict, o) /\ r[2] = Key(c.dict, r[2][1])
                            /\ z = <<r[2][1], r[3], r[4]>>
    BY DEF GetByOwnerIDs
  <2> QED BY <2>1, <1>1, <1>2 DEF GetByOwnerIDs
<1> QED BY <1>3, <1>4

\* Names that w's transaction refers to have the ids it used, once it is in.
LEMMA CommitResolves ==
    ASSUME Inv, NEW w \in Workers, Commit(w)
    PROVE  /\ Grows(db, db')
           /\ \A t \in tx[w].wrote : Resolved(db', tx[w].ids, ReferredBy(t, View(job[w])))
<1>1. Working(w) /\ db'.dict = Over(tx[w].own, db.dict)
  BY DEF Commit, CommittedBy
<1>2. \A y \in DOMAIN tx[w].own : y \notin DOMAIN db.dict
  BY DEF Inv, Ids
<1>3. /\ DOMAIN db'.dict = DOMAIN tx[w].own \cup DOMAIN db.dict
      /\ \A y \in DOMAIN tx[w].own : db'.dict[y] = tx[w].own[y]
      /\ \A y \in DOMAIN db.dict : db'.dict[y] = db.dict[y]
  BY <1>1, <1>2 DEF Over
<1>4. ASSUME NEW t \in tx[w].wrote, NEW x \in ReferredBy(t, View(job[w]))
      PROVE  x \in DOMAIN db'.dict /\ db'.dict[x] = tx[w].ids[x]
  <2>1. Visible(w, x)
    BY <1>1, <1>4 DEF Inv, Referred
  <2> QED BY <1>3, <2>1 DEF Visible
<1> QED BY <1>3, <1>4 DEF Grows, Resolved

\* What each table has after the commit.
LEMMA CommitTables ==
    ASSUME Inv, NEW w \in Workers, Commit(w)
    PROVE  LET b == job[w]
               v == View(b)
               wrote == tx[w].wrote
           IN  /\ db'.container = IF "containers" \in wrote THEN db.container \cup {b} ELSE db.container
               /\ db'.equipment = IF "equipment" \in wrote THEN Over([x \in EdgeIDs(v) |-> b], db.equipment)
                                  ELSE db.equipment
               /\ db'.edge = IF "edges" \in wrote THEN Over(EdgeRows(v), db.edge) ELSE db.edge
               /\ db'.endpoint = IF "edges" \in wrote THEN EndpointsWritten(db.endpoint, v, tx[w].ids)
                                 ELSE db.endpoint
               /\ db'.attr = IF "attributes" \in wrote THEN AttributesWritten(db.attr, v, tx[w].ids)
                             ELSE db.attr
               /\ db'.group = IF "groups" \in wrote
                              THEN {g \in db.group : g[2] # GroupOwner(b)} \cup GroupsOf(b, v) ELSE db.group
               /\ db.node \subseteq db'.node
               /\ \A n : Do("node", n) \in tx[w].locks => n \in db'.node
<1>1. db' = CommittedBy(w)
  BY DEF Commit
<1>2. ASSUME NEW n, Do("node", n) \in tx[w].locks PROVE n \in db'.node
  <2>1. Do("node", n).op = "node" /\ Do("node", n).name = n
    BY DEF Do
  <2> QED BY <1>1, <1>2, <2>1 DEF CommittedBy
<1> QED BY <1>1, <1>2 DEF CommittedBy

\* An endpoint row that a commit writes, and one it removes.
LEMMA EndpointsWrittenAre ==
    ASSUME NEW rows, NEW v, NEW ids, NEW p
    PROVE  /\ p \in EndpointsWritten(rows, v, ids) => p \in rows \/ p \in EndpointsOf(v, ids)
           /\ p \in EndpointsOf(v, ids) =>
                 \E e \in EdgesOf(v), t \in TerminalsOf(v) : p = <<Key(ids, t), Key(ids, e.id)>>
           /\ p \in EndpointsOf(v, ids) => p \in EndpointsWritten(rows, v, ids) /\ p[2][1] \in EdgeIDs(v)
           /\ p \in rows /\ p[2][1] \notin EdgeIDs(v) => p \in EndpointsWritten(rows, v, ids)
<1>1. ASSUME p \in EndpointsOf(v, ids)
      PROVE  \E e \in EdgesOf(v), t \in TerminalsOf(v) : p = <<Key(ids, t), Key(ids, e.id)>>
  <2>1. PICK e \in EdgesOf(v) : p \in {Key(ids, e.t1), Key(ids, e.t2)} \X {Key(ids, e.id)}
    BY <1>1 DEF EndpointsOf
  <2>2. e.t1 \in TerminalsOf(v) /\ e.t2 \in TerminalsOf(v)
    BY DEF TerminalsOf
  <2>3. p = <<Key(ids, e.t1), Key(ids, e.id)>> \/ p = <<Key(ids, e.t2), Key(ids, e.id)>>
    BY <2>1
  <2> QED BY <2>2, <2>3
<1>2. ASSUME p \in EndpointsOf(v, ids) PROVE p[2][1] \in EdgeIDs(v)
  <2>1. PICK e \in EdgesOf(v), t \in TerminalsOf(v) : p = <<Key(ids, t), Key(ids, e.id)>>
    BY <1>1, <1>2
  <2>2. p[2] = Key(ids, e.id)
    BY <2>1
  <2>3. p[2][1] = e.id
    BY <2>2 DEF Key
  <2> QED BY <2>3 DEF EdgeIDs
<1>3. \A y : Key(ids, y)[1] = y
  BY DEF Key
<1>4. p[2][1] \notin EdgeIDs(v) => p[2] \notin {Key(ids, y) : y \in EdgeIDs(v)}
  BY <1>3
<1> QED BY <1>1, <1>2, <1>4 DEF EndpointsWritten

\* An attribute row that a commit writes or removes is of an owner of the view.
LEMMA AttributesWrittenAre ==
    ASSUME NEW rows, NEW v, NEW ids, NEW r
    PROVE  /\ r \in AttributesWritten(rows, v, ids) =>
                 \/ r \in rows
                 \/ \E o \in OwnersOf(v), k \in KeysOf(v) : r[1] = Key(ids, o) /\ r[2] = Key(ids, k)
           /\ r[1][1] \notin OwnersOf(v) => (r \in AttributesWritten(rows, v, ids) <=> r \in rows)
<1> DEFINE pairs == UNION {{x} \X DOMAIN v.attrs[x] : x \in OwnersOf(v)}
           touched == {<<Key(ids, p[1]), Key(ids, p[2])>> : p \in pairs}
           old == {z \in rows : <<z[1], z[2]>> \notin touched}
           new(p) == LET vals == v.attrs[p[1]][p[2]]
                     IN  {<<Key(ids, p[1]), Key(ids, p[2]), i, vals[i]>> : i \in DOMAIN vals}
<1>1. AttributesWritten(rows, v, ids) = old \cup UNION {new(p) : p \in pairs}
  BY DEF AttributesWritten
<1>2. ASSUME NEW p \in pairs PROVE p[1] \in OwnersOf(v) /\ p[2] \in KeysOf(v)
  <2>1. PICK x \in OwnersOf(v) : p \in {x} \X DOMAIN v.attrs[x]
    OBVIOUS
  <2>2. p[1] = x /\ p[2] \in DOMAIN v.attrs[x]
    BY <2>1
  <2> QED BY <2>2 DEF KeysOf
<1>3. ASSUME NEW p \in pairs, r \in new(p) PROVE r[1] = Key(ids, p[1]) /\ r[2] = Key(ids, p[2])
  <2>1. PICK i : r = <<Key(ids, p[1]), Key(ids, p[2]), i, v.attrs[p[1]][p[2]][i]>>
    BY <1>3
  <2> QED BY <2>1
<1>4. \A y : Key(ids, y)[1] = y
  BY DEF Key
<1>5. r[1][1] \notin OwnersOf(v) => <<r[1], r[2]>> \notin touched
  <2>1. ASSUME NEW p \in pairs, <<r[1], r[2]>> = <<Key(ids, p[1]), Key(ids, p[2])>>
        PROVE  r[1][1] \in OwnersOf(v)
    <3>1. r[1] = Key(ids, p[1])
      BY <2>1
    <3> QED BY <3>1, <1>2, <1>4
  <2> HIDE DEF pairs
  <2> QED BY <2>1
<1>6. ASSUME r \in UNION {new(p) : p \in pairs}
      PROVE  \E o \in OwnersOf(v), k \in KeysOf(v) : r[1] = Key(ids, o) /\ r[2] = Key(ids, k)
  <2>1. PICK p \in pairs : r \in new(p)
    BY <1>6
  <2> HIDE DEF pairs, new
  <2> QED BY <2>1, <1>2, <1>3
<1>7. r \in UNION {new(p) : p \in pairs} => r[1][1] \in OwnersOf(v)
  BY <1>4, <1>6
<1>8. r \in old <=> r \in rows /\ <<r[1], r[2]>> \notin touched
  OBVIOUS
<1> HIDE DEF pairs, touched, old, new
<1> QED BY <1>1, <1>5, <1>6, <1>7, <1>8

\* A commit refers to ids of the dictionary,
LEMMA CommitKeyed ==
    ASSUME Inv, Keyed(db), NEW w \in Workers, Commit(w)
    PROVE  Keyed(db')
<1> DEFINE v == View(job[w])  ids == tx[w].ids
<1>1. Grows(db, db') /\ \A t \in tx[w].wrote : Resolved(db', ids, ReferredBy(t, v))
  BY CommitResolves
<1>2. \A x, y : x \in DOMAIN y.dict => Key(y.dict, x) = <<x, y.dict[x]>>
  BY DEF Key
<1>3. ASSUME NEW p \in db'.endpoint
      PROVE  /\ p[1][1] \in DOMAIN db'.dict /\ p[2][1] \in DOMAIN db'.dict
             /\ p = <<Key(db'.dict, p[1][1]), Key(db'.dict, p[2][1])>>
  <2>1. CASE p \in db.endpoint
    BY <1>1, <2>1 DEF Keyed, Grows, Key
  <2>2. CASE p \notin db.endpoint
    <3>1. "edges" \in tx[w].wrote /\ p \in EndpointsWritten(db.endpoint, v, ids)
      BY <1>3, <2>2, CommitTables
    <3>2. p \in EndpointsOf(v, ids)
      BY <2>2, <3>1, EndpointsWrittenAre
    <3>3. PICK e \in EdgesOf(v), t \in TerminalsOf(v) : p = <<Key(ids, t), Key(ids, e.id)>>
      BY <3>2, EndpointsWrittenAre
    <3>4. e.id \in ReferredBy("edges", v) /\ t \in ReferredBy("edges", v)
      BY DEF ReferredBy, EdgeIDs
    <3>5. /\ e.id \in DOMAIN db'.dict /\ db'.dict[e.id] = ids[e.id]
          /\ t \in DOMAIN db'.dict /\ db'.dict[t] = ids[t]
      BY <1>1, <3>1, <3>4 DEF Resolved
    <3>6. Key(ids, t) = Key(db'.dict, t) /\ Key(ids, e.id) = Key(db'.dict, e.id)
      BY <3>5 DEF Key
    <3>7. p[1] = Key(ids, t) /\ p[2] = Key(ids, e.id)
      BY <3>3
    <3>8. p[1][1] = t /\ p[2][1] = e.id
      BY <3>7 DEF Key
    <3> QED BY <3>3, <3>5, <3>6, <3>8
  <2> QED BY <2>1, <2>2
<1>4. ASSUME NEW r \in db'.attr
      PROVE  /\ r[1][1] \in DOMAIN db'.dict /\ r[2][1] \in DOMAIN db'.dict
             /\ r[1] = Key(db'.dict, r[1][1]) /\ r[2] = Key(db'.dict, r[2][1])
  <2>1. CASE r \in db.attr
    BY <1>1, <2>1 DEF Keyed, Grows, Key
  <2>2. CASE r \notin db.attr
    <3>1. "attributes" \in tx[w].wrote /\ r \in AttributesWritten(db.attr, v, ids)
      BY <1>4, <2>2, CommitTables
    <3>2. PICK o \in OwnersOf(v), k \in KeysOf(v) : r[1] = Key(ids, o) /\ r[2] = Key(ids, k)
      BY <2>2, <3>1, AttributesWrittenAre
    <3>3. o \in ReferredBy("attributes", v) /\ k \in ReferredBy("attributes", v)
      BY DEF ReferredBy
    <3>4. /\ o \in DOMAIN db'.dict /\ db'.dict[o] = ids[o]
          /\ k \in DOMAIN db'.dict /\ db'.dict[k] = ids[k]
      BY <1>1, <3>1, <3>3 DEF Resolved
    <3> QED BY <3>2, <3>4 DEF Key
  <2> QED BY <2>1, <2>2
<1> QED BY <1>3, <1>4 DEF Keyed

\* The rows a commit adds name what some view names.
LEMMA CommitNamed ==
    ASSUME Inv, Named(db), NEW w \in Workers, Commit(w)
    PROVE  Named(db')
<1> DEFINE b == job[w]  v == View(b)
<1>1. Working(w) /\ b \in Batches /\ v \in AllViews /\ v \in ViewsOf(b)
  BY WorkerIs DEF Commit
<1>2. ASSUME NEW x \in DOMAIN db'.equipment
      PROVE  /\ db'.equipment[x] \in Batches
             /\ \E u \in ViewsOf(db'.equipment[x]) : x \in EdgeIDs(u)
  <2> DEFINE rows == [y \in EdgeIDs(v) |-> b]
  <2>1. db'.equipment = db.equipment \/ db'.equipment = Over(rows, db.equipment)
    BY CommitTables
  <2>2. CASE db'.equipment = db.equipment
    BY <2>2, <1>2 DEF Named
  <2>3. CASE db'.equipment = Over(rows, db.equipment) /\ x \in EdgeIDs(v)
    <3>1. db'.equipment[x] = b
      BY <2>3 DEF Over
    <3> QED BY <3>1, <2>3, <1>1
  <2>4. CASE db'.equipment = Over(rows, db.equipment) /\ x \notin EdgeIDs(v)
    <3>1. x \in DOMAIN db.equipment /\ db'.equipment[x] = db.equipment[x]
      BY <2>4, <1>2 DEF Over
    <3> QED BY <3>1 DEF Named
  <2> QED BY <2>1, <2>2, <2>3, <2>4
<1>3. ASSUME NEW x \in DOMAIN db'.edge PROVE ToSet(db'.edge[x]) \subseteq Ends
  <2> DEFINE rows == EdgeRows(v)
  <2>1. db'.edge = db.edge \/ db'.edge = Over(rows, db.edge)
    BY CommitTables
  <2>2. DOMAIN rows = EdgeIDs(v)
    BY DEF EdgeRows
  <2> HIDE DEF rows
  <2>3. CASE db'.edge = db.edge
    BY <2>3, <1>3 DEF Named
  <2>4. CASE db'.edge = Over(rows, db.edge) /\ x \in EdgeIDs(v)
    <3>1. db'.edge[x] = rows[x]
      BY <2>2, <2>4 DEF Over
    <3>2. ToSet(rows[x]) \subseteq TerminalsOf(v)
      BY <1>1, <2>4, EdgeRowIs DEF rows
    <3> QED BY <1>1, <3>1, <3>2 DEF Ends
  <2>5. CASE db'.edge = Over(rows, db.edge) /\ x \notin EdgeIDs(v)
    <3>1. x \in DOMAIN db.edge /\ db'.edge[x] = db.edge[x]
      BY <2>2, <2>5, <1>3 DEF Over
    <3> QED BY <3>1 DEF Named
  <2> QED BY <2>1, <2>3, <2>4, <2>5
<1>4. ASSUME NEW g \in db'.group PROVE g[1] \in Ends
  <2>1. g \in db.group \/ g \in GroupsOf(b, v)
    BY CommitTables
  <2>2. CASE g \in db.group
    BY <2>2 DEF Named
  <2>3. CASE g \in GroupsOf(b, v)
    <3>1. g[1] \in TerminalsOf(v)
      BY <2>3 DEF GroupsOf
    <3> QED BY <1>1, <3>1 DEF Ends
  <2> QED BY <2>1, <2>2, <2>3
<1> QED BY <1>2, <1>3, <1>4 DEF Named

-----------------------------------------------------------------------------
(* What a step leaves to the readers of a batch.                            *)

\* Of d, readers of b see what they saw of c.
RowsStay(c, d, b) ==
    /\ b \in d.container <=> b \in c.container
    /\ \A x : (x \in DOMAIN d.equipment /\ d.equipment[x] = b)
              <=> (x \in DOMAIN c.equipment /\ c.equipment[x] = b)
    /\ \A g : g[2] = GroupOwner(b) => (g \in d.group <=> g \in c.group)
    /\ \A v \in ViewsOf(b) : EdgesStored(c, v) =>
          EdgesStored(d, v) /\ (TerminalsOf(v) \subseteq c.node => TerminalsOf(v) \subseteq d.node)

AttributesStay(c, d, b) == \A v \in ViewsOf(b) : AttributesOf(c, v) => AttributesOf(d, v)

\* Rows that stay show the same view.
LEMMA RowsKept ==
    ASSUME NEW c, NEW d, NEW b \in Batches, RowsStay(c, d, b),
           NEW v \in ViewsOf(b) \cup {Absent}, RowsOf(c, b, v)
    PROVE  RowsOf(d, b, v)
<1>1. EdgesStored(c, v) /\ TerminalsOf(v) \subseteq c.node
  BY DEF RowsOf, EdgesStored
<1>2. EdgesStored(d, v) /\ TerminalsOf(v) \subseteq d.node
  <2>1. CASE v = Absent
    <3>1. EdgeIDs(v) = {} /\ TerminalsOf(v) = {}
      BY <2>1, AbsentIs
    <3> QED BY <3>1 DEF EdgesStored
  <2>2. CASE v \in ViewsOf(b)
    BY <1>1, <2>2 DEF RowsStay
  <2> QED BY <2>1, <2>2
<1>3. {x \in DOMAIN d.equipment : d.equipment[x] = b} = {x \in DOMAIN c.equipment : c.equipment[x] = b}
  BY DEF RowsStay
<1>4. {g \in d.group : g[2] = GroupOwner(b)} = {g \in c.group : g[2] = GroupOwner(b)}
  BY DEF RowsStay
<1>5. b \in d.container <=> b \in c.container
  BY DEF RowsStay
<1> QED BY <1>2, <1>3, <1>4, <1>5 DEF RowsOf, EdgesStored

\* What readers see of a batch stays when its rows and its attributes do.
LEMMA ShownKept ==
    ASSUME NEW c, NEW d, NEW b \in Batches, RowsStay(c, d, b), AttributesStay(c, d, b),
           NEW sh, Shown(c, b, sh)
    PROVE  Shown(d, b, sh)
<1>1. sh.rows # Partial => RowsOf(d, b, sh.rows)
  BY RowsKept DEF Shown
<1>2. sh.attrs \notin {Partial, Absent} => AttributesOf(d, sh.attrs)
  BY DEF Shown, AttributesStay
<1> QED BY <1>1, <1>2 DEF Shown

\* No two batches own the same groups.
LEMMA GroupOwners ==
    ASSUME NEW a, NEW b, GroupOwner(a) = GroupOwner(b)
    PROVE  a = b
BY DEF GroupOwner

\* A batch's groups are of its terminals.
LEMMA GroupsOfIs ==
    ASSUME NEW b, NEW v, NEW g \in GroupsOf(b, v)
    PROVE  g[1] \in TerminalsOf(v) /\ g[2] = GroupOwner(b)
BY DEF GroupsOf

\* A commit of another batch.
LEMMA CommitOthers ==
    ASSUME Inv, Keyed(db), Named(db), NEW w \in Workers, Commit(w),
           NEW b \in Batches, b # job[w]
    PROVE  RowsStay(db, db', b) /\ AttributesStay(db, db', b)
<1> DEFINE a == job[w]  u == View(a)  ids == tx[w].ids
<1>1. Working(w) /\ a \in Batches /\ u \in AllViews /\ u \in ViewsOf(a)
  BY WorkerIs DEF Commit
<1>2. Grows(db, db')
  BY CommitResolves
<1>3. ASSUME NEW v \in ViewsOf(b)
      PROVE  /\ v \in AllViews /\ EdgeIDs(v) \cap EdgeIDs(u) = {} /\ OwnersOf(v) \cap OwnersOf(u) = {}
  BY <1>1, Apart
<1>4. ASSUME NEW x
      PROVE  (x \in DOMAIN db'.equipment /\ db'.equipment[x] = b)
             <=> (x \in DOMAIN db.equipment /\ db.equipment[x] = b)
  <2> DEFINE rows == [y \in EdgeIDs(u) |-> a]
  <2>1. db'.equipment = db.equipment \/ db'.equipment = Over(rows, db.equipment)
    BY CommitTables
  <2>2. ASSUME db'.equipment = Over(rows, db.equipment), x \in EdgeIDs(u)
        PROVE  db'.equipment[x] = a /\ ~(x \in DOMAIN db.equipment /\ db.equipment[x] = b)
    <3>1. db'.equipment[x] = a
      BY <2>2 DEF Over
    <3>2. ASSUME x \in DOMAIN db.equipment, db.equipment[x] = b PROVE FALSE
      <4>1. PICK v \in ViewsOf(b) : x \in EdgeIDs(v)
        BY <3>2 DEF Named
      <4> QED BY <2>2, <4>1, <1>3
    <3> QED BY <3>1, <3>2
  <2>3. ASSUME db'.equipment = Over(rows, db.equipment), x \notin EdgeIDs(u)
        PROVE  /\ x \in DOMAIN db'.equipment <=> x \in DOMAIN db.equipment
               /\ x \in DOMAIN db.equipment => db'.equipment[x] = db.equipment[x]
    BY <2>3 DEF Over
  <2> QED BY <2>1, <2>2, <2>3
<1>5. b \in db'.container <=> b \in db.container
  <2>1. db'.container = db.container \/ db'.container = db.container \cup {a}
    BY CommitTables
  <2> QED BY <2>1
<1>6. ASSUME NEW g, g[2] = GroupOwner(b) PROVE g \in db'.group <=> g \in db.group
  <2>1. \/ db'.group = db.group
        \/ db'.group = {z \in db.group : z[2] # GroupOwner(a)} \cup GroupsOf(a, u)
    BY CommitTables
  <2>2. GroupOwner(a) # GroupOwner(b)
    BY GroupOwners
  <2>3. g \notin GroupsOf(a, u)
    BY <1>6, <2>2, GroupsOfIs
  <2> QED BY <1>6, <2>1, <2>2, <2>3
<1>7. ASSUME NEW v \in ViewsOf(b), EdgesStored(db, v) PROVE EdgesStored(db', v)
  <2>1. ASSUME NEW e \in EdgeIDs(v) PROVE e \in DOMAIN db'.edge /\ db'.edge[e] = db.edge[e]
    <3>1. e \in DOMAIN db.edge /\ e \notin EdgeIDs(u)
      BY <1>3, <1>7 DEF EdgesStored
    <3>2. DOMAIN EdgeRows(u) = EdgeIDs(u)
      BY DEF EdgeRows
    <3>3. db'.edge = db.edge \/ db'.edge = Over(EdgeRows(u), db.edge)
      BY CommitTables
    <3> QED BY <3>1, <3>2, <3>3 DEF Over
  <2>2. ASSUME NEW e \in EdgeIDs(v), NEW p, p[2][1] = e, p[1][1] \in AllNodes
        PROVE  p \in db'.endpoint <=> p \in db.endpoint
    <3>1. db'.endpoint = db.endpoint \/ db'.endpoint = EndpointsWritten(db.endpoint, u, ids)
      BY CommitTables
    <3>2. p[2][1] \notin EdgeIDs(u)
      BY <1>3, <2>2
    <3> QED BY <3>1, <3>2, EndpointsWrittenAre
  <2> QED BY <1>2, <1>3, <1>7, <2>1, <2>2, EdgesKept
<1>8. db.node \subseteq db'.node
  BY CommitTables
<1>9. ASSUME NEW v \in ViewsOf(b), AttributesOf(db, v) PROVE AttributesOf(db', v)
  <2>1. ASSUME NEW o \in OwnersOf(v), NEW r, r[1][1] = o PROVE r \in db'.attr <=> r \in db.attr
    <3>1. db'.attr = db.attr \/ db'.attr = AttributesWritten(db.attr, u, ids)
      BY CommitTables
    <3>2. r[1][1] \notin OwnersOf(u)
      BY <1>3, <2>1
    <3> QED BY <3>1, <3>2, AttributesWrittenAre
  <2> QED BY <1>2, <1>9, <2>1, AttributesKept
<1> HIDE DEF a
<1>10. RowsStay(db, db', b)
  BY <1>4, <1>5, <1>6, <1>7, <1>8 DEF RowsStay
<1> QED BY <1>9, <1>10 DEF AttributesStay

\* A commit of the batch itself: what its transaction did is stored,
LEMMA CommitStores ==
    ASSUME Inv, Keyed(db), NEW w \in Workers, Commit(w), NEW s \in Required(View(job[w])),
           \/ s \in DoneBy(tx[w])
           \/ s # Groups /\ Stored(db, shown[job[w]], job[w], View(job[w]), s)
    PROVE  Stored(db', ShownAfter(job[w], w), job[w], View(job[w]), s)
<1> DEFINE b == job[w]  v == View(b)  wrote == tx[w].wrote  ids == tx[w].ids  sh == ShownAfter(b, w)
<1>1. /\ Working(w) /\ b \in Batches /\ v \in AllViews /\ v \in ViewsOf(b)
      /\ Orderly(mode, v, left[w], tx[w])
  BY WorkerIs DEF Commit
<1>2. IsTx(tx[w])
  BY <1>1 DEF Orderly
<1>3. \A t : Do("write", t) \in DoneBy(tx[w]) => t \in wrote
  BY <1>2, DoneIs
<1>4. Grows(db, db') /\ \A t \in wrote : Resolved(db', ids, ReferredBy(t, v))
  BY CommitResolves
<1>5. \A t, n : Do("write", t) # Do("node", n) /\ Do("write", t).op = "write"
  BY DEF Do
<1>6. \A t, x : Do("write", t) = Do("write", x) => t = x
  BY DEF Do
<1>7. CASE s = Do("write", "containers")
  <2>1. b \in db'.container
    <3>1. "containers" \in wrote \/ b \in db.container
      BY <1>3, <1>7 DEF Stored
    <3> QED BY <3>1, CommitTables
  <2> QED BY <1>5, <1>6, <1>7, <2>1 DEF Stored, Groups
<1>8. CASE s = Do("write", "equipment")
  <2> DEFINE rows == [y \in EdgeIDs(v) |-> b]
  <2>1. db'.equipment = IF "equipment" \in wrote THEN Over(rows, db.equipment) ELSE db.equipment
    BY CommitTables
  <2>2. "equipment" \in wrote \/ \A x \in EdgeIDs(v) : x \in DOMAIN db.equipment /\ db.equipment[x] = b
    BY <1>3, <1>8 DEF Stored
  <2>3. DOMAIN Over(rows, db.equipment) = EdgeIDs(v) \cup DOMAIN db.equipment
    BY DEF Over
  <2>4. \A x \in EdgeIDs(v) : Over(rows, db.equipment)[x] = b
    BY DEF Over
  <2>5. \A x \in EdgeIDs(v) : x \in DOMAIN db'.equipment /\ db'.equipment[x] = b
    <3> HIDE DEF rows, v, wrote, b
    <3> QED BY <2>1, <2>2, <2>3, <2>4
  <2> QED BY <1>5, <1>6, <1>8, <2>5 DEF Stored, Groups
<1>9. CASE s = Do("write", "edges")
  <2>1. CASE "edges" \in wrote
    <3>1. db'.edge = Over(EdgeRows(v), db.edge) /\ db'.endpoint = EndpointsWritten(db.endpoint, v, ids)
      BY <2>1, CommitTables
    <3>2. DOMAIN EdgeRows(v) = EdgeIDs(v)
      BY DEF EdgeRows
    <3>3. \A e \in EdgeIDs(v) : e \in DOMAIN db'.edge /\ db'.edge[e] = EdgeRows(v)[e]
      <4> HIDE DEF v
      <4> QED BY <3>1, <3>2 DEF Over
    <3>4. Resolved(db', ids, EdgeEnds(v))
      BY <1>4, <2>1 DEF ReferredBy, EdgeEnds
    <3>5. ASSUME NEW e \in EdgeIDs(v), NEW n \in AllNodes
          PROVE  e \in GetEdgesByNodeIDs(db', n) <=> n \in ToSet(EdgeRows(v)[e])
      <4> HIDE DEF v, ids
      <4> QED BY <1>1, <3>1, <3>3, <3>4, EndpointsExact
    <3>6. EdgesStored(db', v)
      BY <3>3, <3>5 DEF EdgesStored
    <3> QED BY <1>5, <1>6, <1>9, <3>6 DEF Stored, Groups
  <2>2. CASE "edges" \notin wrote
    <3>1. db'.edge = db.edge /\ db'.endpoint = db.endpoint
      BY <2>2, CommitTables
    <3>2. EdgesStored(db, v)
      BY <1>3, <1>9, <2>2 DEF Stored
    <3>3. \A e \in EdgeIDs(v) : e \in DOMAIN db'.edge /\ db'.edge[e] = db.edge[e]
      BY <3>1, <3>2 DEF EdgesStored
    <3>4. EdgesStored(db', v)
      BY <1>1, <1>4, <3>1, <3>2, <3>3, EdgesKept
    <3> QED BY <1>5, <1>6, <1>9, <3>4 DEF Stored, Groups
  <2> QED BY <2>1, <2>2
<1>10. CASE s = Do("write", "attributes")
  <2>1. "attributes" \in wrote \/ shown[b].attrs = v
    BY <1>3, <1>10 DEF Stored
  <2>2. sh.attrs = v
    BY <2>1 DEF ShownAfter
  <2> QED BY <1>5, <1>6, <1>10, <2>2 DEF Stored, Groups
<1>11. CASE s = Groups
  <2>1. "groups" \in wrote
    BY <1>3, <1>11 DEF Groups
  <2>2. sh.rows = v
    BY <2>1 DEF ShownAfter
  <2> QED BY <1>5, <1>6, <1>11, <2>2 DEF Stored, Groups
<1>12. CASE \E n : s = Do("node", n)
  <2>1. PICK n : s = Do("node", n)
    BY <1>12
  <2>2. s.name = n /\ s.op = "node"
    BY <2>1 DEF Do
  <2>3. s \in tx[w].locks \/ n \in db.node
    BY <1>2, <2>1, <2>2, DoneIs DEF Stored
  <2>4. n \in db'.node
    BY <2>1, <2>3, CommitTables
  <2> QED BY <1>5, <2>1, <2>2, <2>4 DEF Stored, Groups
<1>13. \/ s \in {Do("write", t) : t \in {"containers", "equipment", "edges", "groups"}}
       \/ s = Do("write", "attributes") \/ \E n : s = Do("node", n)
  BY DEF Required
<1> QED BY <1>7, <1>8, <1>9, <1>10, <1>11, <1>12, <1>13 DEF Groups

\* A commit leaves its own batch exact: what it shows changes with the groups, which come last.
LEMMA CommitOwn ==
    ASSUME ReadInv, NEW w \in Workers, Commit(w)
    PROVE  Shown(db', job[w], ShownAfter(job[w], w))
<1> DEFINE b == job[w]  v == View(b)  wrote == tx[w].wrote  ids == tx[w].ids  sh == ShownAfter(b, w)
<1>1. /\ Inv /\ Keyed(db) /\ Named(db) /\ Work /\ Exact
      /\ Working(w) /\ b \in Batches /\ v \in AllViews /\ v \in ViewsOf(b)
      /\ Orderly(mode, v, left[w], tx[w]) /\ IsTx(tx[w])
  BY WorkerIs DEF Commit, ReadInv, Orderly
<1>2. Due(db, shown[b], b, v, left[w], tx[w])
  BY <1>1 DEF Work
<1>3. Grows(db, db') /\ \A t \in wrote : Resolved(db', ids, ReferredBy(t, v))
  BY <1>1, CommitResolves
<1>4. Shown(db, b, shown[b])
  BY <1>1 DEF Exact, Shown
<1>5. v # Absent /\ v # Partial /\ Absent # Partial
  BY <1>1, AbsentIsNoView
<1>6. Keyed(db') /\ Named(db')
  BY <1>1, CommitKeyed, CommitNamed
<1>7. ASSUME "groups" \in wrote PROVE RowsOf(db', b, v)
  <2>1. Groups \in DoneBy(tx[w])
    BY <1>1, <1>7, DoneIs DEF Groups
  <2>2. left[w] = <<<<>>>>
    BY <1>2, <2>1 DEF Due, GroupsLast
  <2>3. Ahead(left[w]) = {}
    BY <2>2 DEF Ahead, ToSet
  <2>4. ASSUME NEW s \in Required(v) PROVE Stored(db', sh, b, v, s)
    <3>1. s \in DoneBy(tx[w]) \/ Stored(db, shown[b], b, v, s)
      BY <1>2, <2>3 DEF Due
    <3> QED BY <1>1, <2>1, <3>1, CommitStores
  <2>5. \A t \in {"containers", "equipment", "edges", "groups"} : Do("write", t) \in Required(v)
    BY DEF Required
  <2>6. /\ b \in db'.container /\ EdgesStored(db', v)
        /\ \A x \in EdgeIDs(v) : x \in DOMAIN db'.equipment /\ db'.equipment[x] = b
    BY <2>4, <2>5 DEF Stored
  <2>7. TerminalsOf(v) \subseteq db'.node
    <3>1. ASSUME NEW n \in TerminalsOf(v) PROVE n \in db'.node
      <4>1. n \in ToSet(v.nodes)
        BY <1>1, ViewAssumption
      <4>2. Do("node", n) \in Required(v)
        BY <4>1 DEF Required
      <4>3. Do("node", n).op = "node" /\ Do("node", n).name = n
        BY DEF Do
      <4> QED BY <2>4, <4>2, <4>3 DEF Stored
    <3> QED BY <3>1
  <2>8. {x \in DOMAIN db'.equipment : db'.equipment[x] = b} \subseteq UNION {EdgeIDs(u) : u \in ViewsOf(b)}
    BY <1>6 DEF Named
  <2>9. {g \in db'.group : g[2] = GroupOwner(b)} = GroupsOf(b, v)
    <3>1. db'.group = {g \in db.group : g[2] # GroupOwner(b)} \cup GroupsOf(b, v)
      BY <1>1, <1>7, CommitTables
    <3>2. \A g \in GroupsOf(b, v) : g[2] = GroupOwner(b)
      BY GroupsOfIs
    <3> HIDE DEF v, b
    <3> QED BY <3>1, <3>2
  <2> QED BY <1>5, <2>6, <2>7, <2>8, <2>9 DEF RowsOf, EdgesStored
<1>8. ASSUME wrote \cap {"containers", "equipment", "edges", "groups"} = {}, shown[b].rows # Partial
      PROVE  RowsOf(db', b, shown[b].rows)
  <2>1. /\ db'.container = db.container /\ db'.equipment = db.equipment /\ db'.edge = db.edge
        /\ db'.endpoint = db.endpoint /\ db'.group = db.group /\ db.node \subseteq db'.node
    BY <1>1, <1>8, CommitTables
  <2>2. ASSUME NEW u \in ViewsOf(b), EdgesStored(db, u) PROVE EdgesStored(db', u)
    <3>1. \A e \in EdgeIDs(u) : e \in DOMAIN db'.edge /\ db'.edge[e] = db.edge[e]
      BY <2>1, <2>2 DEF EdgesStored
    <3>2. u \in AllViews
      BY <1>1 DEF AllViews
    <3> QED BY <1>1, <1>3, <2>1, <2>2, <3>1, <3>2, EdgesKept
  <2>3. RowsStay(db, db', b)
    <3> HIDE DEF b
    <3> QED BY <2>1, <2>2 DEF RowsStay
  <2>4. shown[b].rows \in ViewsOf(b) \cup {Absent} /\ RowsOf(db, b, shown[b].rows)
    BY <1>4, <1>8 DEF Shown
  <2> QED BY <1>1, <2>3, <2>4, RowsKept
<1>9. ASSUME "attributes" \in wrote PROVE AttributesOf(db', v)
  <2>1. db'.attr = AttributesWritten(db.attr, v, ids)
    BY <1>1, <1>9, CommitTables
  <2>2. Resolved(db', ids, OwnersOf(v) \cup KeysOf(v))
    BY <1>3, <1>9 DEF ReferredBy, Resolved
  <2> HIDE DEF v, ids
  <2> QED BY <1>1, <2>1, <2>2, AttributesExact
<1>10. ASSUME "attributes" \notin wrote, shown[b].attrs \notin {Partial, Absent}
       PROVE  AttributesOf(db', shown[b].attrs)
  <2>1. db'.attr = db.attr
    BY <1>1, <1>10, CommitTables
  <2>2. AttributesOf(db, shown[b].attrs)
    BY <1>4, <1>10 DEF Shown
  <2> QED BY <1>1, <1>3, <2>1, <2>2, AttributesKept
<1>11. sh.rows \in ViewsOf(b) \cup {Absent, Partial} /\ (sh.rows # Partial => RowsOf(db', b, sh.rows))
  <2>1. sh.rows = IF wrote \cap {"containers", "equipment", "edges", "groups"} = {} THEN shown[b].rows
                  ELSE IF "groups" \in wrote THEN v ELSE Partial
    BY DEF ShownAfter
  <2> HIDE DEF sh, wrote, v, b
  <2> QED BY <1>1, <1>4, <1>7, <1>8, <2>1 DEF Shown
<1>12. /\ sh.attrs \in ViewsOf(b) \cup {Absent, Partial}
       /\ sh.attrs \notin {Partial, Absent} => AttributesOf(db', sh.attrs)
  <2>1. sh.attrs = IF "attributes" \in wrote THEN v ELSE shown[b].attrs
    BY DEF ShownAfter
  <2> HIDE DEF sh, wrote, v, b
  <2> QED BY <1>1, <1>4, <1>9, <1>10, <2>1 DEF Shown
<1> QED BY <1>11, <1>12 DEF Shown

-----------------------------------------------------------------------------
(* What is ahead of a worker.                                               *)

\* What is ahead is in one of the transactions.
LEMMA AheadIs ==
    ASSUME NEW S, NEW q \in Seq(Seq(S)), NEW s
    PROVE  s \in Ahead(q) <=> \E k \in 1 .. Len(q) : \E i \in 1 .. Len(q[k]) : q[k][i] = s
<1>1. \A k \in 1 .. Len(q) : q[k] \in Seq(S)
  OBVIOUS
<1>2. \A k \in 1 .. Len(q) : s \in ToSet(q[k]) <=> \E i \in 1 .. Len(q[k]) : q[k][i] = s
  BY <1>1, InSeq
<1> QED BY <1>2 DEF Ahead

\* A statement leaves what is ahead and enters what is done.
LEMMA DueStep ==
    ASSUME NEW S, NEW q \in Seq(Seq(S)), q # <<>>, Head(q) # <<>>,
           NEW d, NEW sh, NEW b, NEW v, NEW x, NEW y, Due(d, sh, b, v, q, x),
           DoneBy(x) \subseteq DoneBy(y), DoneBy(y) \subseteq DoneBy(x) \cup {Head(Head(q))},
           Head(Head(q)) \in DoneBy(y) \/ Head(Head(q)).op = "flag"
    PROVE  Due(d, sh, b, v, <<Tail(Head(q))>> \o Tail(q), y)
<1> DEFINE r == <<Tail(Head(q))>> \o Tail(q)  t == q[1]  s == Head(Head(q))
<1>1. /\ r \in Seq(Seq(S)) /\ r # <<>> /\ Len(r) = Len(q) /\ Len(q) \in Nat /\ Len(q) >= 1
      /\ r[1] = Tail(t) /\ Head(q) = t /\ t \in Seq(S) /\ \A k \in 2 .. Len(q) : r[k] = q[k]
  BY StepSeq
<1>2. t # <<>>
  BY <1>1
<1> HIDE DEF t
<1>3. /\ Head(t) = t[1] /\ Tail(t) \in Seq(S) /\ Len(t) \in Nat /\ Len(t) >= 1
      /\ Len(Tail(t)) = Len(t) - 1 /\ \A i \in 1 .. Len(t) - 1 : Tail(t)[i] = t[i + 1]
      /\ Tail(t) = <<>> <=> Len(t) = 1
  BY <1>1, <1>2, HeadTail
<1>4. s = t[1]
  BY <1>1, <1>3
<1>5. s \in DoneBy(y) \/ s.op = "flag"
  OBVIOUS
<1>6. DoneBy(y) \subseteq DoneBy(x) \cup {s}
  OBVIOUS
<1> HIDE DEF r, s
<1>7. ASSUME NEW a \in Ahead(q) PROVE a \in Ahead(r) \/ a = s
  <2>1. PICK k \in 1 .. Len(q) : \E i \in 1 .. Len(q[k]) : q[k][i] = a
    BY <1>7, AheadIs
  <2>2. PICK i \in 1 .. Len(q[k]) : q[k][i] = a
    BY <2>1
  <2>3. CASE k = 1 /\ i = 1
    BY <2>2, <2>3, <1>4 DEF t
  <2>4. CASE k = 1 /\ i # 1
    <3>1. q[k] = t /\ i \in 1 .. Len(t) /\ t[i] = a
      BY <2>2, <2>4 DEF t
    <3>2. i - 1 \in 1 .. Len(t) - 1 /\ (i - 1) + 1 = i
      BY <1>3, <2>4, <3>1
    <3>3. Tail(t)[i - 1] = t[i]
      BY <1>3, <3>2
    <3>4. 1 \in 1 .. Len(r) /\ i - 1 \in 1 .. Len(r[1]) /\ r[1][i - 1] = a
      BY <1>1, <1>3, <3>1, <3>2, <3>3
    <3> QED BY <1>1, <3>4, AheadIs
  <2>5. CASE k # 1
    <3>1. k \in 2 .. Len(q) /\ k \in 1 .. Len(r) /\ r[k] = q[k]
      BY <1>1, <2>5
    <3> QED BY <1>1, <2>2, <3>1, AheadIs
  <2> QED BY <2>3, <2>4, <2>5
<1>8. Groups.op = "write" /\ \A a \in Required(v) : a.op \in {"node", "write"}
  BY DEF Required, Groups, Do
<1>9. ASSUME NEW a \in Required(v)
      PROVE  a \in Ahead(r) \/ a \in DoneBy(y) \/ Stored(d, sh, b, v, a)
  <2>1. a \in Ahead(q) \/ a \in DoneBy(x) \/ Stored(d, sh, b, v, a)
    BY DEF Due
  <2>2. a = s => a \in DoneBy(y)
    BY <1>5, <1>8
  <2> QED BY <2>1, <2>2, <1>7
<1>10. /\ \A k \in 1 .. Len(q) : \A i \in 1 .. Len(q[k]) :
             q[k][i] = Groups => k = Len(q) /\ i = Len(q[k])
       /\ Groups \in Ahead(q) \/ Groups \in DoneBy(x)
       /\ Groups \in DoneBy(x) => q = <<<<>>>>
  BY DEF Due, GroupsLast
<1>11. ASSUME NEW k \in 1 .. Len(r), NEW i \in 1 .. Len(r[k]), r[k][i] = Groups
       PROVE  k = Len(r) /\ i = Len(r[k])
  <2>1. CASE k = 1
    <3>1. r[k] = Tail(t) /\ Len(r[k]) = Len(t) - 1
      BY <1>1, <1>3, <2>1
    <3>2. i \in 1 .. Len(t) - 1 /\ i + 1 \in 1 .. Len(t) /\ t[i + 1] = Groups
      BY <1>3, <1>11, <3>1
    <3>3. 1 \in 1 .. Len(q) /\ q[1] = t
      BY <1>1 DEF t
    <3>4. 1 = Len(q) /\ i + 1 = Len(t)
      BY <1>10, <3>2, <3>3
    <3>5. k = Len(r)
      BY <1>1, <2>1, <3>4
    <3>6. i = Len(t) - 1
      <4> DEFINE n == Len(t)
      <4>1. n \in Nat /\ i \in 1 .. n - 1 /\ i + 1 = n
        BY <1>3, <3>2, <3>4
      <4> HIDE DEF n
      <4>2. i = n - 1
        BY <4>1
      <4> QED BY <4>2 DEF n
    <3> QED BY <3>1, <3>5, <3>6
  <2>2. CASE k # 1
    <3>1. k \in 2 .. Len(q) /\ k \in 1 .. Len(q) /\ r[k] = q[k]
      BY <1>1, <2>2
    <3> QED BY <1>1, <1>10, <1>11, <3>1
  <2> QED BY <2>1, <2>2
<1>12. Groups \in Ahead(r) \/ Groups \in DoneBy(y)
  <2>1. Groups = s => Groups \in DoneBy(y)
    BY <1>5, <1>8
  <2> QED BY <1>7, <1>10, <2>1
<1>13. ASSUME Groups \in DoneBy(y) PROVE r = <<<<>>>>
  <2>1. q # <<<<>>>>
    <3>1. Head(<<<<>>>>) = <<>>
      OBVIOUS
    <3> QED BY <3>1
  <2>2. t[1] = Groups
    BY <1>4, <1>6, <1>10, <1>13, <2>1
  <2>3. 1 \in 1 .. Len(q) /\ q[1] = t /\ 1 \in 1 .. Len(t)
    BY <1>1, <1>3 DEF t
  <2>4. 1 = Len(q) /\ 1 = Len(t)
    BY <1>10, <2>2, <2>3
  <2>5. Tail(t) = <<>>
    BY <1>3, <2>4
  <2>6. Len(r) = 1 /\ r[1] = <<>>
    BY <1>1, <2>4, <2>5
  <2> QED BY <1>1, <2>6
<1>14. GroupsLast(r, y)
  BY <1>11, <1>12, <1>13 DEF GroupsLast
<1>15. Due(d, sh, b, v, r, y)
  BY <1>9, <1>14 DEF Due
<1> QED BY <1>15 DEF r

\* What was done is stored, and the next transaction begins.
LEMMA DueCommit ==
    ASSUME NEW S, NEW q \in Seq(Seq(S)), q # <<>>, Head(q) = <<>>,
           NEW c, NEW sh, NEW d, NEW sh2, NEW b, NEW v, NEW x, Due(c, sh, b, v, q, x),
           \A s \in Required(v) : s \in DoneBy(x) \/ (s # Groups /\ Stored(c, sh, b, v, s))
                                     => Stored(d, sh2, b, v, s)
    PROVE  Due(d, sh2, b, v, Tail(q), NoTx)
<1> DEFINE r == Tail(q)
<1>1. /\ r \in Seq(Seq(S)) /\ Len(q) \in Nat /\ Len(q) >= 1 /\ Len(r) = Len(q) - 1
      /\ \A i \in 1 .. Len(q) - 1 : r[i] = q[i + 1]
      /\ q[1] = <<>> /\ (r = <<>> <=> Len(q) = 1)
  BY HeadTail
<1> HIDE DEF r
<1>2. ASSUME NEW a \in Ahead(q) PROVE a \in Ahead(r)
  <2>1. PICK k \in 1 .. Len(q) : \E i \in 1 .. Len(q[k]) : q[k][i] = a
    BY <1>2, AheadIs
  <2>2. k # 1
    <3>1. Len(<<>>) = 0
      OBVIOUS
    <3> QED BY <1>1, <2>1, <3>1
  <2>3. k - 1 \in 1 .. Len(r) /\ k - 1 \in 1 .. Len(q) - 1 /\ (k - 1) + 1 = k
    BY <1>1, <2>2
  <2>4. r[k - 1] = q[k]
    BY <1>1, <2>3
  <2>5. \E i \in 1 .. Len(r[k - 1]) : r[k - 1][i] = a
    BY <2>1, <2>4
  <2> QED BY <1>1, <2>3, <2>5, AheadIs
<1>3. DoneBy(NoTx) = {}
  BY NoTxIs
<1>4. Groups \in Required(v)
  BY DEF Required, Groups
<1>5. /\ \A k \in 1 .. Len(q) : \A i \in 1 .. Len(q[k]) :
            q[k][i] = Groups => k = Len(q) /\ i = Len(q[k])
      /\ Groups \in Ahead(q) \/ Groups \in DoneBy(x)
      /\ Groups \in DoneBy(x) => q = <<<<>>>>
  BY DEF Due, GroupsLast
<1>6. ASSUME NEW a \in Required(v)
      PROVE  a \in Ahead(r) \/ Stored(d, sh2, b, v, a)
  <2>1. a \in Ahead(q) \/ a \in DoneBy(x) \/ Stored(c, sh, b, v, a)
    BY DEF Due
  <2> QED BY <2>1, <1>2, <1>5
<1>7. ASSUME NEW k \in 1 .. Len(r), NEW i \in 1 .. Len(r[k]), r[k][i] = Groups
      PROVE  k = Len(r) /\ i = Len(r[k])
  <2>1. k \in 1 .. Len(q) - 1 /\ k + 1 \in 1 .. Len(q) /\ r[k] = q[k + 1]
    BY <1>1
  <2>2. k + 1 = Len(q) /\ i = Len(q[k + 1])
    BY <1>5, <1>7, <2>1
  <2> QED BY <1>1, <2>1, <2>2
<1>8. ASSUME r # <<>> PROVE Groups \in Ahead(r)
  <2>1. Len(q) # 1
    BY <1>1, <1>8
  <2>2. q # <<<<>>>>
    <3>1. Len(<<<<>>>>) = 1
      OBVIOUS
    <3> QED BY <2>1, <3>1
  <2> QED BY <1>2, <1>5, <2>2
<1>9. GroupsLast(r, NoTx)
  BY <1>3, <1>7, <1>8 DEF GroupsLast
<1>10. Due(d, sh2, b, v, r, NoTx)
  BY <1>6, <1>9 DEF Due
<1> QED BY <1>10 DEF r

-----------------------------------------------------------------------------
(* A batch's transactions hold all that it requires, its groups last.       *)

\* Transactions before the last, and those that end with the groups.
Before(v) == {t \in Seq(Statements(v)) : Groups \notin ToSet(t)}
Closed(v) == {q \in Seq(Seq(Statements(v))) :
                 /\ q # <<>> /\ Groups \in Ahead(q)
                 /\ \A k \in 1 .. Len(q) : \A i \in 1 .. Len(q[k]) :
                       q[k][i] = Groups => k = Len(q) /\ i = Len(q[k])}

\* More transactions are more ahead.
LEMMA AheadConcat ==
    ASSUME NEW S, NEW p \in Seq(Seq(S)), NEW q \in Seq(Seq(S))
    PROVE  Ahead(p \o q) = Ahead(p) \cup Ahead(q)
<1> DEFINE r == p \o q
<1>1. /\ r \in Seq(Seq(S)) /\ Len(r) = Len(p) + Len(q) /\ Len(p) \in Nat /\ Len(q) \in Nat
      /\ \A i \in 1 .. Len(p) : r[i] = p[i]
      /\ \A i \in 1 .. Len(q) : r[Len(p) + i] = q[i]
  BY Concat
<1> HIDE DEF r
<1>2. ASSUME NEW a \in Ahead(r) PROVE a \in Ahead(p) \cup Ahead(q)
  <2>1. PICK k \in 1 .. Len(r) : a \in ToSet(r[k])
    BY DEF Ahead
  <2>2. CASE k <= Len(p)
    <3>1. k \in 1 .. Len(p) /\ r[k] = p[k]
      BY <1>1, <2>2
    <3> QED BY <2>1, <3>1 DEF Ahead
  <2>3. CASE ~(k <= Len(p))
    <3>1. k - Len(p) \in 1 .. Len(q) /\ Len(p) + (k - Len(p)) = k
      BY <1>1, <2>3
    <3>2. r[k] = q[k - Len(p)]
      BY <1>1, <3>1
    <3> QED BY <2>1, <3>1, <3>2 DEF Ahead
  <2> QED BY <2>2, <2>3
<1>3. ASSUME NEW a \in Ahead(p) PROVE a \in Ahead(r)
  <2>1. PICK k \in 1 .. Len(p) : a \in ToSet(p[k])
    BY DEF Ahead
  <2>2. k \in 1 .. Len(r) /\ r[k] = p[k]
    BY <1>1
  <2> QED BY <2>1, <2>2 DEF Ahead
<1>4. ASSUME NEW a \in Ahead(q) PROVE a \in Ahead(r)
  <2>1. PICK k \in 1 .. Len(q) : a \in ToSet(q[k])
    BY DEF Ahead
  <2>2. Len(p) + k \in 1 .. Len(r) /\ r[Len(p) + k] = q[k]
    BY <1>1
  <2> QED BY <2>1, <2>2 DEF Ahead
<1> QED BY <1>2, <1>3, <1>4 DEF r

\* One transaction.
LEMMA AheadOne ==
    ASSUME NEW t
    PROVE  Ahead(<<t>>) = ToSet(t) /\ Ahead(Tx(t)) = ToSet(t)
<1>1. Ahead(<<t>>) = ToSet(t)
  <2> DEFINE q == <<t>>
  <2>1. Len(q) = 1 /\ q[1] = t /\ 1 .. Len(q) = {1}
    OBVIOUS
  <2> HIDE DEF q
  <2>2. Ahead(q) = ToSet(t)
    BY <2>1 DEF Ahead
  <2> QED BY <2>2 DEF q
<1>2. t = <<>> => Ahead(<<>>) = ToSet(t)
  BY DEF Ahead, ToSet
<1> QED BY <1>1, <1>2 DEF Tx

\* Parts without groups make a transaction without groups.
LEMMA BeforeConcat ==
    ASSUME NEW v, NEW s \in Before(v), NEW t \in Before(v)
    PROVE  s \o t \in Before(v) /\ ToSet(s \o t) = ToSet(s) \cup ToSet(t)
<1>1. s \in Seq(Statements(v)) /\ t \in Seq(Statements(v))
  BY DEF Before
<1>2. s \o t \in Seq(Statements(v)) /\ ToSet(s \o t) = ToSet(s) \cup ToSet(t)
  BY <1>1, Concat
<1> QED BY <1>2 DEF Before

\* Transactions without groups before those that end with them.
LEMMA ClosedBefore ==
    ASSUME NEW v, NEW p \in Seq(Before(v)), NEW q \in Closed(v)
    PROVE  p \o q \in Closed(v) /\ Ahead(p \o q) = Ahead(p) \cup Ahead(q)
<1> DEFINE S == Statements(v)  r == p \o q
<1>1. p \in Seq(Seq(S))
  <2>1. Before(v) \subseteq Seq(S)
    BY DEF Before
  <2> DEFINE B == Before(v)  T == Seq(S)
  <2>2. p \in Seq(B) /\ B \subseteq T
    BY <2>1
  <2> HIDE DEF B, T
  <2>3. p \in Seq(T)
    BY <2>2
  <2> QED BY <2>3 DEF T
<1>2. /\ q \in Seq(Seq(S)) /\ q # <<>> /\ Groups \in Ahead(q)
      /\ \A k \in 1 .. Len(q) : \A i \in 1 .. Len(q[k]) :
            q[k][i] = Groups => k = Len(q) /\ i = Len(q[k])
  BY DEF Closed
<1> HIDE DEF S
<1>3. /\ r \in Seq(Seq(S)) /\ Len(r) = Len(p) + Len(q) /\ Len(p) \in Nat /\ Len(q) \in Nat
      /\ \A i \in 1 .. Len(p) : r[i] = p[i]
      /\ \A i \in 1 .. Len(q) : r[Len(p) + i] = q[i]
      /\ Ahead(r) = Ahead(p) \cup Ahead(q)
  BY <1>1, <1>2, Concat, AheadConcat
<1>4. \A k \in 1 .. Len(p) : p[k] \in Seq(S) /\ Groups \notin ToSet(p[k])
  BY DEF Before, S
<1> HIDE DEF r
<1>5. ASSUME NEW k \in 1 .. Len(r), NEW i \in 1 .. Len(r[k]), r[k][i] = Groups
      PROVE  k = Len(r) /\ i = Len(r[k])
  <2>1. CASE k <= Len(p)
    <3>1. k \in 1 .. Len(p) /\ r[k] = p[k]
      BY <1>3, <2>1
    <3>2. Groups \in ToSet(p[k])
      BY <1>4, <1>5, <3>1, InSeq
    <3> QED BY <1>4, <3>1, <3>2
  <2>2. CASE ~(k <= Len(p))
    <3>1. k - Len(p) \in 1 .. Len(q) /\ Len(p) + (k - Len(p)) = k
      BY <1>3, <2>2
    <3>2. r[k] = q[k - Len(p)]
      BY <1>3, <3>1
    <3>3. k - Len(p) = Len(q) /\ i = Len(r[k])
      BY <1>2, <1>5, <3>1, <3>2
    <3> QED BY <1>3, <3>3
  <2> QED BY <2>1, <2>2
<1>6. r # <<>>
  <2>1. Len(q) # 0
    BY <1>2, EmptySeq
  <2>2. Len(r) # 0
    BY <1>3, <2>1
  <2> QED BY <2>2
<1>7. r \in Closed(v)
  BY <1>2, <1>3, <1>5, <1>6 DEF Closed, S
<1> QED BY <1>3, <1>7 DEF r

\* A transaction that ends with the groups.
LEMMA ClosedLast ==
    ASSUME NEW v, NEW t \in Before(v)
    PROVE  LET q == <<t \o UpsertElectricalGroupsTx>>
           IN  q \in Closed(v) /\ Ahead(q) = ToSet(t) \cup {Groups}
<1> DEFINE S == Statements(v)  g == UpsertElectricalGroupsTx  r == t \o g  q == <<r>>
<1>1. t \in Seq(S) /\ Groups \notin ToSet(t)
  BY DEF Before
<1>2. Groups \in S
  BY DEF Statements, Groups, TableNames
<1>3. g \in Seq(S) /\ Len(g) = 1 /\ g[1] = Groups /\ ToSet(g) = {Groups}
  <2>1. g = <<Groups>>
    BY DEF UpsertElectricalGroupsTx, Groups
  <2> QED BY <1>2, <2>1, Single
<1> HIDE DEF S, g
<1>4. /\ r \in Seq(S) /\ Len(r) = Len(t) + 1 /\ Len(t) \in Nat /\ ToSet(r) = ToSet(t) \cup {Groups}
      /\ \A i \in 1 .. Len(t) : r[i] = t[i]
  BY <1>1, <1>3, Concat
<1> HIDE DEF r
<1>5. ASSUME NEW i \in 1 .. Len(r), r[i] = Groups PROVE i = Len(r)
  <2>1. i \notin 1 .. Len(t)
    BY <1>1, <1>4, <1>5, InSeq
  <2> QED BY <1>4, <2>1
<1>6. q \in Seq(Seq(S)) /\ Len(q) = 1 /\ q[1] = r /\ q # <<>>
  BY <1>4
<1>7. Ahead(q) = ToSet(r)
  BY AheadOne
<1> HIDE DEF q
<1>8. ASSUME NEW k \in 1 .. Len(q), NEW i \in 1 .. Len(q[k]), q[k][i] = Groups
      PROVE  k = Len(q) /\ i = Len(q[k])
  <2>1. k = 1 /\ q[k] = r
    BY <1>6
  <2> QED BY <1>5, <1>6, <1>8, <2>1
<1>9. q \in Closed(v)
  BY <1>4, <1>6, <1>7, <1>8 DEF Closed, S
<1> QED BY <1>4, <1>7, <1>9 DEF q, r, g

\* What each part of a batch holds.
LEMMA PartsAre ==
    ASSUME NEW v \in AllViews, NEW order \in SetToSeqs(v.shared)
    PROVE  /\ UpsertContainersTx \in Before(v) /\ Do("write", "containers") \in ToSet(UpsertContainersTx)
           /\ UpsertEquipmentTx \in Before(v) /\ Do("write", "equipment") \in ToSet(UpsertEquipmentTx)
           /\ UpsertNodesTx(v) \in Before(v)
           /\ ToSet(UpsertNodesTx(v)) = {Do("node", n) : n \in ToSet(v.nodes)}
           /\ UpsertEdgesTx(v) \in Before(v) /\ Do("write", "edges") \in ToSet(UpsertEdgesTx(v))
           /\ UpsertAttributesTx(v) \in Before(v)
           /\ OwnersOf(v) # {} => Do("write", "attributes") \in ToSet(UpsertAttributesTx(v))
           /\ MarkFlagsTx(order) \in Before(v)
           /\ <<>> \in Before(v)
<1> DEFINE S == Statements(v)
<1>1. \A x : /\ Groups # Do("resolve", x) /\ Groups # Do("node", x) /\ Groups # Do("flag", x)
             /\ x # "groups" => Groups # Do("write", x)
  BY DEF Groups, Do
<1>2. \A x \in {"containers", "equipment", "edges", "attributes"} :
         <<Do("write", x)>> \in Before(v) /\ ToSet(<<Do("write", x)>>) = {Do("write", x)}
  <2> SUFFICES ASSUME NEW x \in {"containers", "equipment", "edges", "attributes"}
               PROVE  <<Do("write", x)>> \in Before(v) /\ ToSet(<<Do("write", x)>>) = {Do("write", x)}
    OBVIOUS
  <2> DEFINE y == Do("write", x)
  <2>1. y \in Statements(v) /\ Groups # y
    BY <1>1 DEF Statements, TableNames
  <2> HIDE DEF y
  <2>2. <<y>> \in Seq(Statements(v)) /\ ToSet(<<y>>) = {y}
    BY <2>1, Single
  <2>3. <<y>> \in Before(v)
    BY <2>1, <2>2 DEF Before
  <2> QED BY <2>2, <2>3 DEF y
<1>3. ASSUME NEW op \in {"resolve", "node", "flag"}, NEW T, NEW s \in Seq(T),
             \A x \in T : Do(op, x) \in Statements(v)
      PROVE  Each(op, s) \in Before(v)
  <2> DEFINE U == {Do(op, x) : x \in T}  t == Each(op, s)
  <2>1. t \in Seq(U)
    BY EachIs
  <2>2. U \subseteq Statements(v) /\ Groups \notin U
    BY <1>1, <1>3
  <2> HIDE DEF t, U
  <2>3. t \in Seq(Statements(v)) /\ Groups \notin ToSet(t)
    BY <2>1, <2>2, InSeq
  <2> QED BY <2>3 DEF Before, t
<1>4. UpsertNodesTx(v) \in Before(v)
  <2>1. v.nodes \in Seq(ToSet(v.nodes))
    <3>1. v.nodes \in Seq(AllNodes)
      BY ViewAssumption
    <3> QED BY <3>1 DEF ToSet
  <2>2. \A x \in ToSet(v.nodes) : Do("node", x) \in Statements(v)
    BY DEF Statements
  <2> QED BY <1>3, <2>1, <2>2 DEF UpsertNodesTx
<1>5. ToSet(UpsertNodesTx(v)) = {Do("node", n) : n \in ToSet(v.nodes)}
  BY NodesSound
<1>6. MarkFlagsTx(order) \in Before(v)
  <2>1. order \in Seq(v.shared)
    BY ViewAssumption, OrderIsSeq
  <2>2. \A x \in v.shared : Do("flag", x) \in Statements(v)
    BY DEF Statements
  <2> QED BY <1>3, <2>1, <2>2 DEF MarkFlagsTx
<1>7. \A x \in Names(v) : Do("resolve", x) \in Statements(v)
  BY DEF Statements
<1>8. UpsertEdgesTx(v) \in Before(v) /\ Do("write", "edges") \in ToSet(UpsertEdgesTx(v))
  <2> DEFINE s == Each("resolve", EdgeNames(v))  u == <<Do("write", "edges")>>
  <2>1. EdgeNames(v) \in Seq(EdgeEnds(v))
    BY EdgeNamesAre
  <2>2. s \in Before(v)
    BY <1>3, <1>7, <2>1 DEF Names
  <2>3. u \in Before(v) /\ ToSet(u) = {Do("write", "edges")}
    BY <1>2
  <2> HIDE DEF s, u
  <2>4. s \o u \in Before(v) /\ ToSet(s \o u) = ToSet(s) \cup ToSet(u)
    BY <2>2, <2>3, BeforeConcat
  <2> QED BY <2>3, <2>4 DEF UpsertEdgesTx, s, u
<1>9. <<>> \in Before(v)
  BY Nothing DEF Before
<1>10. /\ UpsertAttributesTx(v) \in Before(v)
       /\ OwnersOf(v) # {} => Do("write", "attributes") \in ToSet(UpsertAttributesTx(v))
  <2>1. CASE OwnersOf(v) = {}
    BY <1>9, <2>1 DEF UpsertAttributesTx
  <2>2. CASE OwnersOf(v) # {}
    <3> DEFINE s == Each("resolve", SetToSeq(KeysOf(v)))  t == Each("resolve", SetToSeq(OwnersOf(v)))
               u == <<Do("write", "attributes")>>
    <3>1. SetToSeq(KeysOf(v)) \in Seq(KeysOf(v)) /\ SetToSeq(OwnersOf(v)) \in Seq(OwnersOf(v))
      BY ViewAssumption, SeqOfSet
    <3>2. s \in Before(v) /\ t \in Before(v)
      BY <1>3, <1>7, <3>1 DEF Names
    <3>3. u \in Before(v) /\ ToSet(u) = {Do("write", "attributes")}
      BY <1>2
    <3> HIDE DEF s, t, u
    <3>4. s \o t \in Before(v)
      BY <3>2, BeforeConcat
    <3> DEFINE p == s \o t
    <3> HIDE DEF p
    <3>5. p \o u \in Before(v) /\ ToSet(p \o u) = ToSet(p) \cup ToSet(u)
      BY <3>3, <3>4, BeforeConcat DEF p
    <3> QED BY <2>2, <3>3, <3>5 DEF UpsertAttributesTx, s, t, u, p
  <2> QED BY <2>1, <2>2
<1> QED BY <1>2, <1>4, <1>5, <1>6, <1>8, <1>9, <1>10 DEF UpsertContainersTx, UpsertEquipmentTx

\* The one transaction of PersistBatch, and those of the tables.
LEMMA PersistBatchIs ==
    ASSUME NEW v \in AllViews, NEW order \in SetToSeqs(v.shared), NEW attrs \in Before(v)
    PROVE  /\ <<PersistBatchTx(v, attrs)>> \in Closed(v)
           /\ Required(v) \ {Do("write", "attributes")} \subseteq Ahead(<<PersistBatchTx(v, attrs)>>)
           /\ ToSet(attrs) \subseteq Ahead(<<PersistBatchTx(v, attrs)>>)
<1> DEFINE c == UpsertContainersTx  q == UpsertEquipmentTx  n == UpsertNodesTx(v)
           e == UpsertEdgesTx(v)  g == UpsertElectricalGroupsTx
           t == (((c \o q) \o n) \o e) \o attrs
<1>1. /\ c \in Before(v) /\ Do("write", "containers") \in ToSet(c)
      /\ q \in Before(v) /\ Do("write", "equipment") \in ToSet(q)
      /\ n \in Before(v) /\ ToSet(n) = {Do("node", x) : x \in ToSet(v.nodes)}
      /\ e \in Before(v) /\ Do("write", "edges") \in ToSet(e)
  BY PartsAre
<1> HIDE DEF c, q, n, e
<1>2. c \o q \in Before(v) /\ ToSet(c \o q) = ToSet(c) \cup ToSet(q)
  BY <1>1, BeforeConcat
<1>3. (c \o q) \o n \in Before(v) /\ ToSet((c \o q) \o n) = ToSet(c \o q) \cup ToSet(n)
  BY <1>1, <1>2, BeforeConcat
<1>4. /\ ((c \o q) \o n) \o e \in Before(v)
      /\ ToSet(((c \o q) \o n) \o e) = ToSet((c \o q) \o n) \cup ToSet(e)
  BY <1>1, <1>3, BeforeConcat
<1>5. t \in Before(v) /\ ToSet(t) = ToSet(((c \o q) \o n) \o e) \cup ToSet(attrs)
  BY <1>4, BeforeConcat
<1>6. ToSet(t) = ToSet(c) \cup ToSet(q) \cup ToSet(n) \cup ToSet(e) \cup ToSet(attrs)
  BY <1>2, <1>3, <1>4, <1>5
<1> HIDE DEF t
<1> DEFINE z == <<t \o g>>
<1>7. z \in Closed(v) /\ Ahead(z) = ToSet(t) \cup {Groups}
  BY <1>5, ClosedLast
<1>8. z = <<PersistBatchTx(v, attrs)>>
  BY DEF PersistBatchTx, t, c, q, n, e
<1> HIDE DEF z, g
<1>9. Required(v) \ {Do("write", "attributes")} \subseteq Ahead(z)
  BY <1>1, <1>6, <1>7 DEF Required, Groups
<1> QED BY <1>6, <1>7, <1>8, <1>9

\* Two transactions without groups.
LEMMA BeforeTwo ==
    ASSUME NEW v, NEW s \in Before(v), NEW t \in Before(v)
    PROVE  <<s, t>> \in Seq(Before(v)) /\ Ahead(<<s, t>>) = ToSet(s) \cup ToSet(t)
<1> DEFINE q == <<s, t>>
<1>1. q \in Seq(Before(v)) /\ Len(q) = 2 /\ q[1] = s /\ q[2] = t /\ 1 .. Len(q) = {1, 2}
  OBVIOUS
<1> HIDE DEF q
<1>2. Ahead(q) = ToSet(s) \cup ToSet(t)
  BY <1>1 DEF Ahead
<1> QED BY <1>1, <1>2 DEF q

\* One, or none.
LEMMA BeforeTx ==
    ASSUME NEW v, NEW t \in Before(v)
    PROVE  /\ Tx(t) \in Seq(Before(v)) /\ <<t>> \in Seq(Before(v))
           /\ Ahead(Tx(t)) = ToSet(t) /\ Ahead(<<t>>) = ToSet(t)
           /\ \A q \in Closed(v) : Tx(t) \o q \in Closed(v) /\ Ahead(Tx(t) \o q) = ToSet(t) \cup Ahead(q)
<1>1. Tx(t) \in Seq(Before(v)) /\ <<t>> \in Seq(Before(v))
  BY TxIs
<1>2. Ahead(Tx(t)) = ToSet(t) /\ Ahead(<<t>>) = ToSet(t)
  BY AheadOne
<1> QED BY <1>1, <1>2, ClosedBefore

\* Several.
LEMMA BeforesConcat ==
    ASSUME NEW v, NEW p \in Seq(Before(v)), NEW q \in Seq(Before(v))
    PROVE  p \o q \in Seq(Before(v)) /\ Ahead(p \o q) = Ahead(p) \cup Ahead(q)
<1> DEFINE B == Before(v)  T == Seq(Statements(v))
<1>1. B \subseteq T
  BY DEF Before
<1>2. p \in Seq(B) /\ q \in Seq(B)
  OBVIOUS
<1> HIDE DEF B, T
<1>3. p \in Seq(T) /\ q \in Seq(T)
  BY <1>1, <1>2
<1>4. p \o q \in Seq(B)
  BY <1>2, Concat
<1>5. Ahead(p \o q) = Ahead(p) \cup Ahead(q)
  BY <1>3, AheadConcat DEF T
<1> QED BY <1>4, <1>5 DEF B

\* All transactions of a batch: what it requires is there, and the groups are last.
LEMMA TransactionsClosed ==
    ASSUME mode \in Modes, NEW b \in Batches, NEW v \in AllViews, NEW order \in SetToSeqs(v.shared)
    PROVE  /\ Transactions(b, v, order) \in Closed(v)
           /\ Required(v) \subseteq Ahead(Transactions(b, v, order))
<1> DEFINE B == Before(v)  attrs == UpsertAttributesTx(v)  flags == MarkFlagsTx(order)
           c == UpsertContainersTx  q == UpsertEquipmentTx  n == UpsertNodesTx(v)
           e == UpsertEdgesTx(v)  g == UpsertElectricalGroupsTx
           tables == <<c, q>> \o Tx(n) \o <<e>>
           whole == <<PersistBatchTx(v, attrs)>>  rest == <<PersistBatchTx(v, <<>>)>>
           A == Do("write", "attributes")
<1>1. /\ c \in B /\ Do("write", "containers") \in ToSet(c)
      /\ q \in B /\ Do("write", "equipment") \in ToSet(q)
      /\ n \in B /\ ToSet(n) = {Do("node", x) : x \in ToSet(v.nodes)}
      /\ e \in B /\ Do("write", "edges") \in ToSet(e)
      /\ attrs \in B /\ (OwnersOf(v) # {} => A \in ToSet(attrs)) /\ flags \in B /\ <<>> \in B
  BY PartsAre
<1>2. A \in Required(v) => A \in ToSet(attrs)
  <2>1. A \in Required(v) => OwnersOf(v) # {}
    BY DEF Required, Do
  <2> QED BY <1>1, <2>1
<1>3. /\ whole \in Closed(v) /\ Required(v) \ {A} \subseteq Ahead(whole)
      /\ ToSet(attrs) \subseteq Ahead(whole)
      /\ rest \in Closed(v) /\ Required(v) \ {A} \subseteq Ahead(rest)
  BY <1>1, PersistBatchIs
<1>4. <<g>> \in Closed(v) /\ Ahead(<<g>>) = {Groups}
  <2> DEFINE p == <<>>
  <2>1. p \in B
    BY <1>1
  <2> HIDE DEF p
  <2>2. <<p \o g>> \in Closed(v) /\ Ahead(<<p \o g>>) = ToSet(p) \cup {Groups}
    BY <2>1, ClosedLast
  <2>3. p \o g = g /\ ToSet(p) = {}
    <3>1. g = <<Do("write", "groups")>>
      BY DEF UpsertElectricalGroupsTx
    <3> QED BY <3>1 DEF p, ToSet
  <2> QED BY <2>2, <2>3
<1>5. tables \in Seq(B) /\ Ahead(tables) = ToSet(c) \cup ToSet(q) \cup ToSet(n) \cup ToSet(e)
  <2> HIDE DEF c, q, n, e, B
  <2> DEFINE p == <<c, q>>  r == Tx(n)  z == <<e>>
  <2>1. p \in Seq(B) /\ Ahead(p) = ToSet(c) \cup ToSet(q)
    BY <1>1, BeforeTwo DEF B
  <2>2. r \in Seq(B) /\ Ahead(r) = ToSet(n) /\ z \in Seq(B) /\ Ahead(z) = ToSet(e)
    BY <1>1, BeforeTx DEF B
  <2>3. tables = (p \o r) \o z
    OBVIOUS
  <2> HIDE DEF p, r, z, tables
  <2>4. p \o r \in Seq(B) /\ Ahead(p \o r) = Ahead(p) \cup Ahead(r)
    BY <2>1, <2>2, BeforesConcat DEF B
  <2> DEFINE x == p \o r
  <2>5. x \in Seq(B) /\ Ahead(x) = Ahead(p) \cup Ahead(r) /\ tables = x \o z
    BY <2>3, <2>4
  <2> HIDE DEF x
  <2>6. x \o z \in Seq(B) /\ Ahead(x \o z) = Ahead(x) \cup Ahead(z)
    BY <2>2, <2>5, BeforesConcat DEF B
  <2> QED BY <2>1, <2>2, <2>5, <2>6
<1> HIDE DEF B, attrs, flags, c, q, n, e, g, tables, whole, rest, A
<1>6. Tx(flags) \in Seq(B) /\ Tx(attrs) \in Seq(B) /\ Ahead(Tx(attrs)) = ToSet(attrs)
  BY <1>1, BeforeTx DEF B
<1>7. Required(v) \ {A} \subseteq Ahead(tables) \cup {Groups}
  BY <1>1, <1>5 DEF Required, Groups, A
<1>8. CASE b \in PassB /\ mode = "batch"
  <2>1. Tx(flags) \o whole \in Closed(v) /\ Ahead(whole) \subseteq Ahead(Tx(flags) \o whole)
    BY <1>3, <1>6, ClosedBefore DEF B
  <2> QED BY <1>2, <1>3, <1>8, <2>1 DEF Transactions, flags, attrs, whole
<1>9. CASE b \in PassB /\ mode # "batch"
  <2>1. tables \o Tx(attrs) \in Seq(B) /\ Ahead(tables \o Tx(attrs)) = Ahead(tables) \cup ToSet(attrs)
    BY <1>5, <1>6, BeforesConcat DEF B
  <2> DEFINE p == tables \o Tx(attrs)
  <2>2. p \in Seq(B) /\ Ahead(p) = Ahead(tables) \cup ToSet(attrs)
    BY <2>1
  <2> HIDE DEF p
  <2>3. p \o <<g>> \in Closed(v) /\ Ahead(p \o <<g>>) = Ahead(p) \cup {Groups}
    BY <1>4, <2>2, ClosedBefore DEF B
  <2> DEFINE z == p \o <<g>>
  <2>4. z \in Closed(v) /\ Ahead(z) = Ahead(p) \cup {Groups}
    BY <2>3
  <2> HIDE DEF z
  <2>5. Tx(flags) \o z \in Closed(v) /\ Ahead(z) \subseteq Ahead(Tx(flags) \o z)
    BY <1>6, <2>4, ClosedBefore DEF B
  <2>6. Required(v) \subseteq Ahead(z)
    BY <1>2, <1>7, <2>2, <2>4
  <2>7. Transactions(b, v, order) = Tx(flags) \o z
    BY <1>9 DEF Transactions, flags, attrs, tables, c, q, n, e, g, p, z
  <2> QED BY <2>5, <2>6, <2>7
<1>10. Tx(attrs) \o Tx(flags) \in Seq(B) /\ ToSet(attrs) \subseteq Ahead(Tx(attrs) \o Tx(flags))
  BY <1>6, BeforesConcat DEF B
<1> DEFINE s == Tx(attrs) \o Tx(flags)
<1>11. s \in Seq(B) /\ ToSet(attrs) \subseteq Ahead(s)
  BY <1>10
<1> HIDE DEF s
<1>12. CASE b \notin PassB /\ mode = "batch"
  <2>1. s \o rest \in Closed(v) /\ Ahead(s \o rest) = Ahead(s) \cup Ahead(rest)
    BY <1>3, <1>11, ClosedBefore DEF B
  <2>2. Transactions(b, v, order) = s \o rest
    BY <1>12 DEF Transactions, flags, attrs, rest, s
  <2> QED BY <1>2, <1>3, <1>11, <2>1, <2>2
<1>13. CASE b \notin PassB /\ mode # "batch"
  <2>1. tables \o <<g>> \in Closed(v) /\ Ahead(tables \o <<g>>) = Ahead(tables) \cup {Groups}
    BY <1>4, <1>5, ClosedBefore DEF B
  <2> DEFINE z == tables \o <<g>>
  <2>2. z \in Closed(v) /\ Ahead(z) = Ahead(tables) \cup {Groups}
    BY <2>1
  <2> HIDE DEF z
  <2>3. s \o z \in Closed(v) /\ Ahead(s \o z) = Ahead(s) \cup Ahead(z)
    BY <1>11, <2>2, ClosedBefore DEF B
  <2>4. Transactions(b, v, order) = s \o z
    BY <1>13 DEF Transactions, flags, attrs, tables, c, q, n, e, g, s, z
  <2>5. Required(v) \subseteq Ahead(s) \cup Ahead(z)
    BY <1>2, <1>7, <1>11, <2>2
  <2> QED BY <2>3, <2>4, <2>5
<1> QED BY <1>8, <1>9, <1>12, <1>13

\* A batch that begins has everything ahead.
LEMMA DueBegin ==
    ASSUME NEW v, NEW q \in Closed(v), Required(v) \subseteq Ahead(q), NEW d, NEW sh, NEW b
    PROVE  Due(d, sh, b, v, q, NoTx)
BY NoTxIs DEF Closed, Due, GroupsLast

-----------------------------------------------------------------------------
(* Each step keeps what readers see.                                        *)

Reads == Keyed(db) /\ Named(db) /\ Work /\ Outcome /\ Exact

\* Nothing is stored: the workers' part is all that can change.
LEMMA TablesFrame ==
    ASSUME ReadInv, UNCHANGED <<db, shown>>
    PROVE  (Keyed(db) /\ Named(db) /\ Exact)'
<1>1. Keyed(db)'
  BY DEF ReadInv, Keyed
<1>2. Named(db)'
  BY DEF ReadInv, Named
<1>3. Exact'
  BY DEF ReadInv, Exact
<1> QED BY <1>1, <1>2, <1>3

\* Workers whose batch, transaction and tables are as before.
LEMMA WorkFrame ==
    ASSUME Work, NEW w \in Workers, Working(w)', UNCHANGED <<db, shown, run>>,
           job'[w] = job[w], left'[w] = left[w], tx'[w] = tx[w]
    PROVE  Due(db, shown[job[w]], job[w], View(job[w]), left[w], tx[w])'
<1>1. Working(w)
  BY DEF Working
<1>2. Due(db, shown[job[w]], job[w], View(job[w]), left[w], tx[w])
  BY <1>1 DEF Work
<1> QED BY <1>2 DEF View

\* Steps that leave the pool alone.
LEMMA OutcomeFrame ==
    ASSUME Outcome, UNCHANGED <<phase, run, taken, finished, job, failed>>,
           \A b \in finished : shown'[b] = shown[b], phase # "done"
    PROVE  Outcome'
BY DEF Outcome, Shows, View

\* A statement moves what is due from ahead into the transaction.
LEMMA StatementReads ==
    ASSUME ReadInv, NEW w \in Workers, UpsertNode(w) \/ MarkFlag(w) \/ Resolve(w) \/ Write(w)
    PROVE  Reads'
<1>1. Inv /\ Work /\ Outcome
  BY DEF ReadInv
<1>2. Moves(w)
  BY <1>1, UpsertNodeKeeps, MarkFlagKeeps, ResolveKeeps, WriteKeeps
<1>3. UNCHANGED <<db, phase, run, mode, taken, finished, job, failed, shown>>
  BY DEF UpsertNode, MarkFlag, Resolve, Write
<1>4. (Keyed(db) /\ Named(db) /\ Exact)'
  BY <1>3, TablesFrame
<1>5. /\ Open(w) /\ Working(w) /\ phase = "running" /\ left[w] # <<>> /\ Head(left[w]) # <<>>
      /\ Orderly(mode, View(job[w]), left[w], tx[w]) /\ Step(w)
  BY <1>1, <1>2, StmtIs, WorkerIs DEF Moves
<1>6. Outcome'
  BY <1>1, <1>3, <1>5, OutcomeFrame
<1> DEFINE r == <<Tail(Head(left[w]))>> \o Tail(left[w])
<1>7. left'[w] = r /\ \A u \in Workers \ {w} : left'[u] = left[u] /\ tx'[u] = tx[u]
  BY <1>1, <1>2, <1>5 DEF Inv, Process, Step, Moves
<1>8. Due(db, shown[job[w]], job[w], View(job[w]), r, tx'[w])
  <2>1. Due(db, shown[job[w]], job[w], View(job[w]), left[w], tx[w])
    BY <1>1, <1>5 DEF Work
  <2>2. left[w] \in Seq(Seq(Statements(View(job[w]))))
    BY <1>5 DEF Orderly
  <2>3. /\ DoneBy(tx[w]) \subseteq DoneBy(tx'[w])
        /\ DoneBy(tx'[w]) \subseteq DoneBy(tx[w]) \cup {Head(Head(left[w]))}
        /\ Head(Head(left[w])) \in DoneBy(tx'[w]) \/ Head(Head(left[w])).op = "flag"
    BY <1>2 DEF Moves, Stmt
  <2> QED BY <1>5, <2>1, <2>2, <2>3, DueStep
<1> HIDE DEF r
<1>9. Work'
  <2> SUFFICES ASSUME NEW u \in Workers, Working(u)'
               PROVE  Due(db, shown[job[u]], job[u], View(job[u]), left[u], tx[u])'
    BY DEF Work
  <2>1. CASE u = w
    BY <2>1, <1>3, <1>7, <1>8 DEF View
  <2>2. CASE u # w
    BY <2>2, <1>1, <1>3, <1>7, WorkFrame
  <2> QED BY <2>1, <2>2
<1> QED BY <1>4, <1>6, <1>9 DEF Reads

\* A commit shows its own batch's view, and leaves the others.
LEMMA CommitReads ==
    ASSUME ReadInv, NEW w \in Workers, Commit(w)
    PROVE  Reads'
<1> DEFINE b == job[w]
<1>1. /\ Working(w) /\ left[w] # <<>> /\ Head(left[w]) = <<>>
      /\ shown' = [shown EXCEPT ![b] = ShownAfter(b, w)]
      /\ tx' = [tx EXCEPT ![w] = NoTx] /\ left' = [left EXCEPT ![w] = Tail(left[w])]
      /\ UNCHANGED <<cache, phase, run, mode, taken, finished, job, failed, lost, faults>>
  BY DEF Commit
<1>2. Inv /\ Keyed(db) /\ Named(db) /\ Work /\ Outcome /\ Exact
  BY DEF ReadInv
<1>3. /\ phase = "running" /\ b \in Batches /\ b \notin finished
      /\ Orderly(mode, View(b), left[w], tx[w])
  BY <1>1, <1>2, WorkerIs DEF Inv, Process
<1>4. Keyed(db') /\ Named(db')
  BY <1>2, CommitKeyed, CommitNamed
<1>5. DOMAIN shown = Batches /\ \A a \in Batches : Shown(db, a, shown[a])
  BY <1>2 DEF Exact, Shown
<1>6. /\ DOMAIN shown' = Batches /\ shown'[b] = ShownAfter(b, w)
      /\ \A a \in Batches \ {b} : shown'[a] = shown[a]
  BY <1>1, <1>3, <1>5
<1>7. ASSUME NEW a \in Batches PROVE Shown(db', a, shown'[a])
  <2>1. CASE a = b
    BY <2>1, <1>6, CommitOwn
  <2>2. CASE a # b
    <3>1. RowsStay(db, db', a) /\ AttributesStay(db, db', a)
      BY <1>2, <2>2, CommitOthers
    <3>2. Shown(db', a, shown[a])
      BY <1>5, <3>1, ShownKept
    <3> QED BY <3>2, <2>2, <1>6
  <2> QED BY <2>1, <2>2
<1>8. Exact'
  BY <1>6, <1>7 DEF Exact, Shown
<1>9. Outcome'
  <2>1. \A a \in finished : shown'[a] = shown[a]
    <3>1. finished \subseteq Batches
      BY <1>2 DEF Inv, Process
    <3> QED BY <3>1, <1>3, <1>6
  <2> QED BY <2>1, <1>1, <1>2, <1>3, OutcomeFrame
<1>10. /\ left'[w] = Tail(left[w]) /\ tx'[w] = NoTx
       /\ \A u \in Workers \ {w} : left'[u] = left[u] /\ tx'[u] = tx[u]
  BY <1>1, <1>2 DEF Inv, Process
<1>11. ASSUME NEW u \in Workers, Working(u)
       PROVE  Due(db', shown'[job[u]], job[u], View(job[u]), left'[u], tx'[u])
  <2> DEFINE a == job[u]  v == View(a)
  <2>1. /\ Due(db, shown[a], a, v, left[u], tx[u]) /\ a \in Batches /\ v \in ViewsOf(a)
        /\ Orderly(mode, v, left[u], tx[u])
    BY <1>2, <1>11, WorkerIs DEF Work
  <2>2. CASE u = w
    <3>1. left[w] \in Seq(Seq(Statements(v)))
      BY <2>1, <2>2 DEF Orderly
    <3>2. \A s \in Required(v) : s \in DoneBy(tx[w]) \/ (s # Groups /\ Stored(db, shown[b], b, v, s))
                                    => Stored(db', ShownAfter(b, w), b, v, s)
      BY <1>2, <2>2, CommitStores
    <3>3. Due(db', ShownAfter(b, w), b, v, Tail(left[w]), NoTx)
      <4> HIDE DEF v
      <4> QED BY <1>1, <2>1, <2>2, <3>1, <3>2, DueCommit
    <3> QED BY <2>2, <3>3, <1>6, <1>10
  <2>3. CASE u # w
    <3>1. a # b
      BY <1>1, <1>2, <2>3, OthersWork
    <3>2. RowsStay(db, db', a) /\ db.node \subseteq db'.node
      BY <1>2, <2>1, <3>1, CommitOthers, CommitTables
    <3>3. shown'[a] = shown[a] /\ left'[u] = left[u] /\ tx'[u] = tx[u]
      BY <1>6, <1>10, <2>1, <2>3, <3>1
    <3>4. ASSUME NEW s, Stored(db, shown[a], a, v, s) PROVE Stored(db', shown[a], a, v, s)
      <4>1. s = Do("write", "containers") => a \in db'.container
        BY <3>2, <3>4 DEF Stored, RowsStay
      <4>2. s = Do("write", "equipment") =>
               \A x \in EdgeIDs(v) : x \in DOMAIN db'.equipment /\ db'.equipment[x] = a
        BY <3>2, <3>4 DEF Stored, RowsStay
      <4>3. s = Do("write", "edges") => EdgesStored(db', v)
        BY <2>1, <3>2, <3>4 DEF Stored, RowsStay
      <4>4. s.op = "node" => s.name \in db'.node
        BY <3>2, <3>4 DEF Stored
      <4> QED BY <3>4, <4>1, <4>2, <4>3, <4>4 DEF Stored
    <3>5. Due(db', shown[a], a, v, left[u], tx[u])
      BY <2>1, <3>4 DEF Due
    <3> QED BY <3>3, <3>5
  <2> QED BY <2>2, <2>3
<1>12. Work'
  <2> SUFFICES ASSUME NEW u \in Workers, Working(u)'
               PROVE  Due(db, shown[job[u]], job[u], View(job[u]), left[u], tx[u])'
    BY DEF Work
  <2>1. Working(u) /\ job'[u] = job[u] /\ View(job[u])' = View(job[u])
    BY <1>1 DEF Working, View
  <2> QED BY <1>11, <2>1
<1> QED BY <1>4, <1>8, <1>9, <1>12 DEF Reads

\* A batch that is taken has everything ahead of it.
LEMMA TakeBatchReads ==
    ASSUME ReadInv, NEW w \in Workers, TakeBatch(w)
    PROVE  Reads'
<1>1. PICK b \in Batches :
         /\ MayTake(b) /\ job' = [job EXCEPT ![w] = b] /\ taken' = taken \cup {b}
         /\ \E order \in SetToSeqs(View(b).shared) :
               left' = [left EXCEPT ![w] = Transactions(b, View(b), order)]
  BY DEF TakeBatch
<1>2. PICK order \in SetToSeqs(View(b).shared) :
         left' = [left EXCEPT ![w] = Transactions(b, View(b), order)]
  BY <1>1
<1>3. /\ phase = "running" /\ job[w] = "none"
      /\ UNCHANGED <<db, cache, phase, run, mode, finished, tx, failed, lost, faults, shown>>
  BY DEF TakeBatch
<1>4. Inv /\ Work /\ Outcome
  BY DEF ReadInv
<1>5. mode \in Modes /\ run \in Nat /\ run # 0 /\ tx[w] = NoTx /\ View(b) \in AllViews
  <2>1. mode \in Modes /\ run \in Nat /\ run # 0
    BY <1>3, <1>4, PostgresAssumption DEF Inv, Process
  <2>2. tx[w] = NoTx
    BY <1>3, <1>4 DEF Inv, Process, Working
  <2> QED BY <2>1, <2>2, ViewIsView
<1>6. (Keyed(db) /\ Named(db) /\ Exact)'
  BY <1>3, TablesFrame
<1> DEFINE q == Transactions(b, View(b), order)
<1>7. /\ left'[w] = q /\ \A u \in Workers \ {w} : left'[u] = left[u]
      /\ job'[w] = b /\ \A u \in Workers \ {w} : job'[u] = job[u]
  BY <1>1, <1>2, <1>4 DEF Inv, Process
<1>8. \A d, sh : Due(d, sh, b, View(b), q, NoTx)
  <2>1. q \in Closed(View(b)) /\ Required(View(b)) \subseteq Ahead(q)
    BY <1>5, TransactionsClosed
  <2> HIDE DEF q
  <2> QED BY <2>1, DueBegin
<1> HIDE DEF q
<1>9. Work'
  <2> SUFFICES ASSUME NEW u \in Workers, Working(u)'
               PROVE  Due(db, shown[job[u]], job[u], View(job[u]), left[u], tx[u])'
    BY DEF Work
  <2>1. CASE u = w
    BY <2>1, <1>3, <1>5, <1>7, <1>8 DEF View
  <2>2. CASE u # w
    BY <2>2, <1>3, <1>4, <1>7, WorkFrame
  <2> QED BY <2>1, <2>2
<1>10. \A u \in Workers : job'[u] = "gone" => failed'
  <2>1. b # "gone"
    BY PostgresAssumption
  <2> QED BY <2>1, <1>3, <1>4, <1>7 DEF Outcome
<1>11. ASSUME ~failed', NEW a \in taken' PROVE a \in finished' \/ \E u \in Workers : job'[u] = a
  <2>1. CASE a = b
    BY <2>1, <1>7
  <2>2. CASE a # b
    <3>1. a \in taken /\ (a \in finished \/ \E u \in Workers : job[u] = a)
      BY <2>2, <1>1, <1>3, <1>4, <1>11 DEF Outcome
    <3>2. a # "none"
      BY <1>4, <3>1, PostgresAssumption DEF Inv, Process
    <3> QED BY <3>1, <3>2, <1>3, <1>7
  <2> QED BY <2>1, <2>2
<1>12. (\A a \in finished : Shows(a))'
  BY <1>3, <1>4 DEF Outcome, Shows, View
<1>13. Outcome'
  BY <1>3, <1>10, <1>11, <1>12 DEF Outcome
<1> QED BY <1>6, <1>9, <1>13 DEF Reads

\* Nothing is ahead, so all is stored.
LEMMA EndBatchReads ==
    ASSUME ReadInv, NEW w \in Workers, EndBatch(w)
    PROVE  Reads'
<1> DEFINE b == job[w]  v == View(b)
<1>1. /\ Working(w) /\ left[w] = <<>> /\ finished' = finished \cup {b}
      /\ job' = [job EXCEPT ![w] = "none"]
      /\ UNCHANGED <<db, cache, phase, run, mode, taken, left, tx, failed, lost, faults, shown>>
  BY DEF EndBatch
<1>2. Inv /\ Work /\ Outcome
  BY DEF ReadInv
<1>3. (Keyed(db) /\ Named(db) /\ Exact)'
  BY <1>1, TablesFrame
<1>4. phase = "running" /\ tx[w] = NoTx /\ b \in Batches
  BY <1>1, <1>2, WorkerIs DEF Orderly
<1>5. Shows(b)
  <2>1. Due(db, shown[b], b, v, left[w], tx[w])
    BY <1>1, <1>2 DEF Work
  <2>2. Ahead(left[w]) = {} /\ DoneBy(tx[w]) = {}
    BY <1>1, <1>4, NoTxIs DEF Ahead
  <2>3. \A s \in Required(v) : Stored(db, shown[b], b, v, s)
    BY <2>1, <2>2 DEF Due
  <2>4. Groups \in Required(v)
    BY DEF Required, Groups
  <2>5. OwnersOf(v) # {} => Do("write", "attributes") \in Required(v)
    BY DEF Required
  <2> QED BY <2>3, <2>4, <2>5 DEF Stored, Shows
<1>6. job'[w] = "none" /\ \A u \in Workers \ {w} : job'[u] = job[u]
  BY <1>1, <1>2 DEF Inv, Process
<1>7. Work'
  <2> SUFFICES ASSUME NEW u \in Workers, Working(u)'
               PROVE  Due(db, shown[job[u]], job[u], View(job[u]), left[u], tx[u])'
    BY DEF Work
  <2>1. u # w
    BY <1>6 DEF Working
  <2> QED BY <2>1, <1>1, <1>2, <1>6, WorkFrame
<1>8. \A u \in Workers : job'[u] = "gone" => failed'
  BY <1>1, <1>2, <1>6 DEF Outcome
<1>9. ASSUME ~failed', NEW a \in taken' PROVE a \in finished' \/ \E u \in Workers : job'[u] = a
  <2>1. a \in finished \/ \E u \in Workers : job[u] = a
    BY <1>1, <1>2, <1>9 DEF Outcome
  <2> QED BY <2>1, <1>1, <1>6
<1>10. (\A a \in finished : Shows(a))'
  <2>1. \A a \in finished' : Shows(a)
    BY <1>1, <1>2, <1>5 DEF Outcome
  <2> QED BY <2>1, <1>1 DEF Shows, View
<1>11. Outcome'
  BY <1>1, <1>4, <1>8, <1>9, <1>10 DEF Outcome
<1> QED BY <1>3, <1>7, <1>11 DEF Reads

\* A rollback shows nothing new: the run has failed.
LEMMA RollBackReads ==
    ASSUME ReadInv, NEW w \in Workers, Working(w), RollBack(w)
    PROVE  Reads'
<1>1. /\ tx' = [tx EXCEPT ![w] = NoTx] /\ left' = [left EXCEPT ![w] = <<>>]
      /\ job' = [job EXCEPT ![w] = "gone"] /\ failed'
      /\ UNCHANGED <<db, cache, phase, run, mode, taken, finished, shown>>
  BY DEF RollBack
<1>2. Inv /\ Work /\ Outcome
  BY DEF ReadInv
<1>3. (Keyed(db) /\ Named(db) /\ Exact)'
  BY <1>1, TablesFrame
<1>4. phase = "running"
  BY <1>2, WorkerIs
<1>5. /\ job'[w] = "gone"
      /\ \A u \in Workers \ {w} : job'[u] = job[u] /\ left'[u] = left[u] /\ tx'[u] = tx[u]
  BY <1>1, <1>2 DEF Inv, Process
<1>6. Work'
  <2> SUFFICES ASSUME NEW u \in Workers, Working(u)'
               PROVE  Due(db, shown[job[u]], job[u], View(job[u]), left[u], tx[u])'
    BY DEF Work
  <2>1. u # w
    BY <1>5 DEF Working
  <2> QED BY <2>1, <1>1, <1>2, <1>5, WorkFrame
<1>7. (\A a \in finished : Shows(a))'
  BY <1>1, <1>2 DEF Outcome, Shows, View
<1>8. Outcome'
  BY <1>1, <1>4, <1>7 DEF Outcome
<1> QED BY <1>3, <1>6, <1>8 DEF Reads

\* Tables that differ in their flags alone.
LEMMA FlagsFrame ==
    ASSUME IsDB(db), Keyed(db), Named(db), Exact, db' = [db EXCEPT !.flag = {}], UNCHANGED shown
    PROVE  (Keyed(db) /\ Named(db) /\ Exact)'
<1>1. /\ db'.dict = db.dict /\ db'.container = db.container /\ db'.equipment = db.equipment
      /\ db'.node = db.node /\ db'.edge = db.edge /\ db'.endpoint = db.endpoint
      /\ db'.attr = db.attr /\ db'.group = db.group
  BY DEF IsDB
<1>2. Keyed(db')
  BY <1>1 DEF Keyed
<1>3. Named(db')
  BY <1>1 DEF Named
<1>4. \A n : GetEdgesByNodeIDs(db', n) = GetEdgesByNodeIDs(db, n)
  BY <1>1 DEF GetEdgesByNodeIDs
<1>5. \A o : GetByOwnerIDs(db', o) = GetByOwnerIDs(db, o)
  BY <1>1 DEF GetByOwnerIDs
<1>6. \A b, v : RowsOf(db, b, v) => RowsOf(db', b, v)
  BY <1>1, <1>4 DEF RowsOf
<1>7. \A v : AttributesOf(db, v) => AttributesOf(db', v)
  BY <1>5 DEF AttributesOf
<1>8. Exact'
  BY <1>6, <1>7 DEF Exact, Shown
<1> QED BY <1>2, <1>3, <1>8

\* A process that ends without an error has finished every batch.
LEMMA FinishRunReads ==
    ASSUME ReadInv, FinishRun
    PROVE  Reads'
<1>1. /\ phase = "running" /\ PoolDrained /\ phase' = IF failed THEN "failed" ELSE "done"
      /\ taken' = {} /\ finished' = {} /\ job' = [w \in Workers |-> "none"] /\ ~failed'
      /\ db' = IF failed THEN db ELSE [db EXCEPT !.flag = {}]
      /\ UNCHANGED <<run, mode, faults, shown>>
  BY DEF FinishRun, EndProcess
<1>2. Inv /\ Keyed(db) /\ Named(db) /\ Outcome /\ Exact
  BY DEF ReadInv
<1>3. (Keyed(db) /\ Named(db) /\ Exact)'
  <2>1. CASE failed
    BY <1>1, <2>1, TablesFrame
  <2>2. CASE ~failed
    BY <1>1, <1>2, <2>2, FlagsFrame DEF Inv, TablesKnown
  <2> QED BY <2>1, <2>2
<1>4. \A w \in Workers : job'[w] = "none"
  BY <1>1
<1>5. Work'
  BY <1>4 DEF Work, Working
<1>6. ASSUME ~failed, NEW b \in Batches PROVE Shows(b)
  <2>1. \A w \in Workers : ~Working(w) /\ job[w] # "gone"
    BY <1>1, <1>2, <1>6 DEF PoolDrained, Outcome
  <2>2. \A a \in Batches : ~MayTake(a)
    BY <1>1, <2>1, PostgresAssumption DEF PoolDrained
  <2>3. \A a \in taken : a \in finished
    <3>1. \A a \in taken : a # "none" /\ a # "gone"
      BY <1>2, PostgresAssumption DEF Inv, Process
    <3> QED BY <1>2, <1>6, <2>1, <3>1 DEF Outcome, Working
  <2>4. PassA \subseteq finished
    <3>1. \A a \in PassA : a \in Batches /\ a \notin PassB
      BY DEF PassA
    <3> QED BY <2>2, <2>3, <3>1 DEF MayTake
  <2>5. b \in taken
    BY <1>6, <2>2, <2>3, <2>4 DEF MayTake
  <2> QED BY <1>2, <2>3, <2>5 DEF Outcome
<1>7. \A b \in Batches : Shows(b) => Shows(b)'
  BY <1>1 DEF Shows, View
<1>8. Outcome'
  BY <1>1, <1>4, <1>6, <1>7 DEF Outcome
<1> QED BY <1>3, <1>5, <1>8 DEF Reads

\* A kill shows nothing new.
LEMMA KillReads ==
    ASSUME ReadInv, Kill
    PROVE  Reads'
<1>1. /\ phase' = "failed" /\ taken' = {} /\ finished' = {}
      /\ job' = [w \in Workers |-> "none"] /\ ~failed' /\ UNCHANGED <<db, run, mode, shown>>
  BY DEF Kill, EndProcess
<1>2. (Keyed(db) /\ Named(db) /\ Exact)'
  BY <1>1, TablesFrame
<1>3. \A w \in Workers : job'[w] = "none"
  BY <1>1
<1>4. Work'
  BY <1>3 DEF Work, Working
<1>5. Outcome'
  BY <1>1, <1>3 DEF Outcome
<1> QED BY <1>2, <1>4, <1>5 DEF Reads

\* Empty tables show nothing of any batch.
LEMMA EmptyReads ==
    /\ Keyed(EmptyDB) /\ Named(EmptyDB)
    /\ \A b \in Batches : Shown(EmptyDB, b, [rows |-> Absent, attrs |-> Absent])
<1>1. /\ EmptyDB.container = {} /\ EmptyDB.equipment = NoRow /\ EmptyDB.node = {}
      /\ EmptyDB.edge = NoRow /\ EmptyDB.endpoint = {} /\ EmptyDB.attr = {} /\ EmptyDB.group = {}
      /\ DOMAIN NoRow = {}
  BY DEF EmptyDB, NoRow
<1>2. Keyed(EmptyDB) /\ Named(EmptyDB)
  BY <1>1 DEF Keyed, Named
<1>3. EdgeIDs(Absent) = {} /\ TerminalsOf(Absent) = {}
  BY AbsentIs
<1>4. ASSUME NEW b \in Batches PROVE RowsOf(EmptyDB, b, Absent)
  <2>1. GroupsOf(b, Absent) = {}
    BY <1>3 DEF GroupsOf
  <2> QED BY <1>1, <1>3, <2>1 DEF RowsOf
<1> QED BY <1>2, <1>4 DEF Shown

\* A reset shows nothing, and another run what there was.
LEMMA StartRunReads ==
    ASSUME ReadInv, StartRun
    PROVE  Reads'
<1>1. /\ phase # "running" /\ phase' = "running"
      /\ \/ db' = EmptyDB /\ shown' = NothingShown
         \/ db' = [db EXCEPT !.flag = {}] /\ UNCHANGED shown
      /\ UNCHANGED <<taken, finished, job, left, tx, failed, lost, faults>>
  BY DEF StartRun
<1>2. Inv /\ Keyed(db) /\ Named(db) /\ Outcome /\ Exact
  BY DEF ReadInv
<1>3. (Keyed(db) /\ Named(db) /\ Exact)'
  <2>1. CASE db' = EmptyDB /\ shown' = NothingShown
    <3>1. Keyed(db') /\ Named(db')
      BY <2>1, EmptyReads
    <3>2. /\ DOMAIN shown' = Batches
          /\ \A b \in Batches : shown'[b] = [rows |-> Absent, attrs |-> Absent]
      BY <2>1 DEF NothingShown
    <3>3. \A b \in Batches : Shown(db', b, shown'[b])
      BY <2>1, <3>2, EmptyReads
    <3>4. Exact'
      BY <3>2, <3>3 DEF Exact, Shown
    <3> QED BY <3>1, <3>4
  <2>2. CASE db' = [db EXCEPT !.flag = {}] /\ UNCHANGED shown
    BY <1>2, <2>2, FlagsFrame DEF Inv, TablesKnown
  <2> QED BY <1>1, <2>1, <2>2
<1>4. \A w \in Workers : job'[w] = "none"
  BY <1>1, <1>2, IdleIs
<1>5. Work'
  BY <1>4 DEF Work, Working
<1>6. taken' = {} /\ finished' = {}
  BY <1>1, <1>2 DEF Outcome
<1>7. Outcome'
  BY <1>1, <1>4, <1>6 DEF Outcome
<1> QED BY <1>3, <1>5, <1>7 DEF Reads

\* Steps of nothing.
LEMMA StutterReads == ASSUME ReadInv, UNCHANGED vars PROVE Reads'
<1>1. (Keyed(db) /\ Named(db) /\ Exact)'
  BY TablesFrame DEF vars
<1>2. Outcome'
  BY DEF vars, ReadInv, Outcome, Shows, View
<1>3. Work'
  <2>1. \A w \in Workers : Working(w)' =>
           Due(db, shown[job[w]], job[w], View(job[w]), left[w], tx[w])'
    BY WorkFrame DEF vars, ReadInv
  <2> QED BY <2>1 DEF Work
<1> QED BY <1>1, <1>2, <1>3 DEF Reads

\* The initial states.
LEMMA InitReads == ASSUME Init PROVE Reads
<1>1. Keyed(db) /\ Named(db)
  BY EmptyReads DEF Init
<1>2. /\ DOMAIN shown = Batches
      /\ \A b \in Batches : shown[b] = [rows |-> Absent, attrs |-> Absent]
  BY DEF Init, NothingShown
<1>3. \A b \in Batches : Shown(db, b, shown[b])
  BY <1>2, EmptyReads DEF Init
<1>4. Exact
  BY <1>2, <1>3 DEF Exact, Shown
<1>5. \A w \in Workers : job[w] = "none"
  BY DEF Init
<1>6. Work
  BY <1>5 DEF Work, Working
<1>7. Outcome
  BY <1>5 DEF Init, Outcome
<1> QED BY <1>1, <1>4, <1>6, <1>7 DEF Reads

-----------------------------------------------------------------------------
(* A prune takes the rows of its batch, and no others.                      *)

\* What the deletion of b removes from tables c.
EquipmentOf(c, b) == {x \in DOMAIN c.equipment : c.equipment[x] = b}

\* The tables after the deletion of b: no node that an edge refers to is gone.
LEMMA DeletedAre ==
    ASSUME IsDB(db), Named(db), NEW b \in Batches, db' = DeleteContainersTx(db, b)
    PROVE  \E gone :
              /\ db'.dict = db.dict /\ db'.container = db.container \ {b}
              /\ db'.equipment = [x \in DOMAIN db.equipment \ EquipmentOf(db, b) |-> db.equipment[x]]
              /\ db'.edge = [e \in DOMAIN db.edge \ EquipmentOf(db, b) |-> db.edge[e]]
              /\ db'.group = {g \in db.group : g[2] # <<"station", b>>}
              /\ db'.node = db.node \ gone
              /\ db'.attr = db.attr \ OwnedRows(db, {b} \cup EquipmentOf(db, b) \cup gone)
              /\ db'.endpoint = {p \in db.endpoint :
                                    ~(p[1][1] \in gone /\ p[1] = Key(db.dict, p[1][1]))}
              /\ gone \subseteq EquipmentOf(db, b) \cup Ends
              /\ \A e \in DOMAIN db'.edge : ToSet(db'.edge[e]) \cap gone = {}
<1> DEFINE eqs == EquipmentOf(db, b)
           ownGroups == {g \in db.group : g[2] = <<"station", b>>}
           candidates == eqs \cup {g[1] : g \in ownGroups}
                             \cup UNION {ToSet(db.edge[e]) : e \in DOMAIN db.edge \cap eqs}
           edge == [e \in DOMAIN db.edge \ eqs |-> db.edge[e]]
           equipment == [x \in DOMAIN db.equipment \ eqs |-> db.equipment[x]]
           d1 == [db EXCEPT !.edge = edge, !.equipment = equipment,
                            !.group = db.group \ ownGroups, !.container = db.container \ {b}]
           gone == {n \in candidates : ~StillReferenced(d1, n)}
<1>1. db' = [d1 EXCEPT !.node = d1.node \ gone,
                       !.attr = d1.attr \ OwnedRows(db, {b} \cup eqs \cup gone),
                       !.endpoint = {p \in d1.endpoint :
                                       ~(p[1][1] \in gone /\ p[1] = Key(db.dict, p[1][1]))}]
  BY DEF DeleteContainersTx, EquipmentOf
<1> HIDE DEF eqs, edge, equipment
<1>2. /\ IsDB(d1) /\ d1.dict = db.dict /\ d1.container = db.container \ {b}
      /\ d1.equipment = equipment /\ d1.edge = edge /\ d1.group = db.group \ ownGroups
      /\ d1.node = db.node /\ d1.attr = db.attr /\ d1.endpoint = db.endpoint
  <2> HIDE DEF ownGroups
  <2> QED BY DEF IsDB
<1>3. gone \subseteq eqs \cup Ends
  <2>1. \A g \in ownGroups : g[1] \in Ends
    BY DEF Named
  <2>2. \A e \in DOMAIN db.edge : ToSet(db.edge[e]) \subseteq Ends
    BY DEF Named
  <2>3. candidates \subseteq eqs \cup Ends
    <3> HIDE DEF ownGroups
    <3> QED BY <2>1, <2>2
  <2> HIDE DEF candidates, d1
  <2> QED BY <2>3
<1> HIDE DEF d1
<1>4. \A e \in DOMAIN edge : ToSet(edge[e]) \cap gone = {}
  BY <1>2 DEF StillReferenced
<1> HIDE DEF gone
<1>5. /\ db'.dict = d1.dict /\ db'.container = d1.container /\ db'.equipment = d1.equipment
      /\ db'.edge = d1.edge /\ db'.group = d1.group /\ db'.node = d1.node \ gone
      /\ db'.attr = d1.attr \ OwnedRows(db, {b} \cup eqs \cup gone)
      /\ db'.endpoint = {p \in d1.endpoint : ~(p[1][1] \in gone /\ p[1] = Key(db.dict, p[1][1]))}
  BY <1>1, <1>2 DEF IsDB
<1>6. db.group \ ownGroups = {g \in db.group : g[2] # <<"station", b>>}
  OBVIOUS
<1> HIDE DEF ownGroups
<1>7. /\ db'.dict = db.dict /\ db'.container = db.container \ {b}
      /\ db'.equipment = equipment /\ db'.edge = edge
      /\ db'.group = {g \in db.group : g[2] # <<"station", b>>}
      /\ db'.node = db.node \ gone
      /\ db'.attr = db.attr \ OwnedRows(db, {b} \cup eqs \cup gone)
      /\ db'.endpoint = {p \in db.endpoint : ~(p[1][1] \in gone /\ p[1] = Key(db.dict, p[1][1]))}
  BY <1>2, <1>5, <1>6
<1>8. \A e \in DOMAIN db'.edge : ToSet(db'.edge[e]) \cap gone = {}
  BY <1>4, <1>7
<1> WITNESS gone
<1> QED BY <1>3, <1>7, <1>8 DEF equipment, edge, eqs

\* Edges and owners of another batch.
LEMMA DeletedOthers ==
    ASSUME IsDB(db), Keyed(db), Named(db), NEW b \in Batches, db' = DeleteContainersTx(db, b),
           NEW a \in Batches, a # b
    PROVE  RowsStay(db, db', a) /\ AttributesStay(db, db', a)
<1> DEFINE eqs == EquipmentOf(db, b)
<1>1. PICK gone :
         /\ db'.dict = db.dict /\ db'.container = db.container \ {b}
         /\ db'.equipment = [x \in DOMAIN db.equipment \ eqs |-> db.equipment[x]]
         /\ db'.edge = [e \in DOMAIN db.edge \ eqs |-> db.edge[e]]
         /\ db'.group = {g \in db.group : g[2] # <<"station", b>>}
         /\ db'.node = db.node \ gone
         /\ db'.attr = db.attr \ OwnedRows(db, {b} \cup eqs \cup gone)
         /\ db'.endpoint = {p \in db.endpoint : ~(p[1][1] \in gone /\ p[1] = Key(db.dict, p[1][1]))}
         /\ gone \subseteq eqs \cup Ends
         /\ \A e \in DOMAIN db'.edge : ToSet(db'.edge[e]) \cap gone = {}
  BY DeletedAre
<1>2. Grows(db, db')
  BY <1>1 DEF Grows
<1>3. \A x : x \in eqs <=> x \in DOMAIN db.equipment /\ db.equipment[x] = b
  BY DEF EquipmentOf
<1>4. ASSUME NEW v \in ViewsOf(a)
      PROVE  /\ v \in AllViews /\ b \notin OwnersOf(v)
             /\ \A x \in eqs : x \notin EdgeIDs(v) /\ x \notin OwnersOf(v)
             /\ \A o \in OwnersOf(v) : o \notin gone
  <2>1. v \in AllViews
    BY DEF AllViews
  <2>2. b \notin OwnersOf(v)
    <3>1. PICK u : u \in ViewsOf(b)
      <4>1. VersionsOf[b] \in Seq(ViewsOf(b)) /\ VersionsOf[b] # <<>>
        BY PostgresAssumption
      <4>2. Head(VersionsOf[b]) \in ViewsOf(b)
        BY <4>1
      <4> QED BY <4>2
    <3> QED BY <3>1, Apart
  <2>3. ASSUME NEW x \in eqs PROVE x \notin EdgeIDs(v) /\ x \notin OwnersOf(v)
    <3>1. PICK u \in ViewsOf(b) : x \in EdgeIDs(u)
      BY <1>3, <2>3 DEF Named
    <3>2. EdgeIDs(u) \cap EdgeIDs(v) = {} /\ EdgeIDs(u) \cap OwnersOf(v) = {}
      BY Apart
    <3> QED BY <3>1, <3>2
  <2>4. Ends \cap OwnersOf(v) = {}
    BY <2>1, TerminalsAreNodes
  <2> QED BY <1>1, <2>1, <2>2, <2>3, <2>4
<1> HIDE DEF eqs
<1>5. a \in db'.container <=> a \in db.container
  BY <1>1
<1>6. ASSUME NEW x
      PROVE  (x \in DOMAIN db'.equipment /\ db'.equipment[x] = a)
             <=> (x \in DOMAIN db.equipment /\ db.equipment[x] = a)
  BY <1>1, <1>3
<1>7. ASSUME NEW g, g[2] = GroupOwner(a) PROVE g \in db'.group <=> g \in db.group
  <2>1. g[2] # <<"station", b>>
    BY <1>7 DEF GroupOwner
  <2> QED BY <1>1, <2>1
<1>8. ASSUME NEW v \in ViewsOf(a), EdgesStored(db, v)
      PROVE  EdgesStored(db', v) /\ (TerminalsOf(v) \subseteq db.node => TerminalsOf(v) \subseteq db'.node)
  <2>1. ASSUME NEW e \in EdgeIDs(v)
        PROVE  /\ e \in DOMAIN db'.edge /\ db'.edge[e] = db.edge[e] /\ db.edge[e] = EdgeRows(v)[e]
               /\ ToSet(EdgeRows(v)[e]) \cap gone = {}
    <3>1. e \in DOMAIN db.edge /\ db.edge[e] = EdgeRows(v)[e] /\ e \notin eqs
      BY <1>4, <1>8 DEF EdgesStored
    <3>2. e \in DOMAIN db'.edge /\ db'.edge[e] = db.edge[e]
      BY <1>1, <3>1
    <3> QED BY <1>1, <3>1, <3>2
  <2>2. ASSUME NEW e \in EdgeIDs(v), NEW p, p[2][1] = e, p[1][1] \in AllNodes
        PROVE  p \in db'.endpoint <=> p \in db.endpoint
    <3>1. ASSUME p \in db.endpoint, p[1][1] \in gone PROVE FALSE
      <4>1. /\ p[1][1] \in DOMAIN db.dict /\ e \in DOMAIN db.dict
            /\ p = <<Key(db.dict, p[1][1]), Key(db.dict, e)>>
        BY <2>2, <3>1 DEF Keyed
      <4>2. e \in DOMAIN db.edge /\ db.edge[e] = EdgeRows(v)[e]
        BY <1>8 DEF EdgesStored
      <4>3. e \in GetEdgesByNodeIDs(db, p[1][1])
        BY <3>1, <4>1, <4>2 DEF GetEdgesByNodeIDs
      <4>4. p[1][1] \in ToSet(db.edge[e])
        BY <1>8, <2>2, <4>3 DEF EdgesStored
      <4> QED BY <2>1, <3>1, <4>2, <4>4
    <3> QED BY <1>1, <3>1
  <2>3. EdgesStored(db', v)
    BY <1>2, <1>4, <1>8, <2>1, <2>2, EdgesKept
  <2>4. ASSUME NEW n \in TerminalsOf(v) PROVE n \notin gone
    <3>1. PICK e \in EdgesOf(v) : n \in {e.t1, e.t2}
      BY DEF TerminalsOf
    <3>2. e.id \in EdgeIDs(v)
      BY DEF EdgeIDs
    <3>3. ToSet(EdgeRows(v)[e.id]) = {e.t1, e.t2}
      <4>1. PICK f \in EdgesOf(v) : /\ ToSet(EdgeRows(v)[e.id]) = {f.t1, f.t2}
                                    /\ \A h \in EdgesOf(v) : h.id = e.id => h = f
        BY <1>4, <3>2, EdgeRowIs
      <4> QED BY <4>1
    <3> QED BY <2>1, <3>1, <3>2, <3>3
  <2> QED BY <1>1, <2>3, <2>4
<1>9. ASSUME NEW v \in ViewsOf(a), AttributesOf(db, v) PROVE AttributesOf(db', v)
  <2>1. ASSUME NEW o \in OwnersOf(v), NEW r, r[1][1] = o PROVE r \in db'.attr <=> r \in db.attr
    <3>1. o \notin {b} \cup eqs \cup gone
      BY <1>4
    <3> QED BY <1>1, <2>1, <3>1 DEF OwnedRows
  <2> QED BY <1>2, <1>9, <2>1, AttributesKept
<1>10. RowsStay(db, db', a)
  BY <1>5, <1>6, <1>7, <1>8 DEF RowsStay
<1> QED BY <1>9, <1>10 DEF AttributesStay

\* Of a Pass A batch nothing stays.
LEMMA DeletedOwn ==
    ASSUME IsDB(db), Named(db), NEW b \in PassA, db' = DeleteContainersTx(db, b)
    PROVE  RowsOf(db', b, Absent)
<1>1. b \in Batches /\ b \notin PassB
  BY DEF PassA
<1>2. PICK gone :
         /\ db'.container = db.container \ {b}
         /\ db'.equipment = [x \in DOMAIN db.equipment \ EquipmentOf(db, b) |-> db.equipment[x]]
         /\ db'.group = {g \in db.group : g[2] # <<"station", b>>}
  BY <1>1, DeletedAre
<1>3. EdgeIDs(Absent) = {} /\ TerminalsOf(Absent) = {}
  BY AbsentIs
<1>4. {x \in DOMAIN db'.equipment : db'.equipment[x] = b} = {}
  BY <1>2 DEF EquipmentOf
<1>5. {g \in db'.group : g[2] = GroupOwner(b)} = {} /\ GroupsOf(b, Absent) = {}
  BY <1>1, <1>2, <1>3 DEF GroupOwner, GroupsOf
<1> QED BY <1>2, <1>3, <1>4, <1>5 DEF RowsOf

\* A prune leaves the other batches as they are.
LEMMA DeleteContainersReads ==
    ASSUME ReadInv, NEW b \in Batches, DeleteContainers(b)
    PROVE  Reads'
<1>1. /\ phase \in {"done", "failed"} /\ phase' = "idle" /\ db' = DeleteContainersTx(db, b)
      /\ shown' = [shown EXCEPT ![b] = IF b \in PassA /\ shown[b].rows # Partial
                                       THEN [rows |-> Absent, attrs |-> Absent]
                                       ELSE [rows |-> Partial, attrs |-> Partial]]
      /\ UNCHANGED <<cache, run, mode, taken, finished, job, left, tx, failed, lost>>
  BY DEF DeleteContainers
<1>2. Inv /\ Keyed(db) /\ Named(db) /\ Outcome /\ Exact /\ IsDB(db)
  BY DEF ReadInv, Inv, TablesKnown
<1>3. PICK gone :
         /\ db'.dict = db.dict
         /\ db'.equipment = [x \in DOMAIN db.equipment \ EquipmentOf(db, b) |-> db.equipment[x]]
         /\ db'.edge = [e \in DOMAIN db.edge \ EquipmentOf(db, b) |-> db.edge[e]]
         /\ db'.group \subseteq db.group /\ db'.attr \subseteq db.attr /\ db'.endpoint \subseteq db.endpoint
  BY <1>1, <1>2, DeletedAre
<1>4. Keyed(db')
  BY <1>2, <1>3 DEF Keyed
<1>5. Named(db')
  BY <1>2, <1>3 DEF Named
<1>6. DOMAIN shown = Batches /\ \A a \in Batches : Shown(db, a, shown[a])
  BY <1>2 DEF Exact, Shown
<1>7. ASSUME NEW a \in Batches PROVE Shown(db', a, shown'[a])
  <2>1. CASE a # b
    <3>1. RowsStay(db, db', a) /\ AttributesStay(db, db', a)
      BY <1>1, <1>2, <2>1, DeletedOthers
    <3>2. Shown(db', a, shown[a])
      BY <1>6, <3>1, ShownKept
    <3> QED BY <3>2, <2>1, <1>1, <1>6
  <2>2. CASE a = b /\ b \in PassA /\ shown[b].rows # Partial
    <3>1. RowsOf(db', b, Absent)
      BY <1>1, <1>2, <2>2, DeletedOwn
    <3>2. shown'[b] = [rows |-> Absent, attrs |-> Absent]
      BY <1>1, <1>6, <2>2
    <3> QED BY <2>2, <3>1, <3>2 DEF Shown
  <2>3. CASE a = b /\ ~(b \in PassA /\ shown[b].rows # Partial)
    <3>1. shown'[b] = [rows |-> Partial, attrs |-> Partial]
      BY <1>1, <1>6, <2>3
    <3> QED BY <2>3, <3>1 DEF Shown
  <2> QED BY <2>1, <2>2, <2>3
<1>8. Exact'
  <2>1. DOMAIN shown' = Batches
    BY <1>1, <1>6
  <2> QED BY <1>7, <2>1 DEF Exact, Shown
<1>9. \A w \in Workers : job'[w] = "none"
  BY <1>1, <1>2, IdleIs
<1>10. Work'
  BY <1>9 DEF Work, Working
<1>11. Outcome'
  BY <1>1, <1>2, <1>9 DEF Outcome
<1> QED BY <1>4, <1>5, <1>8, <1>10, <1>11 DEF Reads

\* Every step.
LEMMA ReadStepKeeps ==
    ASSUME ReadInv, [Next]_vars
    PROVE  ReadInv'
<1>1. Inv'
  BY StepKeeps DEF ReadInv
<1>2. CASE \E w \in Workers : WorkerStep(w) \/ DeadlockError(w) \/ Fault(w)
  <2>1. PICK w \in Workers : WorkerStep(w) \/ DeadlockError(w) \/ Fault(w)
    BY <1>2
  <2>2. CASE TakeBatch(w)
    BY <1>1, <2>2, TakeBatchReads DEF Reads, ReadInv
  <2>3. CASE UpsertNode(w) \/ MarkFlag(w) \/ Resolve(w) \/ Write(w)
    BY <1>1, <2>3, StatementReads DEF Reads, ReadInv
  <2>4. CASE Commit(w)
    BY <1>1, <2>4, CommitReads DEF Reads, ReadInv
  <2>5. CASE EndBatch(w)
    BY <1>1, <2>5, EndBatchReads DEF Reads, ReadInv
  <2>6. CASE ForeignKeyError(w) \/ DeadlockError(w) \/ Fault(w)
    <3>1. DeadlockError(w) => \E u \in Workers : HeldBy(w, u)
      BY DEF DeadlockError, Deadlocked
    <3>2. Working(w) /\ RollBack(w)
      BY <2>6, <3>1 DEF ForeignKeyError, DeadlockError, Fault, HeldBy, Open
    <3> QED BY <1>1, <3>2, RollBackReads DEF Reads, ReadInv
  <2> QED BY <2>1, <2>2, <2>3, <2>4, <2>5, <2>6 DEF WorkerStep
<1>3. CASE StartRun
  BY <1>1, <1>3, StartRunReads DEF Reads, ReadInv
<1>4. CASE FinishRun
  BY <1>1, <1>4, FinishRunReads DEF Reads, ReadInv
<1>5. CASE Kill
  BY <1>1, <1>5, KillReads DEF Reads, ReadInv
<1>6. CASE \E b \in Batches : DeleteContainers(b)
  BY <1>1, <1>6, DeleteContainersReads DEF Reads, ReadInv
<1>7. CASE UNCHANGED vars
  BY <1>1, <1>7, StutterReads DEF Reads, ReadInv
<1> QED BY <1>2, <1>3, <1>4, <1>5, <1>6, <1>7 DEF Next

\* The inductive invariant behind it: each statement of a worker's batch is ahead of it, in its
\* open transaction or stored, with the groups last; rows refer to ids of the dictionary; and
\* no step of another batch, a prune included, takes or adds rows of a batch.
THEOREM ReadersInvariant == Spec => []ReadInv
<1>1. Init => ReadInv
  BY InitHolds, InitReads DEF Reads, ReadInv
<1>2. ReadInv /\ [Next]_vars => ReadInv'
  BY ReadStepKeeps
<1> QED BY <1>1, <1>2, PTL DEF Spec

\* Whatever overlaps, fails, is killed, pruned or imported again, readers see of each batch
\* exactly the rows of the view stored last, and after a successful run those of its view.
THEOREM BatchesShowWhole == Spec => []StoreExact
<1>1. ReadInv => StoreExact
  BY DEF ReadInv, Exact, Shown, Outcome, Shows, StoreExact
<1> QED BY <1>1, ReadersInvariant, PTL
=============================================================================
