-------------------------- MODULE HJSONWatchProofs --------------------------
(***************************************************************************)
(* The watch loop for every finite tree, any number of edits and any       *)
(* capacity of the kernel's queue: it keeps every change it was told of    *)
(* until that is imported, and it loses no directory.                      *)
(***************************************************************************)
EXTENDS HJSONWatch, FiniteSetTheorems, TLAPS

-----------------------------------------------------------------------------
(* The tree.                                                                *)

\* A directory is below itself; what is below it is a directory.
LEMMA BelowSelf == \A d \in Dirs : d \in Below[d] /\ Below[d] \subseteq Dirs
  BY DEF Below

\* Any set with d and the children of all it holds has what is below d.
LEMMA BelowIn ==
    ASSUME NEW d \in Dirs, NEW S \in SUBSET Dirs, d \in S, HoldsChildren(S)
    PROVE  Below[d] \subseteq S
  BY DEF Below

LEMMA BelowHoldsChildren == \A d \in Dirs : HoldsChildren(Below[d])
<1> SUFFICES ASSUME NEW d \in Dirs, NEW f \in Dirs \ {RootDir}, Parent[f] \in Below[d],
                    NEW S \in SUBSET Dirs, d \in S, HoldsChildren(S)
             PROVE  f \in S
  BY DEF Below, HoldsChildren
<1>1. Parent[f] \in S
  BY BelowIn
<1> QED BY <1>1 DEF HoldsChildren

LEMMA BelowTransitive ==
    ASSUME NEW x \in Dirs, NEW d \in Below[x] PROVE Below[d] \subseteq Below[x]
  BY BelowSelf, BelowHoldsChildren, BelowIn

\* What is below d is d, or its parent is below d.
LEMMA BelowStep ==
    ASSUME NEW d \in Dirs, NEW e \in Below[d], e # d
    PROVE  e # RootDir /\ Parent[e] \in Below[d]
<1> DEFINE S == {d} \cup {f \in Dirs \ {RootDir} : Parent[f] \in Below[d]}
<1>1. S \subseteq Below[d]
  BY BelowSelf, BelowHoldsChildren DEF HoldsChildren
<1>2. HoldsChildren(S)
  BY <1>1, TreeAssumption DEF HoldsChildren
<1>3. e \in S
  BY <1>2, BelowIn
<1> QED BY <1>3

\* Two directories below each other are one.
LEMMA BelowAntisymmetric ==
    ASSUME NEW x \in Dirs, NEW d \in Below[x], x \in Below[d] PROVE x = d
<1> SUFFICES ASSUME x # d PROVE FALSE
  OBVIOUS
<1>0. d \in Dirs
  BY BelowSelf
<1> DEFINE C == {y \in Dirs : y \in Below[d] /\ d \in Below[y]}
           S == Dirs \ C
<1>1. \A f \in C : f # RootDir /\ Parent[f] \in C
  <2> TAKE f \in C
  <2>1. CASE f = d
    <3>1. d # RootDir /\ Parent[d] \in Below[x] /\ Parent[d] \in Dirs
      BY BelowStep, BelowSelf, TreeAssumption
    <3>2. Parent[d] \in Below[d]
      BY <3>1, <1>0, BelowTransitive
    <3>3. d \in Below[Parent[d]]
      BY <3>1, <1>0, BelowSelf, BelowHoldsChildren DEF HoldsChildren
    <3> QED BY <2>1, <3>1, <3>2, <3>3
  <2>2. CASE f # d
    <3>1. f # RootDir /\ Parent[f] \in Below[d] /\ Parent[f] \in Dirs
      BY <2>2, <1>0, BelowStep, BelowSelf
    <3>2. f \in Below[Parent[f]]
      BY <3>1, BelowSelf, BelowHoldsChildren DEF HoldsChildren
    <3>3. d \in Below[Parent[f]]
      BY <3>1, <3>2, BelowTransitive
    <3> QED BY <3>1, <3>3
  <2> QED BY <2>1, <2>2
<1>2. RootDir \in S /\ HoldsChildren(S)
  BY <1>1, TreeAssumption DEF HoldsChildren
<1>3. Below[RootDir] \subseteq S
  BY <1>2, TreeAssumption, BelowIn
<1>4. d \in C
  BY <1>0, BelowSelf
<1> QED BY <1>0, <1>3, <1>4, TreeAssumption

\* Below a directory that does not exist, none does.
LEMMA NothingBelowMissing ==
    ASSUME TreeWhole, Kinds, NEW d \in Dirs, d \notin exists PROVE Below[d] \cap exists = {}
<1> DEFINE S == Dirs \ exists
<1>1. HoldsChildren(S)
  BY TreeAssumption DEF HoldsChildren, TreeWhole
<1> QED BY <1>1, BelowIn DEF Kinds

\* What is strictly below d is below a child of d; if it exists, so does the child.
LEMMA BelowChild ==
    ASSUME TreeWhole, Kinds, NEW d \in Dirs, NEW e \in Below[d], e # d, e \in exists
    PROVE  \E c \in Children(d) : e \in Below[c]
<1> DEFINE sons == {c \in Dirs \ {RootDir} : Parent[c] = d}
           S == {d} \cup UNION {Below[c] : c \in sons}
<1>1. S \subseteq Dirs
  BY BelowSelf
<1>2. HoldsChildren(S)
  <2> SUFFICES ASSUME NEW f \in Dirs \ {RootDir}, Parent[f] \in S PROVE f \in S
    BY DEF HoldsChildren
  <2>1. CASE Parent[f] = d
    BY <2>1, BelowSelf
  <2>2. CASE \E c \in sons : Parent[f] \in Below[c]
    BY <2>2, BelowHoldsChildren DEF HoldsChildren
  <2> QED BY <2>1, <2>2
<1>3. e \in S
  BY <1>1, <1>2, BelowIn
<1>4. PICK c \in sons : e \in Below[c]
  BY <1>3
<1>5. c \in exists
  BY <1>4, NothingBelowMissing
<1> QED BY <1>4, <1>5 DEF Children

\* A walk registers finitely many children.
LEMMA RegistersFinite ==
    ASSUME Kinds, NEW d \in Dirs PROVE IsFiniteSet({Register(e) : e \in Children(d)})
<1> DEFINE S == Children(d)
           T == {Register(e) : e \in S}
           f == [e \in S |-> Register(e)]
<1>1. IsFiniteSet(S)
  <2>1. S \subseteq Dirs
    BY DEF Children, Kinds
  <2> QED BY <2>1, TreeAssumption, FS_Subset
<1>2. f \in Surjection(S, T)
  BY DEF Surjection
<1> QED BY <1>1, <1>2, FS_Surjection

\* SetToSeq lists each member of a finite set.
LEMMA SetToSeqLists ==
    ASSUME NEW T, NEW S \in SUBSET T, IsFiniteSet(S)
    PROVE  SetToSeq(S) \in Seq(T) /\ \A x \in S : \E i \in DOMAIN SetToSeq(S) : SetToSeq(S)[i] = x
<1> DEFINE n == Cardinality(S)
<1>1. n \in Nat /\ ExistsBijection(1..n, S)
  BY FS_CardinalityType
<1>2. \E f \in [1..n -> S] : IsInjective(f)
  BY <1>1 DEF ExistsBijection, Bijection, Injection, IsInjective
<1>3. SetToSeq(S) \in [1..n -> S] /\ IsInjective(SetToSeq(S))
  BY <1>2 DEF SetToSeq
<1>4. SetToSeq(S) \in Injection(1..n, S)
  BY <1>3 DEF Injection, IsInjective
<1>5. Cardinality(1..n) = n
  BY <1>1, FS_Interval
<1>6. SetToSeq(S) \in Surjection(1..n, S)
  BY <1>4, <1>5, FS_Injection
<1> QED BY <1>1, <1>3, <1>6 DEF Surjection

-----------------------------------------------------------------------------
(* The invariant, conjunct by conjunct.                                     *)

LEMMA InvInit == Init => WatchInv
<1> SUFFICES ASSUME Init PROVE WatchInv
  OBVIOUS
<1>1. Kinds
  <2>1. Register(RootDir) \in Entry
    BY TreeAssumption DEF Register, Entry
  <2>2. queue \in Seq(Event) /\ walk \in Seq(Entry)
    BY <2>1 DEF Init
  <2>3. Empty \in [Dirs -> Nat]
    BY DEF Empty, None
  <2> QED BY <2>2, <2>3, TreeAssumption DEF Init, Kinds
<1>2. TreeWhole
  BY TreeAssumption DEF Init, TreeWhole, Empty
<1>3. TicksCounted
  BY DEF Init, TicksCounted
<1>4. ContentCurrent
  BY DEF Init, ContentCurrent
<1>5. DirsCovered
  <2>1. \A d \in Dirs : AheadOfWalk(d)
    BY TreeAssumption DEF Init, Register, AheadOfWalk
  <2> QED BY <2>1, <1>1 DEF Init, DirsCovered, Kinds
<1> QED BY <1>1, <1>2, <1>3, <1>4, <1>5 DEF WatchInv

\* An event told is an event; it is put at the end or nothing is.
LEMMA NotifyKind ==
    ASSUME NEW kind \in {"file", "dir"}, NEW d \in Dirs, NEW in, queue \in Seq(Event),
           Notify(kind, d, in)
    PROVE  queue' \in Seq(Event)
<1>1. [kind |-> kind, dir |-> d] \in Event
  BY DEF Event
<1> QED BY <1>1 DEF Notify

\* The entries that walk.go puts for the children of a directory.
LEMMA WalkListKind ==
    ASSUME Kinds, NEW d \in Dirs
    PROVE  LET T == {Register(e) : e \in Children(d)}
           IN  SetToSeq(T) \in Seq(Entry) /\ \A x \in T : \E i \in DOMAIN SetToSeq(T) : SetToSeq(T)[i] = x
<1>1. {Register(e) : e \in Children(d)} \in SUBSET Entry
  BY DEF Children, Register, Entry, Kinds
<1> QED BY <1>1, RegistersFinite, SetToSeqLists

\* What is at the head of the walk and of the queue.
LEMMA HeadEntry ==
    ASSUME walk \in Seq(Entry), walk # << >>
    PROVE  Head(walk) \in Entry /\ Tail(walk) \in Seq(Entry) /\ Head(walk).dir \in Dirs
<1>1. Head(walk) \in Entry /\ Tail(walk) \in Seq(Entry)
  OBVIOUS
<1> QED BY <1>1 DEF Entry

LEMMA HeadEvent ==
    ASSUME queue \in Seq(Event), queue # << >>
    PROVE  Head(queue) \in Event /\ Tail(queue) \in Seq(Event) /\ Head(queue).dir \in Dirs
<1>1. Head(queue) \in Event /\ Tail(queue) \in Seq(Event)
  OBVIOUS
<1> QED BY <1>1 DEF Event

\* Queue and walk keep their kinds.
LEMMA ListsStep == Kinds /\ [Next]_vars => queue' \in Seq(Event) /\ walk' \in Seq(Entry)
<1> SUFFICES ASSUME Kinds, [Next]_vars PROVE queue' \in Seq(Event) /\ walk' \in Seq(Entry)
  OBVIOUS
<1>0. queue \in Seq(Event) /\ walk \in Seq(Entry)
  BY DEF Kinds
<1>1. ASSUME NEW d \in Dirs, WriteFile(d) \/ RemoveFile(d) \/ MkDir(d) \/ MoveIn(d) \/ MoveAway(d)
      PROVE  queue' \in Seq(Event) /\ walk' \in Seq(Entry)
  <2>1. walk' = walk
    BY <1>1 DEF WriteFile, RemoveFile, Changed, MkDir, MoveIn, MoveAway, Appear, Others
  <2>2. queue' = queue \/ (\E k \in {"file", "dir"} : \E in : Notify(k, d, in))
    BY <1>1 DEF WriteFile, RemoveFile, Changed, MkDir, MoveIn, MoveAway, Appear
  <2> QED BY <1>0, <2>1, <2>2, NotifyKind
<1>2. CASE WalkAdd \/ WalkList \/ HandleEvent
  <2>1. walk # << >> => /\ Head(walk) \in Entry /\ Tail(walk) \in Seq(Entry)
                        /\ Head(walk).dir \in Dirs
    BY <1>0, HeadEntry
  <2>2. queue # << >> => /\ Head(queue) \in Event /\ Tail(queue) \in Seq(Event)
                         /\ Head(queue).dir \in Dirs
    BY <1>0, HeadEvent
  <2>3. \A d \in Dirs : List(d) \in Entry /\ Register(d) \in Entry
    BY DEF List, Register, Entry
  <2>4. CASE WalkAdd
    <3>1. <<List(Head(walk).dir)>> \in Seq(Entry)
      BY <2>1, <2>3, <2>4 DEF WalkAdd, Walking
    <3> QED BY <1>0, <2>1, <2>4, <3>1 DEF WalkAdd, Walking
  <2>5. CASE WalkList
    <3>1. SetToSeq({Register(e) : e \in Children(Head(walk).dir)}) \in Seq(Entry)
      BY <2>1, <2>5, WalkListKind DEF WalkList, Walking
    <3> QED BY <1>0, <2>1, <2>5, <3>1 DEF WalkList, Walking
  <2>6. CASE HandleEvent
    <3>1. queue' \in Seq(Event)
      BY <2>2, <2>6 DEF HandleEvent
    <3>2. walk' = walk \/ walk' = <<Register(Head(queue).dir)>>
      BY <2>6 DEF HandleEvent
    <3>3. <<Register(Head(queue).dir)>> \in Seq(Entry)
      <4>1. queue # << >>
        BY <2>6 DEF HandleEvent
      <4> QED BY <4>1, <2>2, <2>3
    <3> QED BY <1>0, <3>1, <3>2, <3>3
  <2> QED BY <1>2, <2>4, <2>5, <2>6
<1>3. CASE WalkFails \/ WalkDone \/ (\E d \in Dirs : ReadPlace(d)) \/ ImportDone \/ ImportFails
           \/ Fire \/ Send \/ HandleTrigger \/ UNCHANGED vars
  <2>1. queue' = queue /\ (walk' = walk \/ walk' = << >>)
    BY <1>3 DEF WalkFails, WalkDone, ReadPlace, ImportDone, ImportFails, Fire, Send,
                HandleTrigger, vars
  <2>2. << >> \in Seq(Entry)
    OBVIOUS
  <2>3. walk' \in Seq(Entry)
    <3>1. CASE walk' = walk
      BY <1>0, <3>1
    <3>2. CASE walk' = << >>
      BY <2>2, <3>2
    <3> QED BY <2>1, <3>1, <3>2
  <2> QED BY <1>0, <2>1, <2>3
<1> QED BY <1>1, <1>2, <1>3 DEF Next, Users, Loop

\* Every variable keeps its kind.
LEMMA KindsStep == WatchInv /\ [Next]_vars => Kinds'
<1> SUFFICES ASSUME WatchInv, [Next]_vars PROVE Kinds'
  OBVIOUS
<1>0. queue' \in Seq(Event) /\ walk' \in Seq(Entry)
  BY ListsStep DEF WatchInv
<1> USE <1>0 DEF WatchInv, Kinds
<1>1. ASSUME NEW d \in Dirs, NEW content \in Nat, Changed(d, content) PROVE Kinds'
  BY <1>1, TreeAssumption, SMTT(30) DEF Changed, Edit, Others, timer, import
<1>2. ASSUME NEW d \in Dirs, WriteFile(d) \/ RemoveFile(d) PROVE Kinds'
  BY <1>1, <1>2 DEF WriteFile, RemoveFile, None
<1>3. ASSUME NEW d \in Dirs, NEW N, NEW content \in Nat, Appear(d, N, content) PROVE Kinds'
  <2>1. N \subseteq Dirs
    BY <1>3, BelowSelf DEF Appear
  <2>2. exists' \subseteq Dirs /\ watched' \subseteq exists' /\ missed' \subseteq Dirs
    BY <1>3, <2>1 DEF Appear, Others
  <2>3. disk' \in [Dirs -> Nat] /\ edits' \in 0 .. MaxEdits
    BY <1>3, TreeAssumption, SMTT(30) DEF Appear, Edit
  <2> QED BY <1>3, <2>2, <2>3 DEF Appear, Others, timer, import
<1>4. ASSUME NEW d \in Dirs, MkDir(d) \/ MoveIn(d) PROVE Kinds'
  <2>1. None \in Nat /\ edits + 1 \in Nat
    BY DEF None
  <2> QED BY <1>3, <1>4, <2>1 DEF MkDir, MoveIn
<1>5. ASSUME NEW d \in Dirs, MoveAway(d) PROVE Kinds'
  BY <1>5, TreeAssumption, BelowSelf DEF MoveAway, Edit, None, Others, timer, import
<1>6. CASE WalkAdd
  <2>1. watched' \subseteq exists
    BY <1>6 DEF WalkAdd
  <2> QED BY <1>6, <2>1 DEF WalkAdd, tree, timer, import
<1>7. CASE WalkList
  BY <1>7 DEF WalkList, tree, timer, import
<1>8. CASE WalkFails
  BY <1>8 DEF WalkFails, tree, timer, import
<1>9. CASE WalkDone
  BY <1>9, TreeAssumption, SMTT(30) DEF WalkDone, StartImport, Empty, None, tree, timer, import
<1>10. ASSUME NEW d \in Dirs, ReadPlace(d) PROVE Kinds'
  BY <1>10 DEF ReadPlace, tree, timer
<1>11. CASE ImportDone \/ ImportFails
  BY <1>11, SMTT(30) DEF ImportDone, ImportFails, Empty, None, tree, timer
<1>12. CASE HandleEvent
  BY <1>12 DEF HandleEvent, tree, timer, import
<1>13. CASE Fire \/ Send
  BY <1>13 DEF Fire, Send, tree, import
<1>14. CASE HandleTrigger
  BY <1>14, SMTT(30) DEF HandleTrigger, StartImport, Empty, None, tree, import
<1>15. CASE UNCHANGED vars
  BY <1>15 DEF vars, tree, timer, import
<1> QED
  BY <1>2, <1>4, <1>5, <1>6, <1>7, <1>8, <1>9, <1>10, <1>11, <1>12, <1>13, <1>14, <1>15
  DEF Next, Users, Loop

\* Only the users change the tree, a directory with all below it.
LEMMA TreeStep == WatchInv /\ [Next]_vars => TreeWhole'
<1> SUFFICES ASSUME WatchInv, [Next]_vars PROVE TreeWhole'
  OBVIOUS
<1> USE DEF WatchInv, TreeWhole
<1>1. ASSUME NEW d \in Dirs, WriteFile(d) \/ RemoveFile(d) PROVE TreeWhole'
  BY <1>1 DEF WriteFile, RemoveFile, Changed, Kinds
<1>2. ASSUME NEW d \in Dirs, NEW N, NEW content, Appear(d, N, content) PROVE TreeWhole'
  BY <1>2 DEF Appear, Kinds
<1>3. ASSUME NEW d \in Dirs, MoveAway(d) PROVE TreeWhole'
  BY <1>3, BelowHoldsChildren DEF MoveAway, HoldsChildren, Kinds
<1>4. CASE UNCHANGED tree
  BY <1>4 DEF tree
<1>5. CASE Loop \/ Fire \/ Send \/ UNCHANGED vars
  BY <1>4, <1>5 DEF Loop, WalkAdd, WalkList, WalkFails, WalkDone, ReadPlace, ImportDone,
                    ImportFails, HandleEvent, HandleTrigger, Fire, Send, vars
<1> QED BY <1>1, <1>2, <1>3, <1>5 DEF Next, Users, MkDir, MoveIn

-----------------------------------------------------------------------------
(* Ticks and events.                                                        *)

\* An edit adds at most one event, at the end of the queue.
LEMMA NotifyGrows ==
    ASSUME NEW kind \in {"file", "dir"}, NEW d \in Dirs, NEW in \in Dirs, queue \in Seq(Event),
           Notify(kind, d, in)
    PROVE  /\ Len(queue') \in Nat /\ Len(queue) \in Nat /\ Len(queue') <= Len(queue) + 1
           /\ \A i \in DOMAIN queue : i \in DOMAIN queue' /\ queue'[i] = queue[i]
           /\ Seen(in) => \E i \in DOMAIN queue' : queue'[i] = [kind |-> kind, dir |-> d]
<1> DEFINE e == [kind |-> kind, dir |-> d]
<1>1. e \in Event
  BY DEF Event
<1> HIDE DEF e
<1>2. CASE Seen(in)
  <2>1. queue' = Append(queue, e)
    BY <1>2 DEF Notify, e
  <2>2. Len(queue') = Len(queue) + 1 /\ queue'[Len(queue) + 1] = e
    BY <1>1, <2>1
  <2>3. \A i \in DOMAIN queue : i \in DOMAIN queue' /\ queue'[i] = queue[i]
    BY <1>1, <2>1
  <2>4. Len(queue) + 1 \in DOMAIN queue'
    BY <1>1, <2>1
  <2> QED BY <1>1, <2>2, <2>3, <2>4 DEF e
<1>3. CASE ~Seen(in)
  BY <1>3 DEF Notify
<1> QED BY <1>2, <1>3

\* What is left of the queue when its first event is taken.
LEMMA TailShrinks ==
    ASSUME queue \in Seq(Event), queue # << >>, queue' = Tail(queue)
    PROVE  /\ Len(queue') = Len(queue) - 1 /\ Len(queue) \in Nat
           /\ \A i \in DOMAIN queue : i = 1 \/ (i - 1 \in DOMAIN queue' /\ queue'[i - 1] = queue[i])
           /\ Head(queue) = queue[1]
  OBVIOUS

LEMMA TicksStep == WatchInv /\ [Next]_vars => TicksCounted'
<1> SUFFICES ASSUME WatchInv, [Next]_vars PROVE TicksCounted'
  OBVIOUS
<1>0. /\ queue \in Seq(Event) /\ Len(queue) \in Nat /\ senders \in Nat /\ edits \in Int
      /\ trigger \in {0, 1}
  BY TreeAssumption DEF WatchInv, Kinds
<1> USE DEF TicksCounted, WatchInv
<1>1. ASSUME NEW d \in Dirs, NEW kind \in {"file", "dir"}, NEW in \in Dirs, Edit, Notify(kind, d, in), UNCHANGED timer
      PROVE  TicksCounted'
  <2>1. Len(queue') <= Len(queue) + 1 /\ Len(queue') \in Nat
    BY <1>0, <1>1, NotifyGrows
  <2> QED BY <1>0, <1>1, <2>1 DEF Edit, timer
<1>2. ASSUME NEW d \in Dirs, MoveAway(d) PROVE TicksCounted'
  BY <1>0, <1>2 DEF MoveAway, Edit, Others, timer
<1>3. ASSUME NEW d \in Dirs, WriteFile(d) \/ RemoveFile(d) PROVE TicksCounted'
  BY <1>1, <1>3 DEF WriteFile, RemoveFile, Changed, Others
<1>4. ASSUME NEW d \in Dirs, NEW N, NEW content, Appear(d, N, content) PROVE TicksCounted'
  <2>1. Parent[d] \in Dirs
    BY <1>4, TreeAssumption DEF Appear
  <2> QED BY <1>1, <1>4, <2>1 DEF Appear, Others
<1>5. CASE HandleEvent
  <2>1. Len(queue') = Len(queue) - 1
    BY <1>0, <1>5, TailShrinks DEF HandleEvent
  <2>2. senders' = senders /\ trigger' = trigger /\ (armed' \/ armed' = armed) /\ (armed' \/ pending' = pending)
    BY <1>5 DEF HandleEvent, timer
  <2> QED BY <1>0, <2>1, <2>2, <1>5 DEF HandleEvent, tree
<1>6. CASE Fire \/ Send
  BY <1>0, <1>6 DEF Fire, Send, tree
<1>7. CASE HandleTrigger
  BY <1>0, <1>7 DEF HandleTrigger, tree
<1>8. CASE UNCHANGED <<edits, queue, timer>>
  BY <1>8 DEF timer
<1>9. CASE \/ WalkAdd \/ WalkList \/ WalkFails \/ WalkDone \/ (\E d \in Dirs : ReadPlace(d)) \/ ImportDone
           \/ ImportFails \/ UNCHANGED vars
  BY <1>8, <1>9 DEF WalkAdd, WalkList, WalkFails, WalkDone, ReadPlace, ImportDone, ImportFails, vars, tree
<1> QED BY <1>2, <1>3, <1>4, <1>5, <1>6, <1>7, <1>9 DEF Next, Users, Loop, MkDir, MoveIn

-----------------------------------------------------------------------------
(* What was read is current.                                                *)

\* Nothing that happens to a file while it is told, or counted as missed, makes a
\* content stale without a tick or an event under way.
LEMMA CurrentStep ==
    ASSUME NEW content, NEW d,
           Current(content, d), Told => Told', disk'[d] = disk[d], d \in missed => d \in missed'
    PROVE  content[d] = disk'[d] \/ d \in missed' \/ Told'
  BY DEF Current

LEMMA UsersKeepCurrent ==
    ASSUME WatchInv, Users, NEW content, NEW d \in Dirs, Current(content, d)
    PROVE  content[d] = disk'[d] \/ d \in missed' \/ Told'
<1> USE DEF WatchInv
<1>0. queue \in Seq(Event) /\ disk \in [Dirs -> Nat]
  BY DEF Kinds
<1>1. ASSUME NEW e \in Dirs, NEW c, Changed(e, c)
      PROVE  content[d] = disk'[d] \/ d \in missed' \/ Told'
  <2>1. Told => Told'
    BY <1>0, <1>1, NotifyGrows DEF Changed, Told, Others, timer
  <2>2. CASE d = e /\ Seen(e)
    <3>1. \E i \in DOMAIN queue' : queue'[i] = [kind |-> "file", dir |-> e]
      BY <1>0, <1>1, <2>2, NotifyGrows DEF Changed
    <3> QED BY <3>1 DEF Told
  <2>3. CASE d = e /\ ~Seen(e)
    BY <1>1, <2>3 DEF Changed
  <2>4. CASE d # e
    <3>1. disk'[d] = disk[d] /\ (d \in missed => d \in missed')
      BY <1>0, <1>1, <2>4 DEF Changed
    <3> QED BY <2>1, <3>1, CurrentStep
  <2> QED BY <2>2, <2>3, <2>4
<1>2. ASSUME NEW e \in Dirs, NEW N, NEW c, Appear(e, N, c)
      PROVE  content[d] = disk'[d] \/ d \in missed' \/ Told'
  <2>1. Told => Told'
    <3>1. Parent[e] \in Dirs
      BY <1>2, TreeAssumption DEF Appear
    <3> QED BY <1>0, <1>2, <3>1, NotifyGrows DEF Appear, Told, Others, timer
  <2>2. CASE d \in N /\ c # None
    BY <1>2, <2>2 DEF Appear
  <2>3. CASE d \in N /\ c = None
    <3>1. d \notin exists
      BY <1>2, <2>3, NothingBelowMissing DEF Appear
    <3>2. disk[d] = None /\ disk'[d] = None /\ missed' = missed
      BY <1>2, <2>3, <3>1 DEF Appear, TreeWhole
    <3> QED BY <2>1, <3>2, CurrentStep
  <2>4. CASE d \notin N
    <3>1. disk'[d] = disk[d] /\ (d \in missed => d \in missed')
      BY <1>2, <2>4 DEF Appear
    <3> QED BY <2>1, <3>1, CurrentStep
  <2> QED BY <2>2, <2>3, <2>4
<1>3. ASSUME NEW e \in Dirs, MoveAway(e)
      PROVE  content[d] = disk'[d] \/ d \in missed' \/ Told'
  <2>1. Told => Told'
    BY <1>3 DEF MoveAway, Told, Others, timer
  <2>2. CASE d \in missed'
    BY <2>2
  <2>3. CASE d \notin missed'
    <3>1. disk'[d] = disk[d] /\ d \notin missed
      BY <1>0, <1>3, <2>3 DEF MoveAway
    <3> QED BY <2>1, <3>1, CurrentStep
  <2> QED BY <2>2, <2>3
<1> QED BY <1>1, <1>2, <1>3 DEF Users, WriteFile, RemoveFile, MkDir, MoveIn

LEMMA ContentStep == WatchInv /\ [Next]_vars => ContentCurrent'
<1> SUFFICES ASSUME WatchInv, [Next]_vars PROVE ContentCurrent'
  OBVIOUS
<1> USE DEF WatchInv, ContentCurrent
<1>1. CASE Users
  <2>1. UNCHANGED <<pc, lastOK, toRead, snap, db>>
    BY <1>1 DEF Users, WriteFile, RemoveFile, Changed, MkDir, MoveIn, Appear, MoveAway, Others, import
  <2>2. ASSUME NEW content, NEW d \in Dirs, Current(content, d)
        PROVE  content[d] = disk'[d] \/ d \in missed' \/ Told'
    BY <1>1, <2>2, UsersKeepCurrent
  <2> QED BY <2>1, <2>2 DEF Current
<1>2. CASE UNCHANGED <<disk, missed, queue, pending>> /\ (UNCHANGED <<pc, import>>)
  BY <1>2 DEF Current, Told, import
<1>3. CASE WalkAdd \/ WalkList \/ Fire \/ Send \/ UNCHANGED vars
  BY <1>2, <1>3 DEF WalkAdd, WalkList, Fire, Send, vars, tree, timer
<1>4. CASE WalkFails
  BY <1>4 DEF WalkFails, Walking, Current, Told, tree, timer, import
<1>5. CASE WalkDone
  BY <1>5 DEF WalkDone, StartImport, Current, Told, tree, timer, import
<1>6. ASSUME NEW d \in Dirs, ReadPlace(d) PROVE ContentCurrent'
  <2>1. pc' = "import" /\ UNCHANGED <<disk, queue, pending>> /\ missed' = missed \ {d} /\ toRead' = toRead \ {d}
    BY <1>6 DEF ReadPlace, tree, timer
  <2>2. snap'[d] = disk[d] /\ \A e \in Dirs \ {d} : snap'[e] = snap[e]
    BY <1>6 DEF ReadPlace, Kinds
  <2>3. \A e \in Dirs \ toRead : Current(snap, e)
    BY <1>6 DEF ReadPlace
  <2> QED BY <2>1, <2>2, <2>3 DEF Current, Told
<1>7. CASE ImportDone
  BY <1>7 DEF ImportDone, Current, Told, tree, timer
<1>8. CASE ImportFails
  BY <1>8 DEF ImportFails
<1>9. CASE HandleEvent
  <2>1. Told => Told'
    <3>1. queue \in Seq(Event) /\ queue # << >> /\ queue' = Tail(queue)
      BY <1>9 DEF HandleEvent, Kinds
    <3>2. CASE Head(queue).kind = "file"
      <4>1. pending'
        BY <1>9, <3>2 DEF HandleEvent
      <4> QED BY <4>1 DEF Told
    <3>3. CASE Head(queue).kind # "file"
      <4>1. pending' = pending
        BY <1>9, <3>3 DEF HandleEvent, timer
      <4> QED BY <3>1, <3>3, <4>1, TailShrinks DEF Told
    <3> QED BY <3>2, <3>3
  <2>2. UNCHANGED <<disk, missed, lastOK, toRead, snap, db>> /\ pc = "select" /\ pc' \in {"select", "walk"}
    BY <1>9 DEF HandleEvent, tree, import
  <2> QED BY <2>1, <2>2 DEF Current
<1>10. CASE HandleTrigger
  BY <1>10 DEF HandleTrigger, StartImport, Current, Told, tree, import
<1> QED BY <1>1, <1>3, <1>4, <1>5, <1>6, <1>7, <1>8, <1>9, <1>10 DEF Next, Loop

-----------------------------------------------------------------------------
(* No directory is lost.                                                    *)

\* Events and entries are about directories.
LEMMA DirsOfLists ==
    ASSUME Kinds
    PROVE  /\ \A i \in DOMAIN queue : queue[i].dir \in Dirs
           /\ \A i \in DOMAIN walk : walk[i].dir \in Dirs /\ walk[i].op \in {"add", "list"}
<1>1. queue \in Seq(Event) /\ walk \in Seq(Entry)
  BY DEF Kinds
<1>2. (\A i \in DOMAIN queue : queue[i] \in Event) /\ (\A i \in DOMAIN walk : walk[i] \in Entry)
  BY <1>1
<1> QED BY <1>2 DEF Event, Entry

\* Where the parent of a directory will be registered, so will all below it.
LEMMA ParentCovers ==
    ASSUME Kinds, NEW d \in Dirs \ {RootDir}, NEW e \in Below[d]
    PROVE  /\ Announced(Parent[d]) => Announced(e)
           /\ AheadOfWalk(Parent[d]) => AheadOfWalk(e)
<1>0. Parent[d] \in Dirs /\ e \in Dirs
  BY TreeAssumption, BelowSelf
<1>1. ASSUME NEW x \in Dirs, Parent[d] \in Below[x]
      PROVE  d \in Below[x] /\ e \in Below[x] /\ (Parent[d] # x => e # x)
  <2>1. d \in Below[x]
    BY <1>1, BelowHoldsChildren DEF HoldsChildren
  <2>2. e \in Below[x]
    BY <1>1, <2>1, BelowTransitive
  <2>3. ASSUME e = x PROVE Parent[d] = x
    <3>1. x = d
      BY <2>1, <2>3, BelowAntisymmetric
    <3>2. d \in Below[Parent[d]]
      BY <1>0, BelowSelf, BelowHoldsChildren DEF HoldsChildren
    <3>3. Parent[d] \in Below[d]
      BY <1>1, <3>1
    <3>4. Parent[d] = d
      BY <1>0, <3>2, <3>3, BelowAntisymmetric
    <3> QED BY <3>1, <3>4
  <2> QED BY <2>1, <2>2, <2>3
<1>2. Announced(Parent[d]) => Announced(e)
  BY <1>1, DirsOfLists DEF Announced
<1>3. AheadOfWalk(Parent[d]) => AheadOfWalk(e)
  BY <1>1, DirsOfLists DEF AheadOfWalk
<1> QED BY <1>2, <1>3

LEMMA UsersCover ==
    ASSUME WatchInv, Users, ~blind', NEW e \in exists'
    PROVE  e \in watched' \/ Announced(e)' \/ AheadOfWalk(e)'
<1> USE DEF WatchInv
<1>0. queue \in Seq(Event) /\ exists \subseteq Dirs /\ watched \subseteq exists
  BY DEF Kinds
<1>1. ASSUME NEW d \in Dirs, NEW c, Changed(d, c)
      PROVE  e \in watched' \/ Announced(e)' \/ AheadOfWalk(e)'
  <2>1. UNCHANGED <<exists, watched, walk, blind>>
    BY <1>1 DEF Changed, Others
  <2>2. Announced(e) => Announced(e)'
    BY <1>0, <1>1, NotifyGrows DEF Changed, Announced
  <2> QED BY <2>1, <2>2 DEF DirsCovered, AheadOfWalk
<1>2. ASSUME NEW d \in Dirs, NEW N, NEW c, Appear(d, N, c)
      PROVE  e \in watched' \/ Announced(e)' \/ AheadOfWalk(e)'
  <2>1. /\ UNCHANGED <<watched, walk>> /\ Parent[d] \in exists /\ Parent[d] \in Dirs /\ d # RootDir
        /\ N \subseteq Below[d] /\ exists' = exists \cup N /\ Notify("dir", d, Parent[d])
    BY <1>0, <1>2 DEF Appear, Others
  <2>2. ~blind /\ (Parent[d] \in watched => Seen(Parent[d]))
    BY <1>2 DEF Appear
  <2>3. \A f : Announced(f) => Announced(f)'
    BY <1>0, <2>1, NotifyGrows DEF Announced
  <2>4. \A f : AheadOfWalk(f) => AheadOfWalk(f)'
    BY <2>1 DEF AheadOfWalk
  <2>5. CASE e \in exists
    BY <2>1, <2>2, <2>3, <2>4, <2>5 DEF DirsCovered
  <2>6. CASE e \in N /\ Parent[d] \in watched
    <3>1. \E i \in DOMAIN queue' : queue'[i] = [kind |-> "dir", dir |-> d]
      BY <1>0, <2>1, <2>2, <2>6, NotifyGrows
    <3> QED BY <2>1, <2>6, <3>1 DEF Announced
  <2>7. CASE e \in N /\ Parent[d] \notin watched
    <3>1. Announced(Parent[d]) \/ AheadOfWalk(Parent[d])
      BY <2>1, <2>2, <2>7 DEF DirsCovered
    <3>2. Announced(e) \/ AheadOfWalk(e)
      BY <2>1, <2>7, <3>1, ParentCovers
    <3> QED BY <2>3, <2>4, <3>2
  <2> QED BY <2>1, <2>5, <2>6, <2>7
<1>3. ASSUME NEW d \in Dirs, MoveAway(d)
      PROVE  e \in watched' \/ Announced(e)' \/ AheadOfWalk(e)'
  <2>1. e \in exists /\ ~blind /\ (e \in watched => e \in watched') /\ UNCHANGED <<queue, walk>>
    BY <1>3 DEF MoveAway, Others
  <2> QED BY <2>1 DEF DirsCovered, Announced, AheadOfWalk
<1> QED BY <1>1, <1>2, <1>3 DEF Users, WriteFile, RemoveFile, MkDir, MoveIn

\* A step of the walk covers what the entry it takes covered.
LEMMA WalkAddCovers ==
    ASSUME Kinds, WalkAdd, NEW e \in exists, AheadOfWalk(e)
    PROVE  e \in watched' \/ AheadOfWalk(e)'
<1>0. walk \in Seq(Entry) /\ walk # << >>
  BY DEF Kinds, WalkAdd, Walking
<1> DEFINE x == Head(walk).dir
<1>1. walk' = <<List(x)>> \o Tail(walk) /\ watched' = watched \cup {x} /\ x \in Dirs
  BY <1>0, HeadEntry DEF WalkAdd
<1>2. List(x) \in Entry /\ Tail(walk) \in Seq(Entry)
  BY <1>0, <1>1, HeadEntry DEF List, Entry
<1>3. /\ 1 \in DOMAIN walk' /\ walk'[1] = List(x)
      /\ \A i \in DOMAIN walk \ {1} : i \in DOMAIN walk' /\ walk'[i] = walk[i]
  <2> DEFINE l == List(x)
  <2>1. l \in Entry
    BY <1>2
  <2> HIDE DEF l
  <2>2. walk' = <<l>> \o Tail(walk)
    BY <1>1 DEF l
  <2>3. 1 \in DOMAIN walk' /\ walk'[1] = l /\ \A i \in DOMAIN walk \ {1} : i \in DOMAIN walk' /\ walk'[i] = walk[i]
    BY <1>0, <1>2, <2>1, <2>2
  <2> QED BY <2>3 DEF l
<1>4. PICK i \in DOMAIN walk : e \in Below[walk[i].dir] /\ (walk[i].op = "list" => e # walk[i].dir)
  BY DEF AheadOfWalk
<1>5. CASE i = 1 /\ e = x
  BY <1>1, <1>5
<1>6. CASE i = 1 /\ e # x
  <2>1. e \in Below[x]
    BY <1>0, <1>4, <1>6
  <2> QED BY <1>3, <1>6, <2>1 DEF AheadOfWalk, List
<1>7. CASE i # 1
  BY <1>3, <1>4, <1>7 DEF AheadOfWalk
<1> QED BY <1>5, <1>6, <1>7

\* Entries put before the rest of the walk.
LEMMA PutBefore ==
    ASSUME walk \in Seq(Entry), walk # << >>, NEW s \in Seq(Entry), walk' = s \o Tail(walk)
    PROVE  /\ \A i \in DOMAIN s : i \in DOMAIN walk' /\ walk'[i] = s[i]
           /\ \A i \in DOMAIN walk \ {1} : \E j \in DOMAIN walk' : walk'[j] = walk[i]
<1>1. Tail(walk) \in Seq(Entry) /\ Len(Tail(walk)) = Len(walk) - 1 /\ Len(walk) \in Nat /\ Len(s) \in Nat
  OBVIOUS
<1>2. \A i \in DOMAIN s : i \in DOMAIN walk' /\ walk'[i] = s[i]
  BY <1>1
<1>3. ASSUME NEW i \in DOMAIN walk \ {1} PROVE \E j \in DOMAIN walk' : walk'[j] = walk[i]
  <2>1. i \in 2 .. Len(walk) /\ Tail(walk)[i - 1] = walk[i] /\ i - 1 \in 1 .. Len(Tail(walk))
    BY <1>1
  <2>2. Len(s) + i - 1 \in DOMAIN walk' /\ walk'[Len(s) + i - 1] = Tail(walk)[i - 1]
    BY <1>1, <2>1
  <2> QED BY <2>1, <2>2
<1> QED BY <1>2, <1>3

LEMMA WalkListCovers ==
    ASSUME Kinds, TreeWhole, WalkList, NEW e \in exists, AheadOfWalk(e)
    PROVE  AheadOfWalk(e)'
<1>0. walk \in Seq(Entry) /\ walk # << >> /\ Head(walk).op = "list"
  BY DEF Kinds, WalkList, Walking
<1> DEFINE x == Head(walk).dir
           T == {Register(c) : c \in Children(x)}
           s == SetToSeq(T)
<1>1. walk' = s \o Tail(walk) /\ x \in Dirs /\ Tail(walk) \in Seq(Entry)
  BY <1>0, HeadEntry DEF WalkList
<1>2. s \in Seq(Entry) /\ \A r \in T : \E i \in DOMAIN s : s[i] = r
  BY <1>1, WalkListKind
<1>3. /\ \A i \in DOMAIN s : i \in DOMAIN walk' /\ walk'[i] = s[i]
      /\ \A i \in DOMAIN walk \ {1} : \E j \in DOMAIN walk' : walk'[j] = walk[i]
  <2> HIDE DEF s
  <2> QED BY <1>0, <1>1, <1>2, PutBefore
<1>4. PICK i \in DOMAIN walk : e \in Below[walk[i].dir] /\ (walk[i].op = "list" => e # walk[i].dir)
  BY DEF AheadOfWalk
<1>5. CASE i = 1
  <2>1. e \in Below[x] /\ e # x
    BY <1>0, <1>4, <1>5
  <2>2. PICK c \in Children(x) : e \in Below[c]
    BY <1>1, <2>1, BelowChild
  <2>3. PICK j \in DOMAIN s : s[j] = Register(c)
    BY <1>2
  <2> QED BY <1>3, <2>2, <2>3 DEF AheadOfWalk, Register
<1>6. CASE i # 1
  BY <1>3, <1>4, <1>6 DEF AheadOfWalk
<1> QED BY <1>5, <1>6

\* An announced directory that exists stays announced, or the walk starts above it.
LEMMA HandleEventCovers ==
    ASSUME Kinds, TreeWhole, HandleEvent, NEW e \in exists, Announced(e)
    PROVE  Announced(e)' \/ AheadOfWalk(e)'
<1>1. queue \in Seq(Event) /\ queue # << >> /\ queue' = Tail(queue)
  BY DEF Kinds, HandleEvent
<1>2. PICK i \in DOMAIN queue : queue[i].kind = "dir" /\ e \in Below[queue[i].dir]
  BY DEF Announced
<1>3. CASE i = 1
  <2> DEFINE x == queue[1].dir
  <2>1. Head(queue) = queue[1] /\ x \in Dirs
    BY <1>1, <1>2, <1>3, DirsOfLists
  <2>2. x \in exists
    BY <1>2, <1>3, <2>1, NothingBelowMissing
  <2>3. walk' = <<Register(x)>>
    BY <1>2, <1>3, <2>1, <2>2 DEF HandleEvent
  <2> QED BY <1>2, <1>3, <2>3 DEF AheadOfWalk, Register
<1>4. CASE i # 1
  BY <1>1, <1>2, <1>4, TailShrinks DEF Announced
<1> QED BY <1>3, <1>4

LEMMA CoveredStep == WatchInv /\ [Next]_vars => DirsCovered'
<1> SUFFICES ASSUME WatchInv, [Next]_vars PROVE DirsCovered'
  OBVIOUS
<1> USE DEF WatchInv, DirsCovered
<1>1. CASE Users
  <2>1. UNCHANGED <<pc, walk>>
    BY <1>1 DEF Users, WriteFile, RemoveFile, Changed, MkDir, MoveIn, Appear, MoveAway, Others
  <2> QED BY <1>1, <2>1, UsersCover
<1>2. CASE WalkAdd
  <2>1. UNCHANGED <<exists, queue, pc, blind>> /\ watched \subseteq watched' /\ pc \in {"boot", "walk"}
    BY <1>2 DEF WalkAdd, Walking, tree
  <2> QED BY <1>2, <2>1, WalkAddCovers DEF Announced
<1>3. CASE WalkList
  <2>1. UNCHANGED <<exists, watched, queue, pc, blind>> /\ pc \in {"boot", "walk"}
    BY <1>3 DEF WalkList, Walking, tree
  <2> QED BY <1>3, <2>1, WalkListCovers DEF Announced
<1>4. CASE WalkFails
  BY <1>4 DEF WalkFails
<1>5. CASE UNCHANGED <<exists, watched, queue, walk, blind>> /\ (pc' \in {"import", "select"} => walk = << >>)
  BY <1>5 DEF Announced, AheadOfWalk
<1>6. CASE WalkDone \/ (\E d \in Dirs : ReadPlace(d)) \/ ImportDone \/ ImportFails \/ HandleTrigger
           \/ Fire \/ Send \/ UNCHANGED vars
  BY <1>5, <1>6 DEF WalkDone, ReadPlace, ImportDone, ImportFails, HandleTrigger, StartImport, Fire, Send,
                    vars, tree
<1>7. CASE HandleEvent
  <2>1. UNCHANGED <<exists, watched, blind>> /\ walk = << >> /\ pc = "select"
    BY <1>7 DEF HandleEvent, tree
  <2>2. pc' = "walk" \/ (pc' = "select" /\ walk' = walk)
    BY <1>7, <2>1 DEF HandleEvent
  <2>3. \A e : ~AheadOfWalk(e)
    BY <2>1 DEF AheadOfWalk
  <2> QED BY <1>7, <2>1, <2>2, <2>3, HandleEventCovers
<1> QED BY <1>1, <1>2, <1>3, <1>4, <1>6, <1>7 DEF Next, Loop

-----------------------------------------------------------------------------
(* The theorems.                                                            *)

LEMMA WatchInvariant == Spec => []WatchInv
<1>1. Init => WatchInv
  BY InvInit
<1>2. WatchInv /\ [Next]_vars => WatchInv'
  BY KindsStep, TreeStep, TicksStep, ContentStep, CoveredStep DEF WatchInv
<1> QED BY <1>1, <1>2, PTL DEF Spec

\* At most one tick waits on the channel, at most one goroutine per edit waits to send
\* one, and a pending change always has a tick coming.
THEOREM WatchTypeCorrect == Spec => []TypeOK
<1>1. WatchInv => TypeOK
  <2> SUFFICES ASSUME WatchInv PROVE TypeOK
    OBVIOUS
  <2>1. senders \in 0 .. MaxEdits
    <3>1. Len(queue) \in Nat /\ senders \in Nat /\ edits \in 0 .. MaxEdits
      BY DEF WatchInv, Kinds
    <3> QED BY <3>1, TreeAssumption DEF WatchInv, TicksCounted
  <2> QED BY <2>1 DEF WatchInv, Kinds, TicksCounted, TypeOK
<1> QED BY <1>1, WatchInvariant, PTL

\* However edits, ticks and imports interleave, a loop at rest has imported every change
\* the kernel told it of: none is consumed by an import that read the file too early.
THEOREM NoticedImported == Spec => []NoticedChangesImported
<1>1. WatchInv => NoticedChangesImported
  BY DEF WatchInv, TicksCounted, ContentCurrent, Current, Told, NoticedChangesImported, Quiescent
<1> QED BY <1>1, WatchInvariant, PTL

\* For every tree: a directory made while a walk is under way above it is registered by
\* that walk or announced by an event.
THEOREM DirsStayWatched == Spec => []EveryDirWatched
<1>1. WatchInv => EveryDirWatched
  BY DEF WatchInv, DirsCovered, Announced, AheadOfWalk, EveryDirWatched
<1> QED BY <1>1, WatchInvariant, PTL
=============================================================================
