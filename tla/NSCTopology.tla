----------------------------- MODULE NSCTopology -----------------------------
(***************************************************************************)
(* internal/jag2nsc: BuildTopology walks the imported grid from every      *)
(* busbar section through cables, switches, fuses and joints to the next   *)
(* busbar, transformer or house, or to the end of the line, and writes one *)
(* connection for each way it finds, with the cables on it in order.       *)
(*                                                                         *)
(* The walk is a recursion without a set of visited equipment. Here it is  *)
(* the stack todo: a step takes its first branch and puts what the call    *)
(* would do, in its order, in front of the rest. A Terminal is the pair of *)
(* its equipment and its number in the order of the equipment; equipment   *)
(* and Terminals are numbered in ID order, by which the code sorts.        *)
(***************************************************************************)
EXTENDS Integers, Sequences, SequencesExt, FiniteSetsExt

CONSTANTS Equipment, Nodes, Sources

ASSUME SourceAssumption ==
    /\ Equipment \subseteq Nat /\ IsFiniteSet(Equipment)
    /\ \A s \in Sources : /\ s.nodes \in [Equipment -> Seq(Nodes)]
                          /\ DOMAIN s.class = Equipment /\ s.inHouse \subseteq Equipment

VARIABLES source,       \* class, inHouse and nodes (of the Terminals) of the equipment
          left,         \* busbar sections still to be walked from
          current,      \* the one being walked from
          todo,         \* branches: [start, at, end, segs, mids]
          terminals,    \* the Terminals that get a row
          connections,  \* [source, target, segs, mids] in the order they were found
          stored        \* the rows in the database: << >> before the first run, << them >> after

vars == <<source, left, current, todo, terminals, connections, stored>>

-----------------------------------------------------------------------------
(* The graph, from the Terminals as staged, before any merge of nodes.      *)

Class(e) == source.class[e]
Terminal(e, i) == [eq |-> e, no |-> i]
OwnTerminals(e) == {Terminal(e, i) : i \in DOMAIN source.nodes[e]}
NodeOf(t) == source.nodes[t.eq][t.no]
TerminalsAt(n) == {t \in UNION {OwnTerminals(e) : e \in Equipment} : NodeOf(t) = n}
Before(s, t) == s.eq < t.eq \/ (s.eq = t.eq /\ s.no < t.no)
Ordered(T) == [i \in 1 .. Cardinality(T) |-> CHOOSE t \in T : Cardinality({u \in T : Before(u, t)}) = i - 1]

\* What is at a node besides the equipment the walk comes from.
BackToo(n, e) == Ordered(TerminalsAt(n))
OtherStubs(n, e) == Ordered({t \in TerminalsAt(n) : t.eq # e})

\* The nodes on the other sides of an equipment, in the order of its Terminals.
OtherNodes(t) == [i \in 1 .. Len(source.nodes[t.eq]) - 1 |->
                     source.nodes[t.eq][IF i < t.no THEN i ELSE i + 1]]
OwnStubAt(e, n) == Terminal(e, Min({i \in DOMAIN source.nodes[e] : source.nodes[e][i] = n}))

BusbarSections == {e \in Equipment : Class(e) = "BusbarSection"}

\* A branch ends at a busbar, at a transformer and at what is directly in a house.
Stops(e) == Class(e) \in {"BusbarSection", "PowerTransformer"} \/ e \in source.inHouse

-----------------------------------------------------------------------------
(* The walk.                                                                *)

Init == /\ source \in Sources
        /\ left = BusbarSections /\ current = 0 /\ todo = << >>
        /\ terminals = {} /\ connections = << >> /\ stored = << >>

Branch(start, t, segs, mids) == [start |-> start, at |-> t, end |-> FALSE, segs |-> segs, mids |-> mids]

\* The next busbar: one branch for each neighbour at each of its Terminals.
WalkFromBusbar ==
    /\ todo = << >> /\ left # {}
    /\ LET b == Min(left)
           wired == Ordered({t \in OwnTerminals(b) : OtherStubs(NodeOf(t), b) # << >>})
           from(t) == LET others == OtherStubs(NodeOf(t), b)
                      IN  [i \in DOMAIN others |-> Branch(t, others[i], << >>, << >>)]
       IN  /\ current' = b /\ left' = left \ {b}
           /\ terminals' = terminals \cup ToSet(wired)
           /\ todo' = FlattenSeq([i \in DOMAIN wired |-> from(wired[i])])
    /\ UNCHANGED <<source, connections, stored>>

\* The way back to a busbar that is done is there already.
NoneCompleted(e) == FALSE
Completed(e) == e \in BusbarSections \ left /\ e # current
Complete(b) ==
    /\ todo' = Tail(todo)
    /\ IF Completed(b.at.eq) THEN UNCHANGED <<terminals, connections>>
       ELSE /\ terminals' = terminals \cup {b.at}
            /\ connections' = Append(connections, [source |-> b.start, target |-> b.at,
                                                   segs |-> b.segs, mids |-> b.mids])

\* A switch and a joint get one Terminal row for the whole equipment.
Named(e) == Class(e) \in {"Switch", "Junction"}
Whole(e) == Terminal(e, 0)
Passed(b) == LET e == b.at.eq
             IN  [b EXCEPT !.segs = IF Class(e) = "ACLineSegment" THEN Append(@, e) ELSE @,
                           !.mids = IF Named(e) THEN Append(@, Whole(e)) ELSE @]

\* Where a line divides with no switch or joint on either side, its end is named too.
Tap(b, t, further) == /\ Len(further) > 1 /\ ~Named(b.at.eq) /\ Class(b.at.eq) # "Fuse" /\ ~Named(t.eq)

\* What step does at one of the other nodes of an equipment.
Onward(b, n) ==
    LET e == b.at.eq
        further == OtherStubs(n, e)
        far == OwnStubAt(e, n)
        into(t) == [b EXCEPT !.at = t, !.mids = IF Tap(b, t, further) THEN Append(@, far) ELSE @]
    IN  IF further = << >> THEN <<[b EXCEPT !.at = far, !.end = TRUE]>>
        ELSE [i \in DOMAIN further |-> into(further[i])]

\* An equipment with one Terminal leads nowhere, and the branch is dropped.
Pass(b) ==
    LET e == b.at.eq
        nodes == OtherNodes(b.at)
        next == FlattenSeq([i \in DOMAIN nodes |-> Onward(Passed(b), nodes[i])])
    IN  /\ todo' = next \o Tail(todo)
        /\ terminals' = terminals
             \cup (IF Named(e) THEN {Whole(e)} ELSE {})
             \cup {OwnStubAt(e, NodeOf(next[i].at)) : i \in {j \in DOMAIN next : ~next[j].end /\
                      Tap(b, next[j].at, OtherStubs(NodeOf(next[j].at), e))}}
        /\ UNCHANGED connections

Step == /\ todo # << >>
        /\ IF Head(todo).end \/ Stops(Head(todo).at.eq) THEN Complete(Head(todo)) ELSE Pass(Head(todo))
        /\ UNCHANGED <<source, left, current, stored>>

\* Nothing is left to be walked: one transaction replaces all rows, and gives up with an
\* internal error if a connection names a Terminal without a row.
Done == todo = << >> /\ left = {}
Referenced(c) == {c.source, c.target} \cup ToSet(c.mids)
WriteTopology ==
    /\ Done
    /\ stored' = IF \A c \in ToSet(connections) : Referenced(c) \subseteq terminals
                 THEN <<[terminals |-> terminals, connections |-> connections]>>
                 ELSE stored
    /\ UNCHANGED <<source, left, current, todo, terminals, connections>>

Next == WalkFromBusbar \/ Step \/ WriteTopology
Spec == Init /\ [][Next]_vars

-----------------------------------------------------------------------------
(* What the rows should say, from the graph alone.                          *)

Conducting == {e \in Equipment : ~Stops(e)}

\* Equipment and nodes form no ring unless it goes through a busbar, a transformer or a house.
Terminals(E) == UNION {OwnTerminals(e) : e \in E}
RingFree == \A T \in (SUBSET Terminals(Conducting)) \ {{}} :
               \/ \E t \in T : \A u \in T \ {t} : u.eq # t.eq
               \/ \E t \in T : \A u \in T \ {t} : NodeOf(u) # NodeOf(t)
RingFreeInit == Init /\ RingFree
RingFreeSpec == RingFreeInit /\ [][Next]_vars

\* The nodes that equipment E joins to n: no set with n that E does not leave is without them.
Closed(S, E) == \A e \in E : ToSet(source.nodes[e]) \cap S = {} \/ ToSet(source.nodes[e]) \subseteq S
JoinedTo(n, E) == {m \in Nodes : \A S \in SUBSET Nodes : n \in S /\ Closed(S, E) => m \in S}

DeadEnds == {t \in Terminals(Conducting) : /\ Len(source.nodes[t.eq]) > 1
                                           /\ \A u \in TerminalsAt(NodeOf(t)) : u.eq = t.eq}
StopTerminals == Terminals(Equipment \ Conducting)
Reaches(s, t) == NodeOf(t) \in JoinedTo(NodeOf(s), Conducting)

\* How many ways lead from Terminal s of a busbar to Terminal t of other equipment: one at
\* most, which of two busbars only the first one has.
Ways(s, t) == IF Reaches(s, t) /\ (Class(t.eq) = "BusbarSection" => s.eq < t.eq) THEN 1 ELSE 0

\* A way leads from Terminal s of a busbar back to another of its Terminals.
Loop(s, t) == s.eq = t.eq /\ NodeOf(s) # NodeOf(t) /\ Reaches(s, t)

-----------------------------------------------------------------------------
(* Properties.                                                              *)

\* Every branch makes progress: without a ring none passes a cable, a switch or a joint
\* twice, so the recursion ends; and no connection names a Terminal without a row.
TypeOK ==
    /\ \A i \in DOMAIN todo : IsInjective(todo[i].segs) /\ IsInjective(todo[i].mids)
    /\ \A c \in ToSet(connections) : Referenced(c) \subseteq terminals
    /\ stored # << >> => stored = <<[terminals |-> terminals, connections |-> connections]>>

\* Between two ends of different equipment, each way is one connection, found from one side
\* only, however many Terminals the ends and the joints between have; a way from a busbar
\* back to itself is not missed; and no connection joins ends that are apart. It names the
\* cables on the way in their order, and the switches and joints, and no others: without
\* one of them its ends would be apart. How often a way back is found, and what becomes of a
\* cable before equipment with one Terminal, is left open here: see the claims below.
ConnectionsAreWays ==
    Done => /\ \A s \in Terminals(BusbarSections), t \in StopTerminals \cup DeadEnds :
                  s.eq # t.eq =>
                     Cardinality({i \in DOMAIN connections : /\ connections[i].source = s
                                                             /\ connections[i].target = t}) = Ways(s, t)
            /\ \A s, t \in Terminals(BusbarSections) :
                  Loop(s, t) => \E i \in DOMAIN connections :
                                   {connections[i].source, connections[i].target} = {s, t}
            /\ \A i \in DOMAIN connections :
                  LET c == connections[i]
                      without(e) == JoinedTo(NodeOf(c.source), Conducting \ {e})
                      onWay == {e \in Conducting : NodeOf(c.target) \notin without(e)}
                  IN  /\ c.source \in Terminals(BusbarSections) /\ Reaches(c.source, c.target)
                      /\ ToSet(c.segs) = {e \in onWay : Class(e) = "ACLineSegment"}
                      /\ {t \in ToSet(c.mids) : t.no = 0} = {Whole(e) : e \in {f \in onWay : Named(f)}}
                      /\ \A j, k \in DOMAIN c.segs :
                            j < k => ToSet(source.nodes[c.segs[k]]) \cap without(c.segs[j]) = {}

-----------------------------------------------------------------------------
(* What the package comment says and the code does not do: NSCTopologyProofs *)
(* proves in which networks these claims fail.                               *)

\* "A busbar-to-busbar walk that would be discovered a second time from the opposite
\* direction is only counted once" (topology.go:32): no two connections are each other's reverse.
CountedOnce ==
    \A i, j \in DOMAIN connections :
       i # j => ~(/\ connections[i].source = connections[j].target
                 /\ connections[i].target = connections[j].source)

\* "Every ACLineSegment encountered along a walk contributes one line_segment row"
\* (topology.go:24): a cable that a busbar is joined to is on some connection.
Reached(e) == \E s \in Terminals(BusbarSections) :
                 ToSet(source.nodes[e]) \cap JoinedTo(NodeOf(s), Conducting) # {}
EveryCableContributes ==
    \A e \in Conducting : Class(e) = "ACLineSegment" /\ Reached(e) =>
       \E i \in DOMAIN connections : e \in ToSet(connections[i].segs)
=============================================================================
