------------------------ MODULE ContainerResolution ------------------------
(***************************************************************************)
(* Which container a piece of equipment belongs to, computed twice: by     *)
(* ResolveBatchContainers (pkg/impl/common/pass_a.go), walking backward    *)
(* from a batch of roots, and by BuildContainers (container.go), scanning  *)
(* the whole model forward. A staged source s is a record of               *)
(*   tree  : [id -> [class, up]], the objects that may become containers;  *)
(*           up is the one reference that places them;                     *)
(*   equip : a sequence, indexed by equipment in ID order, of              *)
(*           [class, in, of, nodes]: in is Equipment.EquipmentContainer,   *)
(*           of the PowerElectronicsConnection of a satellite or the base  *)
(*           of a split BusbarSection ("B-1#2" has the base "B-1").        *)
(* Names, regions and the other attributes of containers are left out.     *)
(***************************************************************************)
EXTENDS Integers, Sequences, FiniteSets, SequencesExt, FiniteSetsExt, Functions, Tables

CONSTANT BusbarOfBase   \* the container ID "busbar:" + base of each base of a section

NoRef == "none"
RootClasses == {"Substation", "DistributionBox", "Building"}
TreeClasses == RootClasses \cup {"VoltageLevel", "Bay", "Feeder"}

\* Objects of a class in the tree; the children of T by their reference.
OfClass(s, C) == {x \in DOMAIN s.tree : s.tree[x].class \in C}
Referring(s, class, T) == {x \in OfClass(s, {class}) : s.tree[x].up \in T}
Installed(s, T) == {i \in DOMAIN s.equip : s.equip[i].in \in T}
Class(s, i) == s.equip[i].class

\* A KVS is staged as a Substation whose PSRType says "distribution box".
TypeOfRoot(c) == CASE c = "Substation" -> "substation" [] c = "DistributionBox" -> "distribution-box"
                   [] c = "Building" -> "house"
Cont(id, type, parent) == [id |-> id, type |-> type, parent |-> parent]
RootContainers(s, R) == {Cont(r, TypeOfRoot(s.tree[r].class), NoRef) : r \in R}

\* One busbar container per VoltageLevel; without one, per base of its sections.
BusbarID(s, i, VLs) == IF s.equip[i].in \in VLs THEN s.equip[i].in
                       ELSE BusbarOfBase[s.equip[i].of]

-----------------------------------------------------------------------------
(* pass_a.go                                                                *)

\* The first satellite met propagates its container to its connection, ahead of
\* what the connection says itself; satellites and generating units get none.
OwnContainerWins(s, placed, busbars) ==
    LET units == {i \in DOMAIN placed : Class(s, i) = "unit"}
        own == {i \in DOMAIN placed \ units : Class(s, i) # "generating"}
        pecs == {s.equip[i].of : i \in units}
        ofUnits == [p \in pecs |-> placed[CHOOSE i \in units : s.equip[i].of = p]]
    IN  Over(busbars, Over([i \in own |-> placed[i]], ofUnits))
Assign(s, placed, busbars) ==
    LET units == {i \in DOMAIN placed : Class(s, i) = "unit"}
        own == {i \in DOMAIN placed \ units : Class(s, i) # "generating"}
        pecs == {s.equip[i].of : i \in units}
        ofUnits == [p \in pecs |-> placed[CHOOSE i \in units : s.equip[i].of = p]]
    IN  Over(busbars, Over(ofUnits, [i \in own |-> placed[i]]))

\* The containers of a batch B of roots and of the equipment found below them.
ResolveBatchContainers(s, B) ==
    LET houses == B \cap OfClass(s, {"Building"})
        subs == B \ houses
        vls == Referring(s, "VoltageLevel", subs)
        feeders == Referring(s, "Feeder", subs)
        bays == Referring(s, "Bay", vls)
        direct == Installed(s, vls \cup subs)
        sections == {i \in direct : Class(s, i) = "busbar"}
        subOf(x) == IF x \in vls THEN s.tree[x].up ELSE x
        placed == [i \in Installed(s, bays \cup feeders \cup houses) \cup (direct \ sections) |->
                      subOf(s.equip[i].in)]
    IN  [containers |-> RootContainers(s, B)
            \cup {Cont(b, "bay", s.tree[s.tree[b].up].up) : b \in bays}
            \cup {Cont(f, "bay", s.tree[f].up) : f \in feeders}
            \cup {Cont(BusbarID(s, i, vls), "busbar", subOf(s.equip[i].in)) : i \in sections},
         of |-> Assign(s, placed, [i \in sections |-> BusbarID(s, i, vls)])]

-----------------------------------------------------------------------------
(* container.go                                                             *)

\* The whole model at once. An unresolved reference is an anomaly.
BuildContainers(s) ==
    LET subs == OfClass(s, {"Substation", "DistributionBox"})
        houses == OfClass(s, {"Building"})
        vls == {v \in OfClass(s, {"VoltageLevel"}) : s.tree[v].up \in subs}
        bays == {b \in OfClass(s, {"Bay"}) : s.tree[b].up \in vls}
        feeders == {f \in OfClass(s, {"Feeder"}) : s.tree[f].up \in subs}
        resolve(c) == CASE c \in bays \cup feeders -> c [] c \in vls -> s.tree[c].up
                        [] c \in subs \cup houses -> c [] OTHER -> NoRef
        E(classes) == {i \in DOMAIN s.equip : Class(s, i) \in classes}
        sections == {i \in E({"busbar"}) : s.equip[i].in \in vls \cup subs}
        units == {i \in E({"unit"}) : resolve(s.equip[i].in) # NoRef}
        rest == DOMAIN s.equip \ E({"busbar", "cable", "generating", "unit"})
        pecs == {s.equip[i].of : i \in units}
        found == {i \in rest \ pecs : resolve(s.equip[i].in) # NoRef}
    IN  [containers |-> RootContainers(s, subs \cup houses)
            \cup {Cont(b, "bay", s.tree[s.tree[b].up].up) : b \in bays}
            \cup {Cont(f, "bay", s.tree[f].up) : f \in feeders}
            \cup {Cont(BusbarID(s, i, vls), "busbar", resolve(s.equip[i].in)) : i \in sections},
         of |-> Over([i \in sections |-> BusbarID(s, i, vls)],
                 Over([p \in pecs |-> resolve(s.equip[Min({i \in units : s.equip[i].of = p})].in)],
                      [i \in found |-> resolve(s.equip[i].in)])),
         anomalies |-> (OfClass(s, {"VoltageLevel"}) \ vls) \cup (OfClass(s, {"Bay"}) \ bays)
                  \cup (OfClass(s, {"Feeder"}) \ feeders),
         unplaced |-> (E({"busbar"}) \ sections)
                  \cup {i \in rest \ (pecs \cup found) : s.equip[i].in # NoRef}]

-----------------------------------------------------------------------------
(* stationOwnerOf (parallel.go); the checks of containers in consistency.go. *)

ParentOf(C, c) == IF \E k \in C : k.id = c THEN (CHOOSE k \in C : k.id = c).parent ELSE NoRef
StationOwnerOf(C, c) == IF ParentOf(C, c) = NoRef THEN c ELSE ParentOf(C, c)

KVSTransformers(s, r) ==
    {<<"kvs-no-transformer", i>> : i \in {i \in DOMAIN r.of : /\ Class(s, i) = "transformer"
        /\ \E k \in r.containers : k.id = r.of[i] /\ k.type = "distribution-box"}}

\* Roots stand alone; bays and busbars are directly in a station or a KVS.
CheckContainerPaths(C) ==
    LET nested(k) == \E p \in C : p.id = k.parent /\ p.type \in {"substation", "distribution-box"}
        fits(k) == CASE k.type \in {"substation", "distribution-box"} -> k.parent = NoRef
                     [] k.type \in {"bay", "busbar"} -> nested(k)
                     [] OTHER -> TRUE
    IN  {<<"container-path", k.id>> : k \in {k \in C : ~fits(k)}}
=============================================================================
