----------------------------- MODULE Fachmodell -----------------------------
(***************************************************************************)
(* What the HJSON exporter and the HJSON importer have in common: the      *)
(* names of a Fachmodell file tree.                                        *)
(*                                                                         *)
(* An ID is the sequence of its parts between dashes ("S1-F1" is           *)
(* <<"S1", "F1">>); a name in a file that is local to the file ("@F1")     *)
(* starts with the part "@". An attribute key is <<class, name>>, with the *)
(* class "" when the key has no dot. An attribute has a sequence of        *)
(* values, each with a tag:                                                *)
(*   <<"text", x>>    a string that is no number                           *)
(*   <<"num", n, e>>  a string that reads as the number n * 1000^e         *)
(*   <<"float", n, e>> a number; in a file every number is one             *)
(*   <<"path", seq>>  the directories of a subregion                       *)
(*   <<"id", id>>     a string that is an ID or was made from one          *)
(*   <<"sat", class, attributes>>  a folded satellite object               *)
(***************************************************************************)
EXTENDS Integers, SequencesExt

NoID == <<>>
GND == <<"GND">>
NoAttrs == [k \in {} |-> <<>>]

\* The local form of an ID in the file of a root, and its inverse.
Shorten(root, id) ==
    IF id # GND /\ root # NoID /\ Len(id) > Len(root) /\ SubSeq(id, 1, Len(root)) = root
    THEN <<"@">> \o SubSeq(id, Len(root) + 1, Len(id))
    ELSE id

ResolveID(root, name) == IF name # NoID /\ name[1] = "@" THEN root \o Tail(name) ELSE name

\* Keys the program itself gives a meaning.
Lead == <<"IdentifiedObject", "name">>
Name == <<"", "name">>
Region == <<"", "region">>
SubRegion == <<"", "subregion">>
SubRegionPath == <<"", "subregion_path">>
Class == <<"", "cim_class">>
Satellite == <<"", "satellite">>
BusbarNode == <<"", "busbar_node">>

\* Keys whose numbers are kW and kvar in a file, MW and MVAr in the model.
KwToMWKeys ==
    {"EnergyConsumer"} \X {"p", "q"} \cup {"PowerElectronicsConnection"} \X {"p", "q", "ratedS"}

\* Directories of the top-level containers.
DirForType == [Substation |-> "ONS", DistributionBox |-> "KVS", House |-> "Haushalte", ACLine |-> "Kabel"]
RootTypes == DOMAIN DirForType
StationTypes == {"Substation", "DistributionBox"}
BoundaryDir == "Grenzknoten"

Without(f, K) == Restrict(f, DOMAIN f \ K)
At(f, x, none) == IF x \in DOMAIN f THEN f[x] ELSE none
=============================================================================
