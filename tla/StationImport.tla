--------------------------- MODULE StationImport ---------------------------
(***************************************************************************)
(* What RunPassA (pkg/impl/common/pass_a_pipeline.go) promises its caller, *)
(* with no page, batch, channel or worker in it: the rows of some station  *)
(* roots are committed, in any grouping and any order; a step may fail;    *)
(* the call returns nil only when no step failed and every root is         *)
(* committed, an error only when a step failed, and it writes nothing      *)
(* after it has returned.                                                  *)
(***************************************************************************)
CONSTANT Roots

VARIABLES persisted,   \* the roots whose rows are all committed
          faulted,     \* a read or a write has failed
          result       \* what the call returned, or "running"

vars == <<persisted, faulted, result>>

Init == persisted = {} /\ faulted = FALSE /\ result = "running"

\* Rows are committed, and the step that commits them may be the one that fails.
Work == /\ result = "running"
        /\ \E S \in SUBSET (Roots \ persisted) : persisted' = persisted \cup S
        /\ faulted' \in {faulted, TRUE}
        /\ UNCHANGED result

Succeed == /\ result = "running"
           /\ ~faulted
           /\ persisted = Roots
           /\ result' = "ok"
           /\ UNCHANGED <<persisted, faulted>>

GiveUp == /\ result = "running"
          /\ faulted
          /\ result' = "error"
          /\ UNCHANGED <<persisted, faulted>>

Next == Work \/ Succeed \/ GiveUp

Spec == Init /\ [][Next]_vars
=============================================================================
