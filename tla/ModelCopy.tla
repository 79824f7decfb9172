------------------------------ MODULE ModelCopy ------------------------------
(***************************************************************************)
(* Reading a whole model page by page (the AllX methods of both stores)    *)
(* and copying it into another store (dbmigrate.CopyModel, the command     *)
(* sqlite2postgres).                                                       *)
(*                                                                         *)
(* A query returns rows in the order of their owner, at most BatchSize of  *)
(* them; the page ends with the rest of its last owner's rows ("owner      *)
(* continuation"), so that the next query may ask for greater owners.      *)
(* CopyModel writes each page with the store's upsert and goes on after    *)
(* the last owner; a killed or failed copy is simply started again, into   *)
(* the tables it has partly filled.                                        *)
(*                                                                         *)
(* A row is [owner, key, seq, val]: key and seq tell the rows of one owner *)
(* apart in the attribute and group tables; elsewhere an owner has one.    *)
(***************************************************************************)
EXTENDS Integers, Sequences

CONSTANTS Owners,     \* the IDs
          Rank,       \* their place in the database's string order
          Rows,       \* every row some store may hold
          Sources,    \* the contents a source store may have, table by table in query order
          Targets,    \* the contents the target store may have before the copy
          BatchSize,  \* rows per query
          MaxKills    \* bound: copies that end early

Order == <<"containers", "equipment", "nodes", "edges", "geometry", "attributes", "groups">>
Tables == {Order[i] : i \in 1..7}

Sorted(tab) == \A i, j \in DOMAIN tab : i < j => Rank[tab[i].owner] <= Rank[tab[j].owner]

ASSUME CopyAssumption ==
    /\ Rank \in [Owners -> Nat \ {0}]
    /\ \A a, b \in Owners : Rank[a] = Rank[b] => a = b
    /\ BatchSize \in Nat \ {0} /\ MaxKills \in Nat
    /\ \A r \in Rows : r.owner \in Owners
    /\ Sources \subseteq [Tables -> Seq(Rows)]
    /\ \A s \in Sources : \A t \in Tables : Sorted(s[t])
    /\ Targets \subseteq [Tables -> SUBSET Rows]

VARIABLES src,     \* the source store: [Tables -> its rows in query order]
          dst,     \* the target store: [Tables -> set of rows]
          table,   \* the table being copied, 8 after the last
          after,   \* the rank of the last owner copied, 0 at a table's start
          phase,   \* "running" | "stopped" | "done"
          kills,
          before   \* history: what the target held before the first copy

copyVars == <<src, dst, table, after, phase, kills, before>>

----------------------------------------------------------------------------
\* A query: WHERE owner > a ORDER BY owner LIMIT BatchSize.
Later(tab, a) == {i \in DOMAIN tab : Rank[tab[i].owner] > a}
Limited(tab, a) == LET later == Later(tab, a) IN {i \in later : i - BatchSize \notin later}

\* The query as it was before the owner continuation.
CutPage(tab, a) == Limited(tab, a)

\* The page: the limited rows and the rest of the rows of their owners.
Page(tab, a) ==
    LET limited == Limited(tab, a)
    IN  {i \in Later(tab, a) : \E j \in limited : tab[j].owner = tab[i].owner}

\* len(page) < limit: the caller takes it for the last page.
Short(tab, a) == Len(tab) - BatchSize + 1 \notin Later(tab, a)

\* What an upsert replaces: all values of a key, the row or the groups of an owner.
Slot(t, r) == IF t = "attributes" THEN <<r.owner, r.key>> ELSE <<r.owner>>
Upsert(t, rows, new) == {r \in rows : \A n \in new : Slot(t, n) # Slot(t, r)} \cup new
Whole(tab) == {tab[i] : i \in DOMAIN tab}

CopyInit ==
    /\ src \in Sources
    /\ dst \in Targets
    /\ before = dst
    /\ table = 1 /\ after = 0 /\ phase = "running" /\ kills = 0

NextTable == table' = table + 1 /\ after' = 0

\* One turn of the loop of a copyX function.
CopyPage ==
    /\ phase = "running" /\ table <= 7
    /\ LET t == Order[table]
           page == Page(src[t], after)
       IN  IF Later(src[t], after) = {}
           THEN NextTable /\ UNCHANGED dst
           ELSE /\ dst' = [dst EXCEPT ![t] = Upsert(t, @, {src[t][i] : i \in page})]
                /\ \E last \in page :
                      /\ \A i \in page : i <= last
                      /\ IF Short(src[t], after)
                         THEN NextTable
                         ELSE after' = Rank[src[t][last].owner] /\ UNCHANGED table
    /\ UNCHANGED <<src, phase, kills, before>>

\* A read or a write fails, or the process is killed: pages are whole or absent.
KillCopy ==
    /\ phase = "running" /\ kills < MaxKills
    /\ kills' = kills + 1
    /\ phase' = "stopped"
    /\ UNCHANGED <<src, dst, table, after, before>>

\* The command is run again: CopyModel from its first table.
StartCopy ==
    /\ phase = "stopped"
    /\ phase' = "running" /\ table' = 1 /\ after' = 0
    /\ UNCHANGED <<src, dst, kills, before>>

FinishCopy ==
    /\ phase = "running" /\ table = 8
    /\ phase' = "done"
    /\ UNCHANGED <<src, dst, table, after, kills, before>>

CopyNext == CopyPage \/ KillCopy \/ StartCopy \/ FinishCopy

CopySpec == CopyInit /\ [][CopyNext]_copyVars

----------------------------------------------------------------------------
CopyTypeOK ==
    /\ src \in Sources
    /\ dst \in [Tables -> SUBSET Rows] /\ before \in [Tables -> SUBSET Rows]
    /\ table \in 1..8 /\ after \in Nat /\ kills \in Nat
    /\ phase \in {"running", "stopped", "done"}

\* A finished copy is exact: every row of the source is in the target, what the
\* target held under the same key is gone, and nothing else of it changed --
\* however the rows fall into pages, and however often the copy was started over.
CopyExact == phase = "done" => \A t \in Tables : dst[t] = Upsert(t, before[t], Whole(src[t]))

----------------------------------------------------------------------------
\* The strengthening that is inductive. A row is settled when the target has it
\* and has nothing but rows of the source under its key.
Settled(t, i) ==
    /\ src[t][i] \in dst[t]
    /\ \A r \in dst[t] : Slot(t, r) = Slot(t, src[t][i]) => r \in Whole(src[t])

Copied(k, i) == k < table \/ (k = table /\ Rank[src[Order[k]][i].owner] <= after)

CopyInv ==
    /\ CopyTypeOK
    /\ \A t \in Tables : dst[t] \subseteq before[t] \cup Whole(src[t])
    /\ \A t \in Tables : \A r \in before[t] :
          (\A n \in Whole(src[t]) : Slot(t, n) # Slot(t, r)) => r \in dst[t]
    /\ phase = "running" =>
          \A k \in 1..7 : \A i \in DOMAIN src[Order[k]] : Copied(k, i) => Settled(Order[k], i)
    /\ phase = "done" => \A t \in Tables : \A i \in DOMAIN src[t] : Settled(t, i)
=============================================================================
