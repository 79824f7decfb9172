------------------------------- MODULE Tables -------------------------------
(* Tables as functions from a key to its row, as sqlite's upserts keep them.  *)

NoRow == [k \in {} |-> k]

\* ON CONFLICT DO UPDATE: the rows r, and those of the table with other keys.
Over(r, table) == [k \in DOMAIN r \cup DOMAIN table |->
                      IF k \in DOMAIN r THEN r[k] ELSE table[k]]
Put(k, row, table) == [x \in DOMAIN table \cup {k} |-> IF x = k THEN row ELSE table[x]]
=============================================================================
